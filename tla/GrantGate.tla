------------------------------ MODULE GrantGate ------------------------------
(***************************************************************************)
(* What the hub promises about tool calls (docs/architecture.md: "No       *)
(* grant, no call"): a call runs only under a licence for exactly what it  *)
(* asked, which the user issued for that very call or which was still good *)
(* when the call was admitted; and a licence that has been withdrawn or    *)
(* has lapsed is never good again.                                         *)
(***************************************************************************)
CONSTANTS
    Calls,      \* tool calls
    Things,     \* what a call may ask for
    Licences,   \* identities of licences
    Nothing,    \* a call that has asked for nothing
    None        \* a call without a licence

VARIABLES
    wanted,     \* [Calls -> Things]: what a call asked for
    issued,     \* what each licence issued so far is for
    good,       \* the licences neither withdrawn nor lapsed
    licence     \* [Calls -> Licences]: the licence a call was admitted under

vars == <<wanted, issued, good, licence>>

Init ==
    /\ wanted = [c \in Calls |-> Nothing]
    /\ issued = [l \in {} |-> Nothing]
    /\ good = {}
    /\ licence = [c \in Calls |-> None]

\* A call says what it wants and has to wait for the user.
Ask(c, x) ==
    /\ wanted[c] = Nothing
    /\ wanted' = [wanted EXCEPT ![c] = x]
    /\ UNCHANGED <<issued, good, licence>>

\* A call says what it wants and is admitted under a licence still good.
Reuse(c, x, l) ==
    /\ wanted[c] = Nothing
    /\ l \in good
    /\ issued[l] = x
    /\ wanted' = [wanted EXCEPT ![c] = x]
    /\ licence' = [licence EXCEPT ![c] = l]
    /\ UNCHANGED <<issued, good>>

\* The user consents to a waiting call: a new licence, for what it asked.
Consent(c, l) ==
    /\ wanted[c] \in Things
    /\ licence[c] = None
    /\ l \in Licences \ DOMAIN issued
    /\ issued' = [m \in DOMAIN issued \cup {l} |-> IF m = l THEN wanted[c] ELSE issued[m]]
    /\ good' = good \cup {l}
    /\ licence' = [licence EXCEPT ![c] = l]
    /\ UNCHANGED wanted

\* Licences are withdrawn, or lapse.
Withdraw ==
    /\ good' \subseteq good
    /\ UNCHANGED <<wanted, issued, licence>>

Next ==
    \/ \E c \in Calls, x \in Things : Ask(c, x) \/ \E l \in Licences : Reuse(c, x, l)
    \/ \E c \in Calls, l \in Licences : Consent(c, l)
    \/ Withdraw

Spec == Init /\ [][Next]_vars
=============================================================================
