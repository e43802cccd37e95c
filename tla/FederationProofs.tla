---------------------------- MODULE FederationProofs ----------------------------
(***************************************************************************)
(* Proofs about FederationCall: what two dialogs, a grants table shared    *)
(* with local calls, and books that change during every wait leave of a    *)
(* peer's call, for every set of calls, phones, peers and requests.        *)
(***************************************************************************)
EXTENDS FederationCall, ToolCallProofs

LEMMA TwoDialogs ==
    /\ \A c \in Calls : Ask(c) \in Requests /\ Consult(c) \in Requests
    /\ \A c, d \in Calls : Ask(c) # Consult(d)
    /\ \A c, d \in Calls : (Consult(c) = Consult(d) \/ Ask(c) = Ask(d)) => c = d
  BY DialogAssumption, FederatedDialogAssumption DEF Ask, Consult, Requests

-----------------------------------------------------------------------------
(***************************************************************************)
(* The inductive invariant.                                                *)
(***************************************************************************)

Shape ==
    /\ GrantStoreTypeOK
    /\ StreamTypeOK
    /\ owner \in [Tools -> Plugins \cup {NoPlugin}]
    /\ call \in [Calls -> Keys \cup {NoKey}]
    /\ held \in [Calls -> GrantIds \cup {NoGrant}]
    /\ audit \in [Calls -> Seq(AuditRows)]
    /\ ran \subseteq Calls
    /\ granted \in [DOMAIN granted -> Delegations]
    /\ DOMAIN signed \subseteq RequestIds
    /\ signed \in [DOMAIN signed -> PeerRequests]
    /\ msg \in [Calls -> RequestIds \cup {NoRequest}]
    /\ \A c \in Calls : pc[c] = "asking" => call[c] \in Keys

\* The promises of the two dialogs and the stage of the handler move together,
\* and there is no second dialog without the first one's approval.
DialogInv(c) ==
    /\ pc[c] \in {"idle", "refreshing"} => promise[Consult(c)] = "none"
    /\ pc[c] = "consulting" <=> promise[Consult(c)] = "pending"
    /\ pc[c] = "asking" <=> promise[Ask(c)] = "pending"
    /\ promise[Ask(c)] # "none" => promise[Consult(c)] = "approved"
    /\ promise[Consult(c)] \in {"denied", "timeout", "closed"} => pc[c] = "denied"
    /\ promise[Ask(c)] \in {"denied", "timeout", "closed"} => pc[c] = "denied"
    /\ promise[Consult(c)] = "lost" \/ promise[Ask(c)] = "lost" => pc[c] = "lost"

\* An admitted call still fits the request it came with and the delegation
\* that request names.
BackedInv(c) ==
    /\ pc[c] = "idle" => call[c] = NoKey
    /\ pc[c] \in {"refreshing", "consulting", "asking"} => call[c] \in Keys
    /\ call[c] # NoKey =>
         /\ msg[c] \in DOMAIN signed
         /\ signed[msg[c]].peer = call[c].delegated_by
         /\ signed[msg[c]].delegation \in DOMAIN granted
         /\ granted[signed[msg[c]].delegation].peer = call[c].delegated_by
         /\ granted[signed[msg[c]].delegation].tool = call[c].tool

\* A call holds a grant exactly when it was written to a plugin, and then it
\* is of its own key and no dialog of the call is open or was refused.
HeldInv(c) ==
    /\ c \in ran <=> held[c] # NoGrant
    /\ held[c] # NoGrant =>
         /\ held[c] \in DOMAIN grants
         /\ grants[held[c]].key = call[c]
         /\ call[c] \in Keys
         /\ promise[Consult(c)] = "approved"
         /\ promise[Ask(c)] \in {"none", "approved"}

\* The stages of a call that has its row in the audit log.
Audited == {"ok", "error", "denied"} \cup Bounces

LoggedInv(c) == Len(audit[c]) = IF pc[c] \in Audited THEN 1 ELSE 0

PeerInv(c) == DialogInv(c) /\ BackedInv(c) /\ HeldInv(c) /\ LoggedInv(c)

FedIInv == Shape /\ (\A c \in PeerCalls : PeerInv(c)) /\ ConsentInv

LEMMA FedInitInv == FedInit => FedIInv
<1> SUFFICES ASSUME FedInit PROVE FedIInv
  OBVIOUS
<1>1. Shape
  BY Constants DEF FedInit, Init, Shape, GrantStoreInit, GrantStoreTypeOK, StreamInit,
     StreamTypeOK, PromiseStates
<1>2. ASSUME NEW c \in PeerCalls PROVE PeerInv(c)
  <2>1. c \in Calls
    BY PeerCallsAssumption
  <2>2. /\ pc[c] = "idle" /\ call[c] = NoKey /\ held[c] = NoGrant /\ audit[c] = <<>> /\ c \notin ran
        /\ promise[Consult(c)] = "none" /\ promise[Ask(c)] = "none"
    BY <2>1, TwoDialogs DEF FedInit, Init, StreamInit
  <2> QED
    BY <2>2 DEF PeerInv, DialogInv, BackedInv, HeldInv, LoggedInv, Audited, Bounces
<1>3. ConsentInv
  BY DEF FedInit, Init, StreamInit, ConsentInv
<1> QED
  BY <1>1, <1>2, <1>3 DEF FedIInv

-----------------------------------------------------------------------------
(***************************************************************************)
(* What a step leaves alone.                                               *)
(***************************************************************************)

Untouched(c) ==
    /\ pc'[c] = pc[c] /\ call'[c] = call[c] /\ held'[c] = held[c]
    /\ audit'[c] = audit[c] /\ msg'[c] = msg[c]
    /\ c \in ran' <=> c \in ran
    /\ promise'[Consult(c)] = promise[Consult(c)]
    /\ promise'[Ask(c)] = promise[Ask(c)]

\* Requests and delegations are never taken back, only revoked and aged.
RequestsKept == \A r \in DOMAIN signed : r \in DOMAIN signed' /\ signed'[r] = signed[r]

DelegationsKept ==
    \A d \in DOMAIN granted :
        /\ d \in DOMAIN granted'
        /\ granted'[d].peer = granted[d].peer
        /\ granted'[d].tool = granted[d].tool

BooksKept == GrantsKept /\ RequestsKept /\ DelegationsKept

LEMMA SameBooks ==
    ASSUME GrantsKept, UNCHANGED <<signed, granted>>
    PROVE  BooksKept
  BY DEF BooksKept, RequestsKept, DelegationsKept

LEMMA BackedStays ==
    ASSUME Shape, BooksKept, NEW c \in Calls, BackedInv(c), call'[c] = call[c], msg'[c] = msg[c],
           pc'[c] = "idle" => pc[c] = "idle",
           pc'[c] \in {"refreshing", "consulting", "asking"} =>
               pc[c] \in {"refreshing", "consulting", "asking"}
    PROVE  BackedInv(c)'
  <1>1. pc[c] = "idle" => call[c] = NoKey
    BY DEF BackedInv
  <1>2. CASE call[c] = NoKey
    BY <1>1, <1>2 DEF BackedInv
  <1>3. CASE call[c] # NoKey
    <2> DEFINE d == signed[msg[c]].delegation
    <2>1. /\ msg[c] \in DOMAIN signed /\ signed[msg[c]].peer = call[c].delegated_by
          /\ d \in DOMAIN granted /\ granted[d].peer = call[c].delegated_by
          /\ granted[d].tool = call[c].tool
      BY <1>3 DEF BackedInv
    <2>2. msg[c] \in DOMAIN signed' /\ signed'[msg[c]] = signed[msg[c]]
      BY <2>1 DEF BooksKept, RequestsKept
    <2>3. d \in DOMAIN granted' /\ granted'[d].peer = granted[d].peer /\ granted'[d].tool = granted[d].tool
      BY <2>1 DEF BooksKept, DelegationsKept
    <2> QED
      BY <1>1, <1>3, <2>1, <2>2, <2>3 DEF BackedInv
  <1> QED
    BY <1>2, <1>3

LEMMA HeldStays ==
    ASSUME GrantsKept, NEW c \in Calls, HeldInv(c), call'[c] = call[c], held'[c] = held[c],
           c \in ran' <=> c \in ran,
           held[c] # NoGrant => /\ promise'[Consult(c)] = promise[Consult(c)]
                                /\ promise'[Ask(c)] = promise[Ask(c)]
    PROVE  HeldInv(c)'
  BY DEF HeldInv, GrantsKept, Ask, Consult

\* A call the step does not touch keeps its part of the invariant.
LEMMA Still ==
    ASSUME Shape, BooksKept, NEW c \in PeerCalls, PeerInv(c), Untouched(c)
    PROVE  PeerInv(c)'
  <1>1. c \in Calls
    BY PeerCallsAssumption
  <1>2. DialogInv(c)'
    BY DEF PeerInv, DialogInv, Untouched, Ask, Consult
  <1>3. BackedInv(c)'
    BY <1>1, BackedStays DEF PeerInv, Untouched
  <1>4. HeldInv(c)'
    BY <1>1, HeldStays DEF PeerInv, Untouched, BooksKept
  <1>5. LoggedInv(c)'
    BY DEF PeerInv, LoggedInv, Untouched, Audited, Bounces
  <1> QED
    BY <1>2, <1>3, <1>4, <1>5 DEF PeerInv

\* The steps of one peer's call.
LEMMA OneMoves ==
    ASSUME FedIInv, BooksKept, NEW c \in PeerCalls,
           \A d \in Calls : d # c => Untouched(d),
           DialogInv(c)', BackedInv(c)', HeldInv(c)', LoggedInv(c)'
    PROVE  \A d \in PeerCalls : PeerInv(d)'
  <1> SUFFICES ASSUME NEW d \in PeerCalls PROVE PeerInv(d)'
    OBVIOUS
  <1>1. CASE d = c
    BY <1>1 DEF PeerInv, DialogInv, BackedInv, HeldInv, LoggedInv, Audited, Bounces, Ask, Consult
  <1>2. CASE d # c
    BY <1>2, PeerCallsAssumption, Still DEF FedIInv
  <1> QED
    BY <1>1, <1>2

-----------------------------------------------------------------------------
(***************************************************************************)
(* The helpers, as seen by one call.                                       *)
(***************************************************************************)

LEMMA EnterOne ==
    ASSUME NEW c \in Calls, NEW s, Enter({c}, s)
    PROVE  pc'[c] = s /\ \A d \in Calls : d # c => pc'[d] = pc[d]
  BY DEF Enter

LEMMA LogOne ==
    ASSUME Shape, NEW c \in Calls, NEW d \in {"approved", "denied", "error"}, Log({c}, d)
    PROVE  /\ audit' \in [Calls -> Seq(AuditRows)]
           /\ Len(audit'[c]) = Len(audit[c]) + 1
           /\ \A e \in Calls : e # c => audit'[e] = audit[e]
  <1>1. audit' \in [Calls -> Seq(AuditRows)]
    BY LogType DEF Shape
  <1>2. audit'[c] = Append(audit[c], [decision |-> d, grant |-> held[c]])
    BY DEF Log
  <1>3. audit[c] \in Seq(AuditRows) /\ [decision |-> d, grant |-> held[c]] \in AuditRows
    BY DEF Shape, AuditRows
  <1>4. Len(audit'[c]) = Len(audit[c]) + 1
    BY <1>2, <1>3
  <1> QED
    BY <1>1, <1>4 DEF Log

\* A dialog is opened.
LEMMA RequestOne ==
    ASSUME Shape, ConsentInv, NEW r \in Requests, RequestApproval(r)
    PROVE  /\ StreamTypeOK' /\ ConsentInv'
           /\ promise'[r] = "pending"
           /\ \A q \in Requests : q # r => promise'[q] = promise[q]
  <1>1. StreamTypeOK'
    BY RequestApprovalType DEF Shape
  <1>2. promise'[r] = "pending" /\ \A q \in Requests : q # r => promise'[q] = promise[q]
    BY DEF RequestApproval, Shape, StreamTypeOK
  <1>3. ConsentInv'
    BY <1>2, SameConsent DEF RequestApproval
  <1> QED
    BY <1>1, <1>2, <1>3

\* A dialog is answered: an approval is one some user tapped.
LEMMA SettleOne ==
    ASSUME Shape, ConsentInv, NEW r \in Requests, NEW m, m.request = r, Settle(m)
    PROVE  /\ StreamTypeOK' /\ ConsentInv'
           /\ promise[r] = "pending" /\ promise'[r] = m.decision
           /\ \A q \in Requests : q # r => promise'[q] = promise[q]
  <1>1. StreamTypeOK'
    BY SettleType DEF Shape
  <1>2. /\ promise[r] = "pending" /\ promise'[r] = m.decision
        /\ \A q \in Requests : q # r => promise'[q] = promise[q]
    BY DEF Settle, Shape, StreamTypeOK
  <1>3. m \in wire /\ wire' \subseteq wire /\ UNCHANGED consents
    BY DEF Settle
  <1>4. m.decision = "approved" => r \in consents
    BY <1>3 DEF ConsentInv
  <1>5. ConsentInv'
    BY <1>2, <1>3, <1>4 DEF ConsentInv, Requests
  <1> QED
    BY <1>1, <1>2, <1>5

LEMMA FireOne ==
    ASSUME Shape, ConsentInv, NEW r \in Requests, TimerFires(r)
    PROVE  /\ StreamTypeOK' /\ ConsentInv'
           /\ promise[r] = "pending" /\ promise'[r] = "timeout"
           /\ \A q \in Requests : q # r => promise'[q] = promise[q]
  <1>1. StreamTypeOK'
    BY TimerFiresType DEF Shape
  <1>2. /\ promise[r] = "pending" /\ promise'[r] = "timeout"
        /\ \A q \in Requests : q # r => promise'[q] = promise[q]
    BY DEF TimerFires, Shape, StreamTypeOK
  <1>3. ConsentInv'
    BY <1>2, SameConsent DEF TimerFires
  <1> QED
    BY <1>1, <1>2, <1>3

\* The first dialog is approved and the second one opened in the same turn.
LEMMA SettleAndRequestOne ==
    ASSUME Shape, ConsentInv, NEW q \in Requests, NEW r \in Requests, q # r,
           NEW m, m.request = q, m.decision = "approved", SettleAndRequest(m, r)
    PROVE  /\ StreamTypeOK' /\ ConsentInv'
           /\ promise[q] = "pending" /\ promise'[q] = "approved" /\ promise'[r] = "pending"
           /\ \A o \in Requests : o # q /\ o # r => promise'[o] = promise[o]
  <1>1. /\ promise[q] = "pending" /\ promise'[q] = "approved" /\ promise'[r] = "pending"
        /\ \A o \in Requests : o # q /\ o # r => promise'[o] = promise[o]
    BY DEF SettleAndRequest, Shape, StreamTypeOK
  <1>2. promise' \in [Requests -> PromiseStates]
    BY DEF SettleAndRequest, Shape, StreamTypeOK, PromiseStates
  <1>3. timer' \in [Requests -> Nat]
    <2>1. ApprovalTimeout[r[2]] \in Nat
      BY Constants DEF Requests
    <2> QED
      BY <2>1 DEF SettleAndRequest, Shape, StreamTypeOK
  <1>4. cards' \in [Phones -> SUBSET Requests]
    BY DEF SettleAndRequest, ShowCard, Shape, StreamTypeOK
  <1>5. StreamTypeOK'
    BY <1>2, <1>3, <1>4 DEF SettleAndRequest, Shape, StreamTypeOK
  <1>6. m \in wire /\ wire' \subseteq wire /\ UNCHANGED consents
    BY DEF SettleAndRequest
  <1>7. q \in consents
    BY <1>6 DEF ConsentInv
  <1>8. ConsentInv'
    BY <1>1, <1>6, <1>7 DEF ConsentInv, Requests
  <1> QED
    BY <1>1, <1>5, <1>8

\* plugin.callTool.
LEMMA RunOne ==
    ASSUME Shape, NEW c \in Calls, NEW g \in GrantIds, Run(c, g)
    PROVE  /\ held' \in [Calls -> GrantIds \cup {NoGrant}]
           /\ pc'[c] = "running" /\ held'[c] = g /\ g # NoGrant /\ c \in ran' /\ ran' \subseteq Calls
           /\ \A d \in Calls : d # c => /\ pc'[d] = pc[d] /\ held'[d] = held[d]
                                        /\ d \in ran' <=> d \in ran
           /\ UNCHANGED <<call, owner, audit>>
  BY Constants DEF Run, Enter, Shape

LEMMA NoneMoves ==
    ASSUME FedIInv, Shape', ConsentInv', BooksKept, \A d \in PeerCalls : Untouched(d)
    PROVE  FedIInv'
  BY Still DEF FedIInv, PeerInv, DialogInv, BackedInv, HeldInv, LoggedInv, Audited, Bounces, Ask, Consult

-----------------------------------------------------------------------------
(***************************************************************************)
(* The hub's own calls beside the peers': one step per action.             *)
(***************************************************************************)

LEMMA LocalStep ==
    ASSUME FedIInv, NEW c \in Calls \ PeerCalls, Handler(c), UNCHANGED fedVars
    PROVE  FedIInv'
<1> USE DEF FedIInv
<1>0. UNCHANGED <<granted, signed, msg>> /\ \A d \in PeerCalls : d \in Calls /\ d # c
  BY PeerCallsAssumption DEF fedVars
\* What is left to show of each action.
<1>f. ASSUME GrantStoreTypeOK', StreamTypeOK', ConsentInv', GrantsKept,
             owner' = owner, call' \in [Calls -> Keys \cup {NoKey}],
             held' \in [Calls -> GrantIds \cup {NoGrant}], audit' \in [Calls -> Seq(AuditRows)],
             ran' \subseteq Calls, pc'[c] = "asking" => call'[c] \in Keys,
             \A d \in Calls : d # c => /\ pc'[d] = pc[d] /\ call'[d] = call[d] /\ held'[d] = held[d]
                                       /\ audit'[d] = audit[d] /\ (d \in ran' <=> d \in ran),
             \A r \in Requests : r # Ask(c) => promise'[r] = promise[r]
      PROVE  FedIInv'
  <2>1. Shape'
    BY <1>0, <1>f DEF Shape
  <2>2. BooksKept
    BY <1>0, <1>f, SameBooks
  <2>3. \A d \in PeerCalls : Untouched(d)
    BY <1>0, <1>f, TwoDialogs DEF Untouched
  <2> QED
    BY <1>f, <2>1, <2>2, <2>3, NoneMoves
<1>e. \A s : Enter({c}, s) => pc'[c] = s /\ \A d \in Calls : d # c => pc'[d] = pc[d]
  BY EnterOne
<1>k. ASSUME NEW t \in Tools, NEW a \in Agents, owner[t] # NoPlugin PROVE KeyOf(t, a) \in Keys
  BY <1>k DEF KeyOf, Keys, Origins, Shape
\* Steps that leave the stream and the table alone.
<1>q. ASSUME UNCHANGED <<grants, streamVars>> PROVE
        /\ GrantStoreTypeOK' /\ StreamTypeOK' /\ ConsentInv' /\ GrantsKept /\ UNCHANGED promise
  BY <1>q, SameStore DEF Shape, GrantStoreTypeOK, StreamTypeOK, streamVars, ConsentInv
<1>p. ASSUME NEW g \in GrantIds, NEW p, Proceed(c, g, p) PROVE
        /\ held' \in [Calls -> GrantIds \cup {NoGrant}] /\ ran' \subseteq Calls
        /\ UNCHANGED audit
        /\ \A d \in Calls : d # c => /\ pc'[d] = pc[d] /\ held'[d] = held[d]
                                     /\ d \in ran' <=> d \in ran
  BY <1>p, <1>e DEF Proceed, Shape
<1>r. ASSUME Refuse({c}) PROVE
        /\ audit' \in [Calls -> Seq(AuditRows)] /\ UNCHANGED <<call, held, ran>>
        /\ pc'[c] = "denied"
        /\ \A d \in Calls : d # c => pc'[d] = pc[d] /\ audit'[d] = audit[d]
  BY <1>r, <1>e, LogOne DEF Refuse
<1>1. ASSUME NEW t \in Tools, CallUnknownTool(c, t) PROVE FedIInv'
  <2>1. pc'[c] = "unknown" /\ \A d \in Calls : d # c => pc'[d] = pc[d]
    BY <1>1, <1>e DEF CallUnknownTool
  <2>2. UNCHANGED <<grants, streamVars, owner, call, held, ran, audit>>
    BY <1>1 DEF CallUnknownTool
  <2>3. call' \in [Calls -> Keys \cup {NoKey}] /\ held' \in [Calls -> GrantIds \cup {NoGrant}]
        /\ audit' \in [Calls -> Seq(AuditRows)] /\ ran' \subseteq Calls
    BY <2>2 DEF Shape
  <2> QED
    BY <1>f, <1>q, <2>1, <2>2, <2>3
<1>2. ASSUME NEW t \in Tools, NEW a \in Agents, CallWithGrant(c, t, a) PROVE FedIInv'
  <2>1. PICK g \in FindActive(KeyOf(t, a)) : Proceed(c, g, owner[t])
    BY <1>2 DEF CallWithGrant
  <2>2. g \in GrantIds
    BY FindActiveType DEF Shape, GrantStoreTypeOK
  <2>3. KeyOf(t, a) \in Keys
    BY <1>2, <1>k DEF CallWithGrant
  <2>4. call' = [call EXCEPT ![c] = KeyOf(t, a)] /\ UNCHANGED <<grants, streamVars, owner>>
    BY <1>2 DEF CallWithGrant
  <2>5. call' \in [Calls -> Keys \cup {NoKey}] /\ call'[c] \in Keys
        /\ \A d \in Calls : d # c => call'[d] = call[d]
    BY <2>3, <2>4 DEF Shape
  <2>6. audit' \in [Calls -> Seq(AuditRows)]
    BY <1>p, <2>1, <2>2 DEF Shape
  <2> QED
    BY <1>f, <1>p, <1>q, <2>1, <2>2, <2>4, <2>5, <2>6
<1>3. ASSUME NEW t \in Tools, NEW a \in Agents, CallAsks(c, t, a) PROVE FedIInv'
  <2>1. KeyOf(t, a) \in Keys
    BY <1>3, <1>k DEF CallAsks
  <2>2. call' \in [Calls -> Keys \cup {NoKey}] /\ call'[c] \in Keys
        /\ \A d \in Calls : d # c => call'[d] = call[d]
    BY <1>3, <2>1 DEF CallAsks, Shape
  <2>3. StreamTypeOK' /\ ConsentInv' /\ \A q \in Requests : q # Ask(c) => promise'[q] = promise[q]
    BY <1>3, AskIsRequest, RequestOne DEF CallAsks
  <2>4. GrantStoreTypeOK' /\ GrantsKept
    BY <1>3, SameStore DEF CallAsks, Shape, GrantStoreTypeOK
  <2> QED
    BY <1>3, <1>e, <1>f, <2>2, <2>3, <2>4 DEF CallAsks, Shape
<1>4. ASSUME NEW m, Approve(c, m) PROVE FedIInv'
  <2>1. PICK g \in GrantIds : CreateGrant(g, call[c]) /\ Proceed(c, g, call[c].plugin)
    BY <1>4 DEF Approve
  <2>2. call[c] \in Keys /\ UNCHANGED <<call, owner>>
    BY <1>4 DEF Approve, Shape
  <2>3. GrantStoreTypeOK' /\ GrantsKept
    BY <2>1, <2>2, CreateGrantType, CreateKeeps DEF Shape
  <2>4. StreamTypeOK' /\ ConsentInv' /\ \A q \in Requests : q # Ask(c) => promise'[q] = promise[q]
    BY <1>4, AskIsRequest, SettleOne DEF Approve
  <2>5. audit' \in [Calls -> Seq(AuditRows)]
    BY <1>p, <2>1 DEF Shape
  <2> QED
    BY <1>f, <1>p, <2>1, <2>2, <2>3, <2>4, <2>5 DEF Shape
<1>5. ASSUME NEW m, Deny(c, m) PROVE FedIInv'
  <2>1. StreamTypeOK' /\ ConsentInv' /\ \A q \in Requests : q # Ask(c) => promise'[q] = promise[q]
    BY <1>5, AskIsRequest, SettleOne DEF Deny
  <2>2. GrantStoreTypeOK' /\ GrantsKept /\ owner' = owner
    BY <1>5, SameStore DEF Deny, Shape, GrantStoreTypeOK
  <2> QED
    BY <1>5, <1>f, <1>r, <2>1, <2>2 DEF Deny, Shape
<1>6. ASSUME TimeOut(c) PROVE FedIInv'
  <2>1. StreamTypeOK' /\ ConsentInv' /\ \A q \in Requests : q # Ask(c) => promise'[q] = promise[q]
    BY <1>6, AskIsRequest, FireOne DEF TimeOut
  <2>2. GrantStoreTypeOK' /\ GrantsKept /\ owner' = owner
    BY <1>6, SameStore DEF TimeOut, Shape, GrantStoreTypeOK
  <2> QED
    BY <1>6, <1>f, <1>r, <2>1, <2>2 DEF TimeOut, Shape
<1>7. ASSUME RefreshSucceeds(c) \/ RefreshFails(c) PROVE FedIInv'
  <2>1. PICK state : UseToken(c, state)
    BY <1>7 DEF RefreshSucceeds, RefreshFails
  <2>2. /\ pc'[c] \in {"failed", "running"} /\ ran' \subseteq ran \cup {c} /\ ran \subseteq ran'
        /\ \A d \in Calls : d # c => pc'[d] = pc[d]
        /\ UNCHANGED <<call, held, audit>>
    BY <1>e, <2>1 DEF UseToken
  <2> QED
    BY <1>7, <1>f, <1>q, <2>2 DEF RefreshSucceeds, RefreshFails, Shape
<1>8. ASSUME PluginSucceeds(c) \/ PluginFails(c) PROVE FedIInv'
  <2>1. /\ audit' \in [Calls -> Seq(AuditRows)] /\ pc'[c] \in {"ok", "error"}
        /\ \A d \in Calls : d # c => pc'[d] = pc[d] /\ audit'[d] = audit[d]
    BY <1>8, <1>e, LogOne DEF PluginSucceeds, PluginFails
  <2> QED
    BY <1>8, <1>f, <1>q, <2>1 DEF PluginSucceeds, PluginFails, Shape
<1> QED
  BY <1>1, <1>2, <1>3, <1>4, <1>5, <1>6, <1>7, <1>8 DEF Handler

-----------------------------------------------------------------------------
(***************************************************************************)
(* A peer's call: one step per action.                                     *)
(***************************************************************************)

\* What is left to show of an action of one peer's call.
LEMMA PeerFrame ==
    ASSUME FedIInv, NEW c \in PeerCalls,
           GrantStoreTypeOK', StreamTypeOK', ConsentInv', GrantsKept,
           UNCHANGED <<granted, signed, owner>>,
           call' \in [Calls -> Keys \cup {NoKey}], held' \in [Calls -> GrantIds \cup {NoGrant}],
           audit' \in [Calls -> Seq(AuditRows)], msg' \in [Calls -> RequestIds \cup {NoRequest}],
           ran' \subseteq Calls,
           \A d \in Calls : d # c => /\ pc'[d] = pc[d] /\ call'[d] = call[d] /\ held'[d] = held[d]
                                     /\ audit'[d] = audit[d] /\ msg'[d] = msg[d]
                                     /\ d \in ran' <=> d \in ran,
           \A r \in Requests \ {Ask(c), Consult(c)} : promise'[r] = promise[r],
           DialogInv(c)', BackedInv(c)', HeldInv(c)', LoggedInv(c)'
    PROVE  FedIInv'
  <1>0. c \in Calls
    BY PeerCallsAssumption
  <1>1. BooksKept
    BY SameBooks
  <1>2. \A d \in Calls : d # c => Untouched(d)
    BY <1>0, TwoDialogs DEF Untouched
  <1>3. pc'[c] = "asking" => call'[c] \in Keys
    BY DEF BackedInv
  <1>4. Shape'
    BY <1>3 DEF Shape, FedIInv
  <1>5. \A d \in PeerCalls : PeerInv(d)'
    BY <1>1, <1>2, OneMoves
  <1> QED
    BY <1>4, <1>5 DEF FedIInv

\* The same for an action after the first await, which leaves the key and the
\* request of the call alone.
LEMMA ContinueFrame ==
    ASSUME FedIInv, NEW c \in PeerCalls, UNCHANGED fedVars,
           GrantStoreTypeOK', StreamTypeOK', ConsentInv', GrantsKept,
           UNCHANGED <<owner, call>>, held' \in [Calls -> GrantIds \cup {NoGrant}],
           audit' \in [Calls -> Seq(AuditRows)], ran' \subseteq Calls,
           \A d \in Calls : d # c => /\ pc'[d] = pc[d] /\ held'[d] = held[d] /\ audit'[d] = audit[d]
                                     /\ d \in ran' <=> d \in ran,
           \A r \in Requests \ {Ask(c), Consult(c)} : promise'[r] = promise[r],
           pc'[c] # "idle",
           pc'[c] \in {"refreshing", "consulting", "asking"} =>
               pc[c] \in {"refreshing", "consulting", "asking"},
           DialogInv(c)', HeldInv(c)', LoggedInv(c)'
    PROVE  FedIInv'
  <1>0. c \in Calls
    BY PeerCallsAssumption
  <1>1. UNCHANGED <<granted, signed, msg>>
    BY DEF fedVars
  <1>2. BackedInv(c)'
    BY <1>0, <1>1, SameBooks, BackedStays DEF FedIInv, PeerInv
  <1>3. call' \in [Calls -> Keys \cup {NoKey}] /\ msg' \in [Calls -> RequestIds \cup {NoRequest}]
    BY <1>1 DEF FedIInv, Shape
  <1> QED
    BY <1>1, <1>2, <1>3, PeerFrame

LEMMA ContinueStep ==
    ASSUME FedIInv, NEW c \in PeerCalls, Continue(c), UNCHANGED fedVars
    PROVE  FedIInv'
<1> USE DEF FedIInv
<1>0. c \in Calls /\ Ask(c) \in Requests /\ Consult(c) \in Requests /\ Ask(c) # Consult(c)
  BY PeerCallsAssumption, TwoDialogs
<1>1. DialogInv(c) /\ HeldInv(c) /\ LoggedInv(c) /\ BackedInv(c) /\ Shape /\ ConsentInv
  BY DEF PeerInv
<1>q. UNCHANGED grants => GrantStoreTypeOK' /\ GrantsKept
  BY SameStore DEF Shape, GrantStoreTypeOK
<1>s. UNCHANGED streamVars => StreamTypeOK' /\ ConsentInv' /\ UNCHANGED promise
  BY DEF Shape, StreamTypeOK, streamVars, ConsentInv
<1>t. /\ held \in [Calls -> GrantIds \cup {NoGrant}] /\ audit \in [Calls -> Seq(AuditRows)]
      /\ ran \subseteq Calls
  BY DEF Shape
\* The first dialog is opened, or a missing token ends the call.
<1>2. ASSUME NEW state, pc[c] = "refreshing", AskForDelegation(c, state),
             UNCHANGED <<grants, owner, call, held, ran, audit>>
      PROVE  FedIInv'
  <2>1. promise[Consult(c)] = "none" /\ promise[Ask(c)] = "none" /\ held[c] = NoGrant /\ c \notin ran
        /\ Len(audit[c]) = 0
    BY <1>1, <1>2 DEF DialogInv, HeldInv, LoggedInv, Audited, Bounces
  <2>2. CASE state = "absent"
    <3>1. UNCHANGED streamVars /\ pc'[c] = "failed" /\ \A d \in Calls : d # c => pc'[d] = pc[d]
      BY <1>0, <1>2, <2>2, EnterOne DEF AskForDelegation
    <3>2. DialogInv(c)' /\ HeldInv(c)' /\ LoggedInv(c)'
      BY <1>2, <1>s, <2>1, <3>1 DEF DialogInv, HeldInv, LoggedInv, Audited, Bounces, Ask, Consult
    <3>3. promise' = promise /\ pc'[c] = "failed" /\ UNCHANGED <<grants, owner, call, held, ran, audit>>
      BY <1>2, <1>s, <3>1
    <3>4. /\ GrantStoreTypeOK' /\ GrantsKept /\ StreamTypeOK' /\ ConsentInv'
      BY <1>q, <1>s, <3>1, <3>3
    <3> QED
      BY <1>t, <3>1, <3>2, <3>3, <3>4, ContinueFrame
  <2>3. CASE state # "absent"
    <3>1. /\ RequestApproval(Consult(c)) /\ pc'[c] = "consulting"
          /\ \A d \in Calls : d # c => pc'[d] = pc[d]
      BY <1>0, <1>2, <2>3, EnterOne DEF AskForDelegation
    <3>2. /\ StreamTypeOK' /\ ConsentInv' /\ promise'[Consult(c)] = "pending"
          /\ \A q \in Requests : q # Consult(c) => promise'[q] = promise[q]
      BY <1>0, <1>1, <3>1, RequestOne
    <3>3. promise'[Ask(c)] = "none"
      BY <1>0, <2>1, <3>2
    <3>4. DialogInv(c)' /\ HeldInv(c)' /\ LoggedInv(c)'
      BY <1>2, <2>1, <3>1, <3>2, <3>3 DEF DialogInv, HeldInv, LoggedInv, Audited, Bounces, Ask, Consult
    <3> QED
      BY <1>2, <1>q, <1>t, <3>1, <3>2, <3>4, ContinueFrame
  <2> QED
    BY <2>2, <2>3
<1>3. ASSUME PeerRefreshSucceeds(c) \/ PeerRefreshFails(c) PROVE FedIInv'
  BY <1>2, <1>3 DEF PeerRefreshSucceeds, PeerRefreshFails
\* The call is written to the plugin, its dialogs as they must be.
<1>4. ASSUME NEW g \in GrantIds, Run(c, g), g \in DOMAIN grants', grants'[g].key = call[c],
             pc[c] \in {"consulting", "asking"},
             GrantStoreTypeOK', GrantsKept, StreamTypeOK', ConsentInv',
             promise'[Consult(c)] = "approved", promise'[Ask(c)] \in {"none", "approved"},
             \A r \in Requests \ {Ask(c), Consult(c)} : promise'[r] = promise[r]
      PROVE  FedIInv'
  <2>1. /\ held' \in [Calls -> GrantIds \cup {NoGrant}]
        /\ pc'[c] = "running" /\ held'[c] = g /\ g # NoGrant /\ c \in ran' /\ ran' \subseteq Calls
        /\ \A d \in Calls : d # c => /\ pc'[d] = pc[d] /\ held'[d] = held[d]
                                     /\ d \in ran' <=> d \in ran
        /\ UNCHANGED <<call, owner, audit>>
    BY <1>0, <1>1, <1>4, RunOne
  <2>2. call[c] \in Keys /\ Len(audit[c]) = 0
    BY <1>1, <1>4 DEF BackedInv, LoggedInv, Audited, Bounces
  <2>3. DialogInv(c)'
    BY <1>4, <2>1 DEF DialogInv, Ask, Consult
  <2>4. HeldInv(c)'
    BY <1>4, <2>1, <2>2 DEF HeldInv, Ask, Consult
  <2>5. LoggedInv(c)'
    BY <2>1, <2>2 DEF LoggedInv, Audited, Bounces
  <2> QED
    BY <1>4, <1>t, <2>1, <2>3, <2>4, <2>5, ContinueFrame
<1>5. ASSUME NEW m, ConsentWithGrant(c, m) PROVE FedIInv'
  <2>1. PICK g \in FindActive(call[c]) : Run(c, g)
    BY <1>5 DEF ConsentWithGrant
  <2>2. g \in GrantIds /\ g \in DOMAIN grants /\ grants[g].key = call[c] /\ UNCHANGED grants
    BY <1>1, <1>5, FindActiveType DEF Shape, GrantStoreTypeOK, ConsentWithGrant
  <2>3. /\ StreamTypeOK' /\ ConsentInv' /\ promise'[Consult(c)] = "approved"
        /\ \A q \in Requests : q # Consult(c) => promise'[q] = promise[q]
    BY <1>0, <1>1, <1>5, SettleOne DEF ConsentWithGrant
  <2>4. pc[c] = "consulting" /\ promise[Ask(c)] = "none"
    BY <1>1, <1>5 DEF ConsentWithGrant, DialogInv
  <2>5. promise'[Ask(c)] = "none"
    BY <1>0, <2>3, <2>4
  <2> QED
    BY <1>4, <1>q, <2>1, <2>2, <2>3, <2>4, <2>5
<1>6. ASSUME NEW m, ConsentAsksAgain(c, m) PROVE FedIInv'
  <2>1. /\ pc[c] = "consulting" /\ held[c] = NoGrant /\ c \notin ran /\ Len(audit[c]) = 0
    BY <1>1, <1>6 DEF ConsentAsksAgain, DialogInv, HeldInv, LoggedInv, Audited, Bounces
  <2>2. /\ StreamTypeOK' /\ ConsentInv'
        /\ promise'[Consult(c)] = "approved" /\ promise'[Ask(c)] = "pending"
        /\ \A o \in Requests : o # Consult(c) /\ o # Ask(c) => promise'[o] = promise[o]
    BY <1>0, <1>1, <1>6, SettleAndRequestOne DEF ConsentAsksAgain
  <2>3. /\ pc'[c] = "asking" /\ (\A d \in Calls : d # c => pc'[d] = pc[d])
        /\ UNCHANGED <<grants, owner, call, held, ran, audit>>
    BY <1>0, <1>6, EnterOne DEF ConsentAsksAgain
  <2>4. DialogInv(c)' /\ HeldInv(c)' /\ LoggedInv(c)'
    BY <2>1, <2>2, <2>3 DEF DialogInv, HeldInv, LoggedInv, Audited, Bounces, Ask, Consult
  <2> QED
    BY <1>q, <1>t, <2>1, <2>2, <2>3, <2>4, ContinueFrame
<1>7. ASSUME NEW m, PeerApprove(c, m) PROVE FedIInv'
  <2>1. PICK g \in GrantIds : CreateGrant(g, call[c]) /\ Run(c, g)
    BY <1>7 DEF PeerApprove
  <2>2. call[c] \in Keys /\ promise[Consult(c)] = "approved" /\ pc[c] = "asking"
    BY <1>1, <1>7 DEF PeerApprove, BackedInv, DialogInv
  <2>3. GrantStoreTypeOK' /\ GrantsKept /\ g \in DOMAIN grants' /\ grants'[g].key = call[c]
    BY <1>1, <2>1, <2>2, CreateGrantType, CreateKeeps DEF Shape
  <2>4. /\ StreamTypeOK' /\ ConsentInv' /\ promise'[Ask(c)] = "approved"
        /\ \A q \in Requests : q # Ask(c) => promise'[q] = promise[q]
    BY <1>0, <1>1, <1>7, SettleOne DEF PeerApprove
  <2>5. promise'[Consult(c)] = "approved"
    BY <1>0, <2>2, <2>4
  <2> QED
    BY <1>4, <2>1, <2>2, <2>3, <2>4, <2>5
\* A dialog that is open is refused.
<1>8. ASSUME NEW r \in {Consult(c), Ask(c)}, NEW v \in {"denied", "timeout"},
             promise[r] = "pending", promise'[r] = v,
             \A q \in Requests : q # r => promise'[q] = promise[q],
             StreamTypeOK', ConsentInv', Refuse({c}), UNCHANGED <<grants, owner>>
      PROVE  FedIInv'
  <2>1. /\ pc'[c] = "denied" /\ (\A d \in Calls : d # c => pc'[d] = pc[d])
        /\ UNCHANGED <<call, held, ran>>
    BY <1>0, <1>8, EnterOne DEF Refuse
  <2>2. /\ audit' \in [Calls -> Seq(AuditRows)] /\ Len(audit'[c]) = Len(audit[c]) + 1
        /\ \A e \in Calls : e # c => audit'[e] = audit[e]
    BY <1>0, <1>1, <1>8, LogOne DEF Refuse
  <2>3. pc[c] \in {"consulting", "asking"} /\ held[c] = NoGrant /\ c \notin ran /\ Len(audit[c]) = 0
        /\ (r = Ask(c) => promise[Consult(c)] = "approved")
        /\ (r = Consult(c) => promise[Ask(c)] = "none")
    BY <1>1, <1>8 DEF DialogInv, HeldInv, LoggedInv, Audited, Bounces
  <2>4. \/ promise'[Consult(c)] = v /\ promise'[Ask(c)] = "none"
        \/ promise'[Consult(c)] = "approved" /\ promise'[Ask(c)] = v
    BY <1>0, <1>8, <2>3
  <2>5. DialogInv(c)'
    BY <2>1, <2>4 DEF DialogInv, Ask, Consult
  <2>6. HeldInv(c)' /\ LoggedInv(c)'
    BY <2>1, <2>2, <2>3 DEF HeldInv, LoggedInv, Audited, Bounces, Ask, Consult
  <2> QED
    BY <1>0, <1>8, <1>q, <1>t, <2>1, <2>2, <2>5, <2>6, ContinueFrame
<1>9. ASSUME NEW m, PeerDeny(c, m) PROVE FedIInv'
  <2>1. CASE m.request = Consult(c)
    BY <1>0, <1>1, <1>8, <1>9, <2>1, SettleOne DEF PeerDeny
  <2>2. CASE m.request = Ask(c)
    BY <1>0, <1>1, <1>8, <1>9, <2>2, SettleOne DEF PeerDeny
  <2> QED
    BY <1>9, <2>1, <2>2 DEF PeerDeny
<1>10. ASSUME PeerTimeOut(c) PROVE FedIInv'
  <2>1. CASE TimerFires(Consult(c))
    BY <1>0, <1>1, <1>8, <1>10, <2>1, FireOne DEF PeerTimeOut
  <2>2. CASE TimerFires(Ask(c))
    BY <1>0, <1>1, <1>8, <1>10, <2>2, FireOne DEF PeerTimeOut
  <2> QED
    BY <1>10, <2>1, <2>2 DEF PeerTimeOut
<1>11. ASSUME PluginSucceeds(c) \/ PluginFails(c) PROVE FedIInv'
  <2>1. /\ pc[c] = "running" /\ pc'[c] \in {"ok", "error"}
        /\ (\A d \in Calls : d # c => pc'[d] = pc[d])
        /\ UNCHANGED <<grants, streamVars, owner, call, held, ran>>
    BY <1>0, <1>11, EnterOne DEF PluginSucceeds, PluginFails
  <2>2. /\ audit' \in [Calls -> Seq(AuditRows)] /\ Len(audit'[c]) = Len(audit[c]) + 1
        /\ \A e \in Calls : e # c => audit'[e] = audit[e]
    BY <1>0, <1>1, <1>11, LogOne DEF PluginSucceeds, PluginFails
  <2>3. DialogInv(c)'
    BY <1>1, <1>s, <2>1 DEF DialogInv, Ask, Consult
  <2>4. HeldInv(c)'
    BY <1>0, <1>1, <1>q, <1>s, <2>1, HeldStays
  <2>5. LoggedInv(c)'
    BY <1>1, <2>1, <2>2 DEF LoggedInv, Audited, Bounces
  <2> QED
    BY <1>q, <1>s, <1>t, <2>1, <2>2, <2>3, <2>4, <2>5, ContinueFrame
<1> QED
  BY <1>3, <1>5, <1>6, <1>7, <1>9, <1>10, <1>11 DEF Continue

\* The first check that fails gives one of the codes.
LEMMA VerdictType == ASSUME NEW r PROVE Verdict(r) = "" \/ Verdict(r) \in Bounces
  <1>1. ASSUME NEW m PROVE Unbacked(m) \in Bounces \cup {""} /\ Unservable(m) \in Bounces \cup {""}
    BY DEF Unbacked, Unservable, Bounces
  <1> QED
    BY <1>1 DEF Verdict, Bounces

LEMMA BounceStep ==
    ASSUME FedIInv, NEW c \in PeerCalls, NEW r \in DOMAIN signed, Bounce(c, r)
    PROVE  FedIInv'
<1>0. c \in Calls /\ Shape /\ ConsentInv /\ PeerInv(c)
  BY PeerCallsAssumption DEF FedIInv
<1>1. Verdict(r) \in Bounces /\ pc[c] = "idle"
  BY VerdictType DEF Bounce, Checked
<1>2. pc'[c] = Verdict(r) /\ \A d \in Calls : d # c => pc'[d] = pc[d]
  BY <1>0, EnterOne DEF Bounce
<1>3. /\ audit' \in [Calls -> Seq(AuditRows)] /\ Len(audit'[c]) = Len(audit[c]) + 1
      /\ \A e \in Calls : e # c => audit'[e] = audit[e]
  BY <1>0, LogOne DEF Bounce
<1>4. UNCHANGED <<grants, streamVars, owner, call, held, ran, granted, signed>>
  BY DEF Bounce, Checked
<1>5. promise' = promise /\ GrantStoreTypeOK' /\ StreamTypeOK' /\ ConsentInv' /\ GrantsKept
  BY <1>0, <1>4, SameStore DEF Shape, GrantStoreTypeOK, StreamTypeOK, streamVars, ConsentInv
<1>6. /\ msg' \in [Calls -> RequestIds \cup {NoRequest}]
      /\ \A d \in Calls : d # c => msg'[d] = msg[d]
  <2>1. r \in RequestIds
    BY <1>0 DEF Shape
  <2> QED
    BY <1>0, <2>1 DEF Bounce, Checked, Shape
<1>7. /\ call[c] = NoKey /\ promise[Consult(c)] = "none" /\ promise[Ask(c)] = "none"
      /\ held[c] = NoGrant /\ c \notin ran /\ Len(audit[c]) = 0
  BY <1>0, <1>1 DEF PeerInv, DialogInv, BackedInv, HeldInv, LoggedInv, Audited, Bounces
<1>8. DialogInv(c)' /\ BackedInv(c)' /\ HeldInv(c)'
  BY <1>1, <1>2, <1>4, <1>5, <1>7 DEF DialogInv, BackedInv, HeldInv, Bounces, Ask, Consult
<1>9. LoggedInv(c)'
  BY <1>1, <1>2, <1>3, <1>7 DEF LoggedInv, Audited, Bounces
<1>10. /\ call' \in [Calls -> Keys \cup {NoKey}] /\ held' \in [Calls -> GrantIds \cup {NoGrant}]
       /\ ran' \subseteq Calls
  BY <1>0, <1>4 DEF Shape
<1> QED
  BY <1>2, <1>3, <1>4, <1>5, <1>6, <1>8, <1>9, <1>10, PeerFrame

\* The key of an admitted call is the request's, and so the delegation's.
LEMMA AdmitBacks ==
    ASSUME Shape, NEW c \in Calls, NEW r \in DOMAIN signed, Admit(c, r)
    PROVE  /\ call' \in [Calls -> Keys \cup {NoKey}] /\ call'[c] \in Keys
           /\ msg' \in [Calls -> RequestIds \cup {NoRequest}] /\ msg'[c] = r
           /\ \A d \in Calls : d # c => call'[d] = call[d] /\ msg'[d] = msg[d]
           /\ signed[r].peer = call'[c].delegated_by
           /\ signed[r].delegation \in DOMAIN granted
           /\ granted[signed[r].delegation].peer = call'[c].delegated_by
           /\ granted[signed[r].delegation].tool = call'[c].tool
  <1> DEFINE m == signed[r]
  <1>1. r \in RequestIds /\ m \in PeerRequests
    BY DEF Shape
  <1>2. Unbacked(m) = "" /\ Unservable(m) = ""
    BY DEF Admit, Verdict
  <1>3. m.delegation \in DOMAIN granted /\ granted[m.delegation].peer = m.peer
        /\ granted[m.delegation].tool = m.tool
    BY <1>2 DEF Unbacked
  <1>4. owner[m.tool] \in Plugins
    BY <1>1, <1>2 DEF Unservable, PeerRequests, Shape
  <1>5. PeerKey(m) \in Keys /\ PeerKey(m).delegated_by = m.peer /\ PeerKey(m).tool = m.tool
    BY <1>1, <1>4 DEF PeerKey, Keys, Origins, PeerRequests
  <1>6. call' = [call EXCEPT ![c] = PeerKey(m)] /\ msg' = [msg EXCEPT ![c] = r]
    BY DEF Admit, Checked
  <1> QED
    BY <1>1, <1>3, <1>5, <1>6 DEF Shape

LEMMA AdmitStep ==
    ASSUME FedIInv, NEW c \in PeerCalls, NEW r \in DOMAIN signed, Admit(c, r)
    PROVE  FedIInv'
<1>0. /\ c \in Calls /\ Ask(c) \in Requests /\ Consult(c) \in Requests /\ Ask(c) # Consult(c)
      /\ Shape /\ ConsentInv /\ PeerInv(c)
  BY PeerCallsAssumption, TwoDialogs DEF FedIInv
<1>1. /\ UNCHANGED <<grants, owner, held, ran, audit, granted, signed>> /\ pc[c] = "idle"
  BY DEF Admit, Checked
<1>2. GrantStoreTypeOK' /\ GrantsKept
  BY <1>0, <1>1, SameStore DEF Shape, GrantStoreTypeOK
<1>3. /\ promise[Consult(c)] = "none" /\ promise[Ask(c)] = "none"
      /\ held[c] = NoGrant /\ c \notin ran /\ Len(audit[c]) = 0
  BY <1>0, <1>1 DEF PeerInv, DialogInv, BackedInv, HeldInv, LoggedInv, Audited, Bounces
<1>4. /\ call' \in [Calls -> Keys \cup {NoKey}] /\ call'[c] \in Keys
      /\ msg' \in [Calls -> RequestIds \cup {NoRequest}] /\ msg'[c] = r
      /\ \A d \in Calls : d # c => call'[d] = call[d] /\ msg'[d] = msg[d]
      /\ signed[r].peer = call'[c].delegated_by
      /\ signed[r].delegation \in DOMAIN granted
      /\ granted[signed[r].delegation].peer = call'[c].delegated_by
      /\ granted[signed[r].delegation].tool = call'[c].tool
  BY <1>0, AdmitBacks
<1>5. ASSUME NEW s \in {"failed", "refreshing", "consulting"}, Enter({c}, s),
             StreamTypeOK', ConsentInv',
             promise'[Consult(c)] = IF s = "consulting" THEN "pending" ELSE "none",
             promise'[Ask(c)] = "none",
             \A q \in Requests \ {Ask(c), Consult(c)} : promise'[q] = promise[q]
      PROVE  FedIInv'
  <2>1. pc'[c] = s /\ \A d \in Calls : d # c => pc'[d] = pc[d]
    BY <1>0, <1>5, EnterOne
  <2>2. DialogInv(c)'
    BY <1>5, <2>1 DEF DialogInv, Ask, Consult
  <2>3. BackedInv(c)'
    BY <1>1, <1>4, <2>1 DEF BackedInv
  <2>4. HeldInv(c)' /\ LoggedInv(c)'
    BY <1>1, <1>3, <2>1 DEF HeldInv, LoggedInv, Audited, Bounces
  <2>5. /\ held' \in [Calls -> GrantIds \cup {NoGrant}] /\ audit' \in [Calls -> Seq(AuditRows)]
        /\ ran' \subseteq Calls
    BY <1>0, <1>1 DEF Shape
  <2> QED
    BY <1>1, <1>2, <1>4, <1>5, <2>1, <2>2, <2>3, <2>4, <2>5, PeerFrame
<1>6. ASSUME NEW s \in {"failed", "refreshing"}, Enter({c}, s), UNCHANGED streamVars
      PROVE  FedIInv'
  <2>1. StreamTypeOK' /\ ConsentInv' /\ UNCHANGED promise
    BY <1>0, <1>6 DEF Shape, StreamTypeOK, streamVars, ConsentInv
  <2> QED
    BY <1>3, <1>5, <1>6, <2>1
<1>7. ASSUME RequestApproval(Consult(c)), Enter({c}, "consulting")
      PROVE  FedIInv'
  <2>1. /\ StreamTypeOK' /\ ConsentInv' /\ promise'[Consult(c)] = "pending"
        /\ \A q \in Requests : q # Consult(c) => promise'[q] = promise[q]
    BY <1>0, <1>7, RequestOne
  <2>2. promise'[Ask(c)] = "none"
    BY <1>0, <1>3, <2>1
  <2> QED
    BY <1>5, <1>7, <2>1, <2>2
<1>8. PICK state : \/ AskForDelegation(c, state)
                   \/ Enter({c}, "refreshing") /\ UNCHANGED streamVars
  BY DEF Admit
<1> QED
  BY <1>6, <1>7, <1>8 DEF AskForDelegation

-----------------------------------------------------------------------------
(***************************************************************************)
(* The steps of everyone else.                                             *)
(***************************************************************************)

\* Steps that move no call and settle nothing.
LEMMA QuietFrame ==
    ASSUME FedIInv, UNCHANGED <<call, pc, held, ran, audit, msg, promise, consents>>,
           wire' \subseteq wire, StreamTypeOK', GrantStoreTypeOK', BooksKept,
           owner' \in [Tools -> Plugins \cup {NoPlugin}],
           granted' \in [DOMAIN granted' -> Delegations],
           DOMAIN signed' \subseteq RequestIds, signed' \in [DOMAIN signed' -> PeerRequests]
    PROVE  FedIInv'
  <1>1. Shape'
    BY DEF FedIInv, Shape
  <1>2. ConsentInv'
    BY SameConsent DEF FedIInv
  <1>3. \A d \in PeerCalls : Untouched(d)
    BY DEF Untouched
  <1> QED
    BY <1>1, <1>2, <1>3, NoneMoves

LEMMA QuietSteps ==
    ASSUME FedIInv, UNCHANGED fedVars,
           \/ \E m \in wire : LateAnswer(m)
           \/ \E p \in Plugins, ts \in SUBSET Tools : Register(p, ts)
           \/ \E p \in OAuthPlugins, s \in TokenStates : TokenChanges(p, s)
           \/ \E g \in GrantIds : Revoke(g)
           \/ \E p \in Phones : PhoneConnects(p) \/ PhoneDisconnects(p)
           \/ BeginShutdown \/ Restart \/ Exit
    PROVE  FedIInv'
<1>0. Shape /\ UNCHANGED <<granted, signed, msg>>
  BY DEF FedIInv, fedVars
<1>1. /\ granted' \in [DOMAIN granted' -> Delegations]
      /\ DOMAIN signed' \subseteq RequestIds /\ signed' \in [DOMAIN signed' -> PeerRequests]
  BY <1>0 DEF Shape
<1>2. UNCHANGED <<call, pc, held, ran, audit, promise, consents>> /\ wire' \subseteq wire
  BY DEF LateAnswer, IgnoreLateAnswer, Register, TokenChanges, Revoke, PhoneConnects, Connect,
     PhoneDisconnects, Disconnect, BeginShutdown, Restart, Exit, callVars, streamVars
<1>3. StreamTypeOK'
  BY <1>0 DEF LateAnswer, IgnoreLateAnswer, Register, TokenChanges, Revoke, PhoneConnects, Connect,
     PhoneDisconnects, Disconnect, BeginShutdown, Restart, Exit, streamVars, Shape, StreamTypeOK
<1>4. GrantStoreTypeOK' /\ GrantsKept
  <2>1. CASE \E g \in GrantIds : Revoke(g)
    BY <1>0, <2>1, RevokeRowType, RevokeKeeps DEF Revoke, Shape
  <2>2. CASE UNCHANGED grants
    BY <1>0, <2>2, SameStore DEF Shape, GrantStoreTypeOK
  <2> QED
    BY <2>1, <2>2 DEF LateAnswer, Register, TokenChanges, PhoneConnects, PhoneDisconnects,
       BeginShutdown, Restart, Exit
<1>5. owner' \in [Tools -> Plugins \cup {NoPlugin}]
  BY <1>0 DEF LateAnswer, Register, TokenChanges, Revoke, PhoneConnects, PhoneDisconnects,
     BeginShutdown, Restart, Exit, Shape
<1> QED
  BY <1>0, <1>1, <1>2, <1>3, <1>4, <1>5, SameBooks, QuietFrame

\* A tap: an approval goes on the wire together with the consent.
LEMMA TapStep ==
    ASSUME FedIInv, UNCHANGED fedVars, NEW p \in Phones, NEW r \in Requests, NEW d \in Decisions,
           UserTaps(p, r, d)
    PROVE  FedIInv'
<1>0. Shape /\ ConsentInv /\ UNCHANGED <<granted, signed, msg>>
  BY DEF FedIInv, fedVars
<1>1. UNCHANGED <<grants, owner, call, pc, held, ran, audit, promise>>
  BY DEF UserTaps, Tap, callVars
<1>2. GrantsKept /\ GrantStoreTypeOK'
  BY <1>0, <1>1, SameStore DEF Shape, GrantStoreTypeOK
<1>3. StreamTypeOK'
  BY <1>0, TapType DEF UserTaps, Shape
<1>4. Shape'
  BY <1>0, <1>1, <1>2, <1>3 DEF Shape
<1>5. ConsentInv'
  BY <1>0, <1>1 DEF UserTaps, Tap, ConsentInv, Requests
<1>6. \A e \in PeerCalls : Untouched(e)
  BY <1>0, <1>1 DEF Untouched
<1> QED
  BY <1>0, <1>2, <1>4, <1>5, <1>6, SameBooks, NoneMoves

\* Rows keep all but what is written to them.
LEMMA AgedRow ==
    ASSUME NEW d \in Delegations, NEW n \in 0 .. DelegationTTL
    PROVE  /\ [d EXCEPT !.ttl = n] \in Delegations
           /\ [d EXCEPT !.ttl = n].peer = d.peer
           /\ [d EXCEPT !.ttl = n].tool = d.tool
  BY DEF Delegations

LEMMA RevokedRow ==
    ASSUME NEW d \in Delegations
    PROVE  /\ [d EXCEPT !.revoked = TRUE] \in Delegations
           /\ [d EXCEPT !.revoked = TRUE].peer = d.peer
           /\ [d EXCEPT !.revoked = TRUE].tool = d.tool
  BY DEF Delegations

LEMMA TickStep == ASSUME FedIInv, Tick, AgeFederation PROVE FedIInv'
<1>0. Shape /\ UNCHANGED <<signed, msg>>
  BY DEF FedIInv, AgeFederation
<1>1. UNCHANGED <<owner, call, pc, held, ran, audit, clients, promise, cards, wire, consents>>
  BY DEF Tick, callVars
<1>2. GrantStoreTypeOK' /\ GrantsKept
  BY <1>0, AgeGrantsType, AgeKeeps DEF Tick, Shape
<1>3. StreamTypeOK'
  <2>1. timer' \in [Requests -> Nat]
    BY <1>0, AgeTimersType DEF Tick, Shape
  <2> QED
    BY <1>0, <1>1, <2>1 DEF Shape, StreamTypeOK
<1>4. /\ DOMAIN granted' = DOMAIN granted
      /\ \A d \in DOMAIN granted :
           granted'[d] = [granted[d] EXCEPT !.ttl = IF @ = 0 THEN 0 ELSE @ - 1]
  BY DEF AgeFederation
<1>5. \A d \in DOMAIN granted : /\ granted'[d] \in Delegations
                                /\ granted'[d].peer = granted[d].peer
                                /\ granted'[d].tool = granted[d].tool
  <2> SUFFICES ASSUME NEW d \in DOMAIN granted
               PROVE  /\ granted'[d] \in Delegations
                      /\ granted'[d].peer = granted[d].peer
                      /\ granted'[d].tool = granted[d].tool
    OBVIOUS
  <2>1. granted[d] \in Delegations
    BY <1>0 DEF Shape
  <2>2. (IF granted[d].ttl = 0 THEN 0 ELSE granted[d].ttl - 1) \in 0 .. DelegationTTL
    BY <2>1, LimitAssumption DEF Delegations
  <2>3. granted'[d] = [granted[d] EXCEPT !.ttl = IF granted[d].ttl = 0 THEN 0 ELSE granted[d].ttl - 1]
    BY <1>4
  <2> QED
    BY <2>1, <2>2, <2>3, AgedRow
<1>6. granted' \in [DOMAIN granted' -> Delegations] /\ DelegationsKept
  BY <1>4, <1>5 DEF DelegationsKept, AgeFederation
<1>7. BooksKept
  BY <1>0, <1>2, <1>6 DEF BooksKept, RequestsKept
<1> QED
  BY <1>0, <1>1, <1>2, <1>3, <1>6, <1>7, QuietFrame DEF Shape

LEMMA PeeringStep == ASSUME FedIInv, Peering PROVE FedIInv'
<1>0. Shape
  BY DEF FedIInv
<1>1. UNCHANGED <<vars, msg>>
  BY DEF Peering, CreateDelegation, RevokeDelegation, Sign
<1>2. /\ UNCHANGED <<grants, owner, call, pc, held, ran, audit, clients, promise, timer, cards, wire, consents>>
      /\ GrantStoreTypeOK' /\ StreamTypeOK' /\ GrantsKept
  BY <1>0, <1>1, SameStore DEF vars, callVars, streamVars, Shape, GrantStoreTypeOK, StreamTypeOK
<1>3. ASSUME NEW d \in DelegationIds, NEW p \in Peers, NEW t \in Tools, NEW n \in 1 .. DelegationTTL,
             CreateDelegation(d, p, t, n)
      PROVE  FedIInv'
  <2>1. owner[t] \in Plugins /\ n \in 0 .. DelegationTTL
    BY <1>0, <1>3, LimitAssumption DEF CreateDelegation, Shape
  <2>2. [peer |-> p, tool |-> t, plugin |-> owner[t], ttl |-> n, revoked |-> FALSE] \in Delegations
    BY <2>1 DEF Delegations
  <2>3. granted' \in [DOMAIN granted' -> Delegations] /\ DelegationsKept /\ UNCHANGED signed
    BY <1>0, <1>3, <2>2 DEF CreateDelegation, DelegationsKept, Shape
  <2> QED
    BY <1>0, <1>1, <1>2, <2>3, QuietFrame DEF BooksKept, RequestsKept, Shape
<1>4. ASSUME NEW d \in DelegationIds, RevokeDelegation(d)
      PROVE  FedIInv'
  <2>1. granted[d] \in Delegations /\ granted' = [granted EXCEPT ![d].revoked = TRUE] /\ UNCHANGED signed
    BY <1>0, <1>4 DEF RevokeDelegation, Shape
  <2>2. granted'[d] = [granted[d] EXCEPT !.revoked = TRUE]
        /\ \A e \in DOMAIN granted : e # d => granted'[e] = granted[e]
    BY <1>4, <2>1 DEF RevokeDelegation
  <2>3. granted'[d] \in Delegations /\ granted'[d].peer = granted[d].peer
        /\ granted'[d].tool = granted[d].tool
    BY <2>1, <2>2, RevokedRow
  <2>4. granted' \in [DOMAIN granted' -> Delegations] /\ DelegationsKept
    BY <1>0, <2>1, <2>2, <2>3 DEF DelegationsKept, Shape
  <2> QED
    BY <1>0, <1>1, <1>2, <2>1, <2>4, QuietFrame DEF BooksKept, RequestsKept, Shape
<1>5. ASSUME NEW r \in RequestIds, NEW m \in PeerRequests, NEW e, Sign(r, m, e)
      PROVE  FedIInv'
  <2>1. /\ DOMAIN signed' \subseteq RequestIds /\ signed' \in [DOMAIN signed' -> PeerRequests]
        /\ RequestsKept /\ UNCHANGED granted
    BY <1>0, <1>5 DEF Sign, RequestsKept, Shape
  <2> QED
    BY <1>0, <1>1, <1>2, <2>1, QuietFrame DEF BooksKept, DelegationsKept, Shape
<1> QED
  BY <1>3, <1>4, <1>5 DEF Peering

LEMMA LogMany ==
    ASSUME Shape, NEW cs, NEW d \in {"approved", "denied", "error"}, Log(cs, d)
    PROVE  /\ audit' \in [Calls -> Seq(AuditRows)]
           /\ \A c \in Calls : IF c \in cs THEN Len(audit'[c]) = Len(audit[c]) + 1
                                           ELSE audit'[c] = audit[c]
  <1>1. audit' \in [Calls -> Seq(AuditRows)]
    BY LogType DEF Shape
  <1>2. ASSUME NEW c \in Calls, c \in cs PROVE Len(audit'[c]) = Len(audit[c]) + 1
    <2>1. audit'[c] = Append(audit[c], [decision |-> d, grant |-> held[c]])
      BY <1>2 DEF Log
    <2>2. audit[c] \in Seq(AuditRows) /\ [decision |-> d, grant |-> held[c]] \in AuditRows
      BY DEF Shape, AuditRows
    <2> QED
      BY <2>1, <2>2
  <1> QED
    BY <1>1, <1>2 DEF Log

\* A plugin's exit ends the calls it was serving.
LEMMA ExitStep ==
    ASSUME FedIInv, UNCHANGED fedVars, NEW p \in Plugins, PluginExits(p)
    PROVE  FedIInv'
<1> DEFINE cut == {c \in WaitingFor(p) : pc[c] = "running" /\ c \notin orphaned}
<1>0. Shape /\ ConsentInv /\ UNCHANGED <<granted, signed, msg>>
  BY DEF FedIInv, fedVars
<1>1. /\ UNCHANGED <<grants, streamVars, call, held, ran>>
      /\ \A c \in Calls : pc'[c] = IF c \in cut THEN "error" ELSE pc[c]
  BY DEF PluginExits, Enter
<1>2. /\ audit' \in [Calls -> Seq(AuditRows)]
      /\ \A c \in Calls : IF c \in cut THEN Len(audit'[c]) = Len(audit[c]) + 1
                                       ELSE audit'[c] = audit[c]
  BY <1>0, LogMany DEF PluginExits
<1>3. promise' = promise /\ GrantStoreTypeOK' /\ StreamTypeOK' /\ ConsentInv' /\ GrantsKept
  BY <1>0, <1>1, SameStore DEF Shape, GrantStoreTypeOK, StreamTypeOK, streamVars, ConsentInv
<1>4. Shape'
  <2>1. owner' \in [Tools -> Plugins \cup {NoPlugin}]
    BY <1>0 DEF PluginExits, Shape
  <2>2. \A c \in Calls : pc'[c] = "asking" => call'[c] \in Keys
    BY <1>0, <1>1 DEF Shape
  <2> QED
    BY <1>0, <1>1, <1>2, <1>3, <2>1, <2>2 DEF Shape
<1>5. BooksKept
  BY <1>0, <1>3, SameBooks
<1>6. ASSUME NEW c \in PeerCalls PROVE PeerInv(c)'
  <2>0. c \in Calls /\ PeerInv(c)
    BY PeerCallsAssumption DEF FedIInv
  <2>1. CASE c \notin cut
    <3>1. Untouched(c)
      BY <1>0, <1>1, <1>2, <1>3, <2>0, <2>1 DEF Untouched
    <3> QED
      BY <1>0, <1>5, <2>0, <3>1, Still
  <2>2. CASE c \in cut
    <3>1. pc[c] = "running" /\ pc'[c] = "error" /\ Len(audit'[c]) = Len(audit[c]) + 1
      BY <1>1, <1>2, <2>0, <2>2
    <3>2. DialogInv(c)'
      BY <1>3, <2>0, <3>1 DEF PeerInv, DialogInv, Ask, Consult
    <3>3. BackedInv(c)'
      BY <1>0, <1>1, <1>5, <2>0, <3>1, BackedStays DEF PeerInv
    <3>4. HeldInv(c)'
      BY <1>1, <1>3, <2>0, HeldStays DEF PeerInv
    <3>5. LoggedInv(c)'
      BY <2>0, <3>1 DEF PeerInv, LoggedInv, Audited, Bounces
    <3> QED
      BY <3>2, <3>3, <3>4, <3>5 DEF PeerInv
  <2> QED
    BY <2>1, <2>2
<1> QED
  BY <1>3, <1>4, <1>6 DEF FedIInv

\* The stream goes down, in a stop or a crash: whoever was asking is refused.
LEMMA DownStep ==
    ASSUME FedIInv, NEW v \in {"closed", "lost"}, StreamDown(v),
           UNCHANGED <<grants, call, held, ran, granted, signed, msg>>,
           owner' \in [Tools -> Plugins \cup {NoPlugin}], audit' \in [Calls -> Seq(AuditRows)],
           \A c \in Calls :
               \/ /\ pc[c] \in {"consulting", "asking"}
                  /\ pc'[c] = IF v = "closed" THEN "denied" ELSE "lost"
                  /\ Len(audit'[c]) = IF v = "closed" THEN Len(audit[c]) + 1 ELSE Len(audit[c])
               \/ /\ pc[c] \notin {"consulting", "asking"}
                  /\ audit'[c] = audit[c]
                  /\ \/ pc'[c] = pc[c]
                     \/ pc[c] \in {"refreshing", "running"} /\ pc'[c] = "lost"
    PROVE  FedIInv'
<1>0. Shape /\ ConsentInv
  BY DEF FedIInv
<1>1. /\ \A r \in Requests : promise'[r] = IF promise[r] = "pending" THEN v ELSE promise[r]
      /\ wire' \subseteq wire /\ UNCHANGED consents
  BY DEF StreamDown
<1>2. ConsentInv'
  BY <1>0, <1>1, SameConsent
<1>3. GrantStoreTypeOK' /\ GrantsKept /\ StreamTypeOK'
  BY <1>0, SameStore, StreamDownType DEF Shape, GrantStoreTypeOK
<1>4. Shape'
  <2>1. \A c \in Calls : pc'[c] # "asking"
    OBVIOUS
  <2> QED
    BY <1>0, <1>3, <2>1 DEF Shape
<1>5. BooksKept
  BY <1>3, SameBooks
<1>6. ASSUME NEW c \in PeerCalls PROVE PeerInv(c)'
  <2>0. c \in Calls /\ PeerInv(c) /\ Ask(c) \in Requests /\ Consult(c) \in Requests
    BY PeerCallsAssumption, TwoDialogs DEF FedIInv
  <2>1. /\ promise'[Consult(c)] = IF promise[Consult(c)] = "pending" THEN v ELSE promise[Consult(c)]
        /\ promise'[Ask(c)] = IF promise[Ask(c)] = "pending" THEN v ELSE promise[Ask(c)]
    BY <1>1, <2>0
  <2>2. DialogInv(c)'
    BY <2>0, <2>1 DEF PeerInv, DialogInv, Ask, Consult
  <2>3. BackedInv(c)'
    BY <1>0, <1>5, <2>0, BackedStays DEF PeerInv
  <2>4. HeldInv(c)'
    BY <1>3, <2>0, <2>1, HeldStays DEF PeerInv, HeldInv
  <2>5. LoggedInv(c)'
    <3>1. CASE pc[c] \in {"consulting", "asking"}
      <4>1. Len(audit[c]) = 0
        BY <2>0, <3>1 DEF PeerInv, LoggedInv, Audited, Bounces
      <4>2. /\ pc'[c] = IF v = "closed" THEN "denied" ELSE "lost"
            /\ Len(audit'[c]) = IF v = "closed" THEN Len(audit[c]) + 1 ELSE Len(audit[c])
        BY <2>0, <3>1
      <4> QED
        BY <4>1, <4>2 DEF LoggedInv, Audited, Bounces
    <3>2. CASE pc[c] \notin {"consulting", "asking"}
      <4>1. /\ audit'[c] = audit[c]
            /\ pc'[c] = pc[c] \/ (pc[c] \in {"refreshing", "running"} /\ pc'[c] = "lost")
        BY <2>0, <3>2
      <4> QED
        BY <2>0, <4>1 DEF PeerInv, LoggedInv, Audited, Bounces
    <3> QED
      BY <3>1, <3>2
  <2> QED
    BY <2>2, <2>3, <2>4, <2>5 DEF PeerInv
<1> QED
  BY <1>2, <1>4, <1>6 DEF FedIInv

LEMMA StopStep == ASSUME FedIInv, StopServer, UNCHANGED fedVars PROVE FedIInv'
<1> DEFINE open == {c \in Calls : pc[c] \in {"consulting", "asking"}}
<1>0. Shape /\ UNCHANGED <<granted, signed, msg>>
  BY DEF FedIInv, fedVars
<1>1. /\ StreamDown("closed") /\ UNCHANGED <<grants, owner, call, held, ran>>
      /\ Enter(open, "denied") /\ Log(open, "denied")
  BY DEF StopServer, Refuse
<1>2. /\ audit' \in [Calls -> Seq(AuditRows)]
      /\ \A c \in Calls : IF c \in open THEN Len(audit'[c]) = Len(audit[c]) + 1
                                        ELSE audit'[c] = audit[c]
  BY <1>0, <1>1, LogMany
<1>3. \A c \in Calls : pc'[c] = IF c \in open THEN "denied" ELSE pc[c]
  BY <1>1 DEF Enter
<1>4. owner' \in [Tools -> Plugins \cup {NoPlugin}]
  BY <1>0, <1>1 DEF Shape
<1> QED
  BY <1>0, <1>1, <1>2, <1>3, <1>4, DownStep

LEMMA CrashStep == ASSUME FedIInv, FedCrash PROVE FedIInv'
<1>0. Shape
  BY DEF FedIInv
<1>1. /\ StreamDown("lost") /\ UNCHANGED <<grants, call, held, ran, audit, granted, signed, msg>>
      /\ Enter(WaitingCalls, "lost")
  BY DEF FedCrash, Crash
<1>2. \A c \in Calls : pc'[c] = IF pc[c] \in Waiting THEN "lost" ELSE pc[c]
  BY <1>1 DEF Enter, WaitingCalls
<1>3. owner' \in [Tools -> Plugins \cup {NoPlugin}] /\ audit' \in [Calls -> Seq(AuditRows)]
  BY <1>0, <1>1 DEF FedCrash, Crash, Shape
<1> QED
  BY <1>1, <1>2, <1>3, DownStep DEF Waiting

LEMMA FedStep == ASSUME FedIInv, [FedNext]_allVars PROVE FedIInv'
<1>1. ASSUME NEW c \in PeerCalls, PeerHandler(c) PROVE FedIInv'
  BY <1>1, BounceStep, AdmitStep, ContinueStep DEF PeerHandler
<1>2. ASSUME NEW c \in Calls \ PeerCalls, Handler(c), UNCHANGED fedVars PROVE FedIInv'
  BY <1>2, LocalStep
<1>3. ASSUME Environment, UNCHANGED fedVars PROVE FedIInv'
  BY <1>3, QuietSteps, TapStep, ExitStep, StopStep DEF Environment
<1>4. ASSUME FedExit PROVE FedIInv'
  <2>1. UNCHANGED <<granted, signed, msg, call, pc, held, ran, audit, promise, consents, wire, owner,
                    grants, clients, timer, cards>>
    BY <1>4 DEF FedExit, Exit, callVars, streamVars
  <2>2. Shape /\ StreamTypeOK' /\ GrantStoreTypeOK' /\ GrantsKept
    BY <2>1, SameStore DEF FedIInv, Shape, StreamTypeOK, GrantStoreTypeOK
  <2> QED
    BY <2>1, <2>2, SameBooks, QuietFrame DEF Shape
<1>5. ASSUME UNCHANGED allVars PROVE FedIInv'
  <2>1. UNCHANGED <<granted, signed, msg, call, pc, held, ran, audit, promise, consents, wire, owner,
                    grants, clients, timer, cards>>
    BY <1>5 DEF allVars, vars, fedVars, callVars, streamVars
  <2>2. Shape /\ StreamTypeOK' /\ GrantStoreTypeOK' /\ GrantsKept
    BY <2>1, SameStore DEF FedIInv, Shape, StreamTypeOK, GrantStoreTypeOK
  <2> QED
    BY <2>1, <2>2, SameBooks, QuietFrame DEF Shape
<1> QED
  BY <1>1, <1>2, <1>3, <1>4, <1>5, TickStep, PeeringStep, CrashStep DEF FedNext

\* The inductive invariant holds whatever local calls, peers and the owner of
\* the delegations do beside a peer's call.
THEOREM FedInductive == FedSpec => []FedIInv
<1>1. FedIInv /\ [FedNext]_allVars => FedIInv'
  BY FedStep
<1> QED
  BY <1>1, FedInitInv, PTL DEF FedSpec

\* Every peer's call that reached a plugin had a dialog of its own approved on
\* a phone, and runs under a grant of the peer that signed it.
THEOREM ApprovedTheorem == FedSpec => []EveryPeerCallApproved
<1>1. FedIInv => EveryPeerCallApproved
  <2> SUFFICES ASSUME FedIInv, NEW c \in PeerRuns
               PROVE  /\ promise[Consult(c)] = "approved"
                      /\ Consult(c) \in consents
                      /\ call[c].delegated_by = signed[msg[c]].peer
                      /\ grants[held[c]].key = call[c]
    BY DEF EveryPeerCallApproved
  <2>1. c \in PeerCalls /\ c \in ran /\ Consult(c) \in Requests /\ HeldInv(c) /\ BackedInv(c)
    BY PeerCallsAssumption, TwoDialogs DEF PeerRuns, FedIInv, PeerInv
  <2>2. /\ promise[Consult(c)] = "approved" /\ grants[held[c]].key = call[c] /\ call[c] # NoKey
    BY <2>1, Constants DEF HeldInv
  <2>3. Consult(c) \in consents
    BY <2>1, <2>2 DEF FedIInv, ConsentInv
  <2> QED
    BY <2>1, <2>2, <2>3 DEF BackedInv
<1> QED
  BY <1>1, FedInductive, PTL

\* A peer's call was admitted on a delegation to that very peer, for that tool,
\* and the delegation is still in the books whenever the call goes on.
THEOREM BackedTheorem == FedSpec => []AdmittedIsBacked
<1>1. FedIInv => AdmittedIsBacked
  BY DEF FedIInv, PeerInv, BackedInv, AdmittedIsBacked
<1> QED
  BY <1>1, FedInductive, PTL

\* A peer's call refused at either of its dialogs, or cut off while one was
\* open, never runs; what was bounced, refused or answered by the plugin has one
\* audit row, and nothing has two.
THEOREM PeerRefusalTheorem == FedSpec => []PeerRefusalIsFinal
<1>1. FedIInv => PeerRefusalIsFinal
  <2> SUFFICES ASSUME FedIInv, NEW c \in PeerCalls
               PROVE  /\ {promise[Consult(c)], promise[Ask(c)]}
                           \cap {"denied", "timeout", "closed", "lost"} # {} =>
                             c \notin ran /\ held[c] = NoGrant /\ pc[c] \in {"denied", "lost"}
                      /\ Len(audit[c]) <= 1
                      /\ pc[c] \in {"ok", "error", "denied"} \cup Bounces => Len(audit[c]) = 1
    BY DEF PeerRefusalIsFinal
  <2>1. DialogInv(c) /\ HeldInv(c) /\ LoggedInv(c)
    BY DEF FedIInv, PeerInv
  <2>2. \A s \in {"denied", "timeout", "closed", "lost"} :
          s \in {promise[Consult(c)], promise[Ask(c)]} =>
             c \notin ran /\ held[c] = NoGrant /\ pc[c] \in {"denied", "lost"}
    BY <2>1 DEF DialogInv, HeldInv
  <2> QED
    BY <2>1, <2>2 DEF LoggedInv, Audited
<1> QED
  BY <1>1, FedInductive, PTL

-----------------------------------------------------------------------------
(***************************************************************************)
(* Type correctness: what the inductive invariant does not hold already.   *)
(***************************************************************************)

\* The state the hub's own calls share with the peers'.
HubTypes ==
    /\ hub \in HubStates
    /\ token \in [OAuthPlugins -> TokenStates]
    /\ orphaned \subseteq Calls
    /\ pc \in [Calls -> Stages \cup Bounces]

\* The federation's tables and its rate limit.
BookTypes ==
    /\ NonceTypeOK
    /\ DOMAIN granted \subseteq DelegationIds
    /\ skew \in [DOMAIN signed -> Int]
    /\ window \in [Peers \X Agents -> [1 .. FedLimit -> 0 .. FedWindow]]

LEMMA TypesSpelled == Shape /\ HubTypes /\ BookTypes => FedTypeOK
  BY DEF Shape, HubTypes, BookTypes, FedTypeOK

LEMMA TypesInit == FedInit => HubTypes /\ BookTypes
<1> SUFFICES ASSUME FedInit PROVE HubTypes /\ BookTypes
  OBVIOUS
<1>1. HubTypes
  BY DEF FedInit, Init, HubTypes, HubStates, TokenStates, Stages
<1>2. NonceTypeOK
  BY NonceTTLAssumption DEF FedInit, NonceInit, NonceTypeOK, Unseen
<1>3. EmptyWindow \in [1 .. FedLimit -> 0 .. FedWindow]
  BY LimitAssumption DEF EmptyWindow
<1> QED
  BY <1>1, <1>2, <1>3 DEF FedInit, BookTypes

LEMMA EnterTyped ==
    ASSUME HubTypes, NEW cs, NEW s \in Stages \cup Bounces, Enter(cs, s)
    PROVE  pc' \in [Calls -> Stages \cup Bounces]
  BY DEF HubTypes, Enter

LEMMA SameHub ==
    ASSUME HubTypes, UNCHANGED <<hub, token, orphaned>>,
           pc' \in [Calls -> Stages \cup Bounces]
    PROVE  HubTypes'
  BY DEF HubTypes

LEMMA StoresToken ==
    ASSUME HubTypes, NEW p, NEW s \in TokenStates, token' = [token EXCEPT ![p] = s]
    PROVE  token' \in [OAuthPlugins -> TokenStates]
  BY DEF HubTypes

\* What a handler does leaves the state it shares well-typed.
LEMMA HandlerTypes ==
    ASSUME HubTypes, NEW c \in Calls, Handler(c)
    PROVE  HubTypes'
<1>e. ASSUME NEW s \in Stages \cup Bounces, Enter({c}, s), UNCHANGED <<hub, token, orphaned>>
      PROVE  HubTypes'
  BY <1>e, EnterTyped, SameHub
<1>p. ASSUME NEW g, NEW p, Proceed(c, g, p), UNCHANGED <<hub, token>> PROVE HubTypes'
  <2>1. PICK s \in AfterGrant(p) : Enter({c}, s) /\ UNCHANGED orphaned
    BY <1>p DEF Proceed
  <2>2. s \in {"running", "refreshing", "failed"}
    BY <2>1 DEF AfterGrant, HubTypes, TokenStates
  <2> QED
    BY <1>e, <1>p, <2>1, <2>2 DEF Stages, Waiting, Ended
<1>1. ASSUME NEW t, CallUnknownTool(c, t) PROVE HubTypes'
  BY <1>e, <1>1 DEF CallUnknownTool, Stages, Ended
<1>2. ASSUME NEW t, NEW a, CallWithGrant(c, t, a) PROVE HubTypes'
  BY <1>p, <1>2 DEF CallWithGrant
<1>3. ASSUME NEW t, NEW a, CallAsks(c, t, a) PROVE HubTypes'
  BY <1>e, <1>3 DEF CallAsks, Stages, Waiting
<1>4. ASSUME NEW m, Approve(c, m) PROVE HubTypes'
  BY <1>p, <1>4 DEF Approve
<1>5. ASSUME NEW m, Deny(c, m) \/ TimeOut(c) PROVE HubTypes'
  BY <1>e, <1>5 DEF Deny, TimeOut, Refuse, Stages, Ended
<1>6. ASSUME RefreshSucceeds(c) PROVE HubTypes'
  <2>1. pc' \in [Calls -> Stages \cup Bounces]
    BY <1>6, EnterTyped DEF RefreshSucceeds, UseToken, Stages, Waiting
  <2>2. token' \in [OAuthPlugins -> TokenStates]
    BY <1>6, StoresToken DEF RefreshSucceeds, TokenStates
  <2> QED
    BY <1>6, <2>1, <2>2 DEF HubTypes, RefreshSucceeds, UseToken
<1>7. ASSUME RefreshFails(c) PROVE HubTypes'
  <2>1. Enter({c}, "failed") \/ Enter({c}, "running")
    BY <1>7 DEF RefreshFails, UseToken
  <2> QED
    BY <1>e, <1>7, <2>1 DEF RefreshFails, UseToken, Stages, Waiting, Ended
<1>8. ASSUME PluginSucceeds(c) \/ PluginFails(c) PROVE HubTypes'
  BY <1>e, <1>8 DEF PluginSucceeds, PluginFails, Stages, Ended
<1> QED
  BY <1>1, <1>2, <1>3, <1>4, <1>5, <1>6, <1>7, <1>8 DEF Handler

LEMMA ContinueTypes ==
    ASSUME HubTypes, NEW c \in Calls, Continue(c)
    PROVE  HubTypes'
<1>e. ASSUME NEW s \in Stages \cup Bounces, Enter({c}, s), UNCHANGED <<hub, token, orphaned>>
      PROVE  HubTypes'
  BY <1>e, EnterTyped, SameHub
<1>a. ASSUME NEW state, AskForDelegation(c, state) PROVE pc' \in [Calls -> Stages \cup Bounces]
  BY <1>a, EnterTyped DEF AskForDelegation, Stages, Waiting, Ended
<1>r. ASSUME NEW g, Run(c, g) PROVE HubTypes'
  BY <1>e, <1>r DEF Run, Stages, Waiting
<1>1. ASSUME PeerRefreshSucceeds(c) PROVE HubTypes'
  <2>1. token' \in [OAuthPlugins -> TokenStates]
    BY <1>1, StoresToken DEF PeerRefreshSucceeds, TokenStates
  <2> QED
    BY <1>1, <1>a, <2>1 DEF HubTypes, PeerRefreshSucceeds
<1>2. ASSUME PeerRefreshFails(c) PROVE HubTypes'
  BY <1>2, <1>a, SameHub DEF PeerRefreshFails
<1>3. ASSUME NEW m, ConsentWithGrant(c, m) \/ PeerApprove(c, m) PROVE HubTypes'
  BY <1>3, <1>r DEF ConsentWithGrant, PeerApprove
<1>4. ASSUME NEW m, ConsentAsksAgain(c, m) PROVE HubTypes'
  BY <1>4, <1>e DEF ConsentAsksAgain, Stages, Waiting
<1>5. ASSUME NEW m, PeerDeny(c, m) \/ PeerTimeOut(c) PROVE HubTypes'
  BY <1>5, <1>e DEF PeerDeny, PeerTimeOut, Refuse, Stages, Ended
<1>6. ASSUME PluginSucceeds(c) \/ PluginFails(c) PROVE HubTypes'
  BY <1>e, <1>6 DEF PluginSucceeds, PluginFails, Stages, Ended
<1> QED
  BY <1>1, <1>2, <1>3, <1>4, <1>5, <1>6 DEF Continue

\* A delivery's checks: a row and a slot.
LEMMA CheckedTypes ==
    ASSUME Shape, HubTypes, BookTypes, NEW c \in Calls, NEW r \in DOMAIN signed,
           Bounce(c, r) \/ Admit(c, r)
    PROVE  HubTypes' /\ BookTypes'
<1>1. Checked(c, r) /\ UNCHANGED <<hub, token, orphaned, granted, signed, skew>>
  BY DEF Bounce, Admit, Checked
<1>2. pc' \in [Calls -> Stages \cup Bounces]
  <2>1. CASE Bounce(c, r)
    BY <2>1, VerdictType, EnterTyped DEF Bounce
  <2>2. CASE Admit(c, r)
    BY <2>2, EnterTyped DEF Admit, AskForDelegation, Stages, Waiting, Ended
  <2> QED
    BY <2>1, <2>2
<1>3. NonceTypeOK'
  BY <1>1, NonceTTLAssumption DEF Checked, RecordNonce, BookTypes, NonceTypeOK, Unseen
<1>4. window' \in [Peers \X Agents -> [1 .. FedLimit -> 0 .. FedWindow]]
  <2> DEFINE k == <<signed[r].peer, signed[r].agent>>
  <2>1. FedWindow \in 0 .. FedWindow
    BY LimitAssumption
  <2>2. UNCHANGED window \/ window' = [window EXCEPT ![k][FreeSlot(k)] = FedWindow]
    BY <1>1 DEF Checked
  <2>3. ASSUME NEW q \in Peers \X Agents
        PROVE  window'[q] = window[q] \/ window'[q] = [window[q] EXCEPT ![FreeSlot(k)] = FedWindow]
    BY <2>2 DEF BookTypes
  <2>4. \A q \in Peers \X Agents : window'[q] \in [1 .. FedLimit -> 0 .. FedWindow]
    <3>1. ASSUME NEW f \in [1 .. FedLimit -> 0 .. FedWindow], NEW n
          PROVE  [f EXCEPT ![n] = FedWindow] \in [1 .. FedLimit -> 0 .. FedWindow]
      BY <2>1
    <3>2. ASSUME NEW q \in Peers \X Agents
          PROVE  window'[q] \in [1 .. FedLimit -> 0 .. FedWindow]
      <4>1. window[q] \in [1 .. FedLimit -> 0 .. FedWindow]
        BY DEF BookTypes
      <4> QED
        BY <2>3, <3>1, <4>1
    <3> QED
      BY <3>2
  <2>5. window' = [q \in Peers \X Agents |-> window'[q]]
    BY <2>2 DEF BookTypes
  <2> QED
    BY <2>4, <2>5
<1> QED
  BY <1>1, <1>2, <1>3, <1>4, SameHub DEF BookTypes

LEMMA PeeringTypes ==
    ASSUME Shape, HubTypes, BookTypes, Peering PROVE HubTypes' /\ BookTypes'
<1>0. UNCHANGED <<hub, token, orphaned, pc, seen, window>>
  BY DEF Peering, CreateDelegation, RevokeDelegation, Sign, vars, callVars
<1>1. DOMAIN granted' \subseteq DelegationIds
  <2>1. ASSUME NEW d \in DelegationIds, NEW p, NEW t, NEW n, CreateDelegation(d, p, t, n)
        PROVE  DOMAIN granted' \subseteq DelegationIds
    <3>1. DOMAIN granted' = DOMAIN granted \cup {d}
      BY <2>1 DEF CreateDelegation
    <3> QED
      BY <3>1 DEF BookTypes
  <2>2. ASSUME NEW d, RevokeDelegation(d) PROVE DOMAIN granted' \subseteq DelegationIds
    BY <2>2 DEF RevokeDelegation, BookTypes
  <2>3. ASSUME NEW r, NEW m, NEW e, Sign(r, m, e) PROVE DOMAIN granted' \subseteq DelegationIds
    BY <2>3 DEF Sign, BookTypes
  <2> QED
    BY <2>1, <2>2, <2>3 DEF Peering
<1>2. skew' \in [DOMAIN signed' -> Int]
  <2>1. UNCHANGED <<skew, signed>> \/
        \E r \in RequestIds, m \in PeerRequests, e \in ClockErrors : Sign(r, m, e)
    BY DEF Peering, CreateDelegation, RevokeDelegation
  <2> QED
    BY <2>1, ClockAssumption DEF Sign, BookTypes
<1> QED
  BY <1>0, <1>1, <1>2 DEF HubTypes, BookTypes, NonceTypeOK, Unseen

LEMMA AgeTypes ==
    ASSUME Shape, HubTypes, BookTypes, Tick, AgeFederation PROVE HubTypes' /\ BookTypes'
<1>1. HubTypes'
  BY DEF Tick, HubTypes, callVars
<1>2. NonceTypeOK'
  <2>1. \A r \in RequestIds : (IF seen[r] = Unseen THEN Unseen ELSE seen[r] + 1) \in 0 .. Unseen
    BY NonceTTLAssumption DEF BookTypes, NonceTypeOK, Unseen
  <2> QED
    BY <2>1 DEF AgeFederation, AgeNonces, NonceTypeOK
<1>3. DOMAIN granted' \subseteq DelegationIds
  BY DEF AgeFederation, BookTypes
<1>4. skew' \in [DOMAIN signed' -> Int]
  BY ClockAssumption DEF AgeFederation, BookTypes, TooOld
<1>5. window' \in [Peers \X Agents -> [1 .. FedLimit -> 0 .. FedWindow]]
  <2>1. \A k \in Peers \X Agents : \A n \in 1 .. FedLimit :
          (IF window[k][n] = 0 THEN 0 ELSE window[k][n] - 1) \in 0 .. FedWindow
    BY LimitAssumption DEF BookTypes
  <2>2. DOMAIN window = Peers \X Agents
    BY DEF BookTypes
  <2> QED
    BY <2>1, <2>2 DEF AgeFederation
<1> QED
  BY <1>1, <1>2, <1>3, <1>4, <1>5 DEF BookTypes

LEMMA EnvironmentTypes ==
    ASSUME HubTypes, Environment PROVE HubTypes'
<1>1. ASSUME NEW p, PluginExits(p) PROVE HubTypes'
  <2>1. PICK cut : /\ cut \subseteq Calls
                   /\ Enter(cut, "error")
                   /\ orphaned' = orphaned \cup (WaitingFor(p) \ cut)
    BY <1>1 DEF PluginExits, WaitingFor, WaitingCalls
  <2>2. orphaned' \subseteq Calls
    BY <2>1 DEF HubTypes, WaitingFor, WaitingCalls
  <2>3. pc' \in [Calls -> Stages \cup Bounces]
    BY <2>1, EnterTyped DEF Stages, Ended
  <2> QED
    BY <1>1, <2>2, <2>3 DEF PluginExits, HubTypes
<1>2. ASSUME NEW p \in OAuthPlugins, NEW s \in TokenStates, TokenChanges(p, s) PROVE HubTypes'
  BY <1>2, StoresToken DEF TokenChanges, HubTypes, callVars
<1>3. ASSUME StopServer PROVE HubTypes'
  BY <1>3, EnterTyped DEF StopServer, Refuse, HubTypes, HubStates, Stages, Ended
<1>4. ASSUME BeginShutdown \/ Restart PROVE HubTypes'
  BY <1>4 DEF BeginShutdown, Restart, HubTypes, HubStates, callVars
<1>5. ASSUME UNCHANGED <<hub, token, callVars>> PROVE HubTypes'
  BY <1>5 DEF HubTypes, callVars
<1> QED
  BY <1>1, <1>2, <1>3, <1>4, <1>5 DEF Environment, LateAnswer, Register, Revoke, PhoneConnects,
     PhoneDisconnects, UserTaps

LEMMA DownTypes ==
    ASSUME Shape, HubTypes, BookTypes, FedCrash \/ FedExit PROVE HubTypes' /\ BookTypes'
<1>1. HubTypes'
  BY EnterTyped DEF FedCrash, Crash, FedExit, Exit, HubTypes, HubStates, Stages, Ended, callVars
<1>2. EmptyWindow \in [1 .. FedLimit -> 0 .. FedWindow] /\ DOMAIN window = Peers \X Agents
  BY LimitAssumption DEF EmptyWindow, BookTypes
<1>3. UNCHANGED <<granted, signed, skew, seen>> /\ window' = [k \in DOMAIN window |-> EmptyWindow]
  BY DEF FedCrash, FedExit
<1> QED
  BY <1>1, <1>2, <1>3 DEF BookTypes, NonceTypeOK, Unseen

LEMMA TypesStep ==
    ASSUME Shape, HubTypes, BookTypes, [FedNext]_allVars PROVE HubTypes' /\ BookTypes'
<1>b. UNCHANGED fedVars => BookTypes'
  BY DEF fedVars, BookTypes, NonceTypeOK, Unseen
<1>1. ASSUME NEW c \in PeerCalls, PeerHandler(c) PROVE HubTypes' /\ BookTypes'
  BY <1>b, <1>1, PeerCallsAssumption, CheckedTypes, ContinueTypes DEF PeerHandler
<1>2. ASSUME NEW c \in Calls, Handler(c), UNCHANGED fedVars PROVE HubTypes' /\ BookTypes'
  BY <1>b, <1>2, HandlerTypes
<1>3. ASSUME UNCHANGED allVars PROVE HubTypes' /\ BookTypes'
  BY <1>b, <1>3 DEF allVars, vars, callVars, HubTypes
<1> QED
  BY <1>b, <1>1, <1>2, <1>3, EnvironmentTypes, PeeringTypes, AgeTypes, DownTypes DEF FedNext

\* The types of everything the hub holds while its own calls and peers' share
\* it: the grants, the delegations, the nonces, the rate limit's window.
THEOREM FedTypes == FedSpec => []FedTypeOK
<1>1. FedInit => HubTypes /\ BookTypes
  BY TypesInit
<1>2. FedIInv /\ HubTypes /\ BookTypes /\ [FedNext]_allVars => HubTypes' /\ BookTypes'
  BY TypesStep DEF FedIInv
<1>3. FedIInv /\ HubTypes /\ BookTypes => FedTypeOK
  BY TypesSpelled DEF FedIInv
<1> QED
  BY <1>1, <1>2, <1>3, FedInductive, PTL DEF FedSpec

-----------------------------------------------------------------------------
(***************************************************************************)
(* The table shared.  Behind every grant, whoever uses it, there is an     *)
(* approved call of its key: a local call earns none for a peer, nor a     *)
(* peer's for the hub's own agents or for another peer.                    *)
(***************************************************************************)

\* A local call holds a grant of its own key or none, and runs with one.
LocalInv(c) ==
    /\ pc[c] = "idle" => call[c] = NoKey /\ promise[Ask(c)] = "none" /\ held[c] = NoGrant
    /\ pc[c] = "refreshing" => held[c] # NoGrant
    /\ c \in ran => held[c] # NoGrant
    /\ held[c] # NoGrant => held[c] \in DOMAIN grants /\ grants[held[c]].key = call[c]

Locals == Calls \ PeerCalls

SharedInv == (\A c \in Locals : LocalInv(c)) /\ GrantInv

\* What a step adds to the table is earned.
NewEarned ==
    \A g \in DOMAIN grants' \ DOMAIN grants :
        \E d \in Calls : call'[d] = grants'[g].key /\ promise'[Ask(d)] = "approved"

LEMMA SharedInit == FedInit => SharedInv
  BY AskIsRequest DEF FedInit, Init, GrantStoreInit, StreamInit, SharedInv, LocalInv, GrantInv, Locals

LEMMA SharedFrame ==
    ASSUME SharedInv, GrantsKept, ApprovedStay, NewEarned, \A c \in Locals : LocalInv(c)'
    PROVE  SharedInv'
<1>1. ASSUME NEW g \in DOMAIN grants'
      PROVE  \E d \in Calls : call'[d] = grants'[g].key /\ promise'[Ask(d)] = "approved"
  <2>1. CASE g \in DOMAIN grants
    BY <2>1 DEF SharedInv, GrantInv, GrantsKept, ApprovedStay
  <2>2. CASE g \notin DOMAIN grants
    BY <2>2 DEF NewEarned
  <2> QED
    BY <2>1, <2>2
<1>2. GrantInv'
  BY <1>1 DEF GrantInv, Ask
<1> QED
  BY <1>2 DEF SharedInv, LocalInv, Locals, Ask

\* A local call the step may end, but not move on.
LEMMA LocalStays ==
    ASSUME GrantsKept, NEW c \in Locals, LocalInv(c), call'[c] = call[c], held'[c] = held[c],
           c \in ran' => c \in ran, pc'[c] = "refreshing" => pc[c] = "refreshing",
           pc'[c] = "idle" => pc[c] = "idle" /\ promise'[Ask(c)] = promise[Ask(c)]
    PROVE  LocalInv(c)'
  BY DEF LocalInv, GrantsKept, Ask

\* Steps of one local call.
LEMMA LocalFrame ==
    ASSUME SharedInv, NEW c \in Locals, GrantsKept, NewEarned, LocalInv(c)',
           \A d \in Calls : d # c => /\ pc'[d] = pc[d] /\ call'[d] = call[d] /\ held'[d] = held[d]
                                     /\ d \in ran' <=> d \in ran,
           \A r \in Requests : r # Ask(c) => promise'[r] = promise[r],
           promise[Ask(c)] = "approved" => promise'[Ask(c)] = "approved" /\ call'[c] = call[c]
    PROVE  SharedInv'
<1>1. \A d \in Calls : d # c => promise'[Ask(d)] = promise[Ask(d)]
  BY TwoDialogs DEF Locals
<1>2. ApprovedStay
  BY <1>1 DEF ApprovedStay, Locals
<1>3. \A d \in Locals : d # c => LocalInv(d)'
  BY <1>1, LocalStays DEF SharedInv, Locals
<1>4. \A d \in Locals : LocalInv(d)'
  BY <1>3 DEF LocalInv, Ask
<1> QED
  BY <1>2, <1>4, SharedFrame

LEMMA SameRowsEarned == ASSUME UNCHANGED grants PROVE GrantsKept /\ NewEarned
  BY SameStore DEF NewEarned

LEMMA CreatedEarned ==
    ASSUME NEW g, NEW c \in Calls, CreateGrant(g, call[c]), UNCHANGED call,
           promise'[Ask(c)] = "approved"
    PROVE  GrantsKept /\ NewEarned /\ g \in DOMAIN grants' /\ grants'[g].key = call[c]
  BY CreateKeeps DEF NewEarned

LEMMA FoundKey ==
    ASSUME NEW k, NEW g \in FindActive(k), GrantStoreTypeOK
    PROVE  g \in DOMAIN grants /\ grants[g].key = k /\ g # NoGrant
  BY FindActiveType, Constants DEF GrantStoreTypeOK

LEMMA SharedLocal ==
    ASSUME Shape, HubTypes, SharedInv, NEW c \in Locals, Handler(c)
    PROVE  SharedInv'
<1>0. c \in Calls /\ LocalInv(c) /\ Ask(c) \in Requests
  BY TwoDialogs DEF Locals, SharedInv
<1>e. \A s : Enter({c}, s) => pc'[c] = s /\ \A d \in Calls : d # c => pc'[d] = pc[d]
  BY <1>0, EnterOne
<1>s. UNCHANGED streamVars => UNCHANGED promise
  BY DEF streamVars
<1>p. ASSUME NEW g \in GrantIds, NEW p, Proceed(c, g, p)
      PROVE  /\ held'[c] = g /\ g # NoGrant /\ pc'[c] \notin {"idle"}
             /\ \A d \in Calls : d # c => /\ pc'[d] = pc[d] /\ held'[d] = held[d]
                                          /\ d \in ran' <=> d \in ran
  <2>1. PICK s \in AfterGrant(p) : /\ Enter({c}, s)
                                   /\ held' = [held EXCEPT ![c] = g]
                                   /\ ran' = IF s = "running" THEN ran \cup {c} ELSE ran
    BY <1>p DEF Proceed
  <2>2. s \in {"running", "refreshing", "failed"}
    BY <2>1 DEF AfterGrant, HubTypes, TokenStates
  <2> QED
    BY <1>0, <1>e, <2>1, <2>2, Constants DEF Shape
<1>1. ASSUME NEW t, CallUnknownTool(c, t) PROVE SharedInv'
  <2>1. /\ pc'[c] = "unknown" /\ \A d \in Calls : d # c => pc'[d] = pc[d]
        /\ UNCHANGED <<grants, call, held, ran, promise>>
    BY <1>1, <1>e, <1>s DEF CallUnknownTool
  <2>2. GrantsKept /\ NewEarned
    BY <2>1, SameRowsEarned
  <2>3. LocalInv(c)'
    BY <1>0, <2>1, <2>2, LocalStays
  <2> QED
    BY <2>1, <2>2, <2>3, LocalFrame
<1>2. ASSUME NEW t, NEW a, CallWithGrant(c, t, a) PROVE SharedInv'
  <2>1. PICK g \in FindActive(KeyOf(t, a)) : Proceed(c, g, owner[t])
    BY <1>2 DEF CallWithGrant
  <2>2. g \in GrantIds
    BY FindActiveType DEF Shape, GrantStoreTypeOK
  <2>3. g \in DOMAIN grants /\ grants[g].key = KeyOf(t, a)
    BY FoundKey DEF Shape
  <2>4. /\ call'[c] = KeyOf(t, a) /\ \A d \in Calls : d # c => call'[d] = call[d]
        /\ UNCHANGED <<grants, promise>> /\ promise[Ask(c)] = "none"
    BY <1>0, <1>2, <1>s DEF CallWithGrant, Shape, LocalInv
  <2>5. GrantsKept /\ NewEarned
    BY <2>4, SameRowsEarned
  <2>6. LocalInv(c)'
    BY <1>p, <2>1, <2>2, <2>3, <2>4 DEF LocalInv
  <2> QED
    BY <1>p, <2>1, <2>2, <2>4, <2>5, <2>6, LocalFrame
<1>3. ASSUME NEW t, NEW a, CallAsks(c, t, a) PROVE SharedInv'
  <2>1. /\ pc'[c] = "asking" /\ (\A d \in Calls : d # c => pc'[d] = pc[d])
        /\ UNCHANGED <<grants, held, ran>> /\ held[c] = NoGrant /\ c \notin ran
    BY <1>0, <1>3, <1>e DEF CallAsks, LocalInv
  <2>2. /\ \A d \in Calls : d # c => call'[d] = call[d]
        /\ promise[Ask(c)] = "none" /\ \A r \in Requests : r # Ask(c) => promise'[r] = promise[r]
    BY <1>0, <1>3 DEF CallAsks, RequestApproval, LocalInv, Shape, StreamTypeOK
  <2>3. GrantsKept /\ NewEarned
    BY <2>1, SameRowsEarned
  <2>4. LocalInv(c)'
    BY <2>1 DEF LocalInv
  <2> QED
    BY <2>1, <2>2, <2>3, <2>4, LocalFrame
<1>4. ASSUME NEW m, Approve(c, m) PROVE SharedInv'
  <2>1. PICK g \in GrantIds : CreateGrant(g, call[c]) /\ Proceed(c, g, call[c].plugin)
    BY <1>4 DEF Approve
  <2>2. /\ UNCHANGED call /\ promise[Ask(c)] = "pending" /\ promise'[Ask(c)] = "approved"
        /\ \A r \in Requests : r # Ask(c) => promise'[r] = promise[r]
    BY <1>0, <1>4 DEF Approve, Settle, Shape, StreamTypeOK
  <2>3. GrantsKept /\ NewEarned /\ g \in DOMAIN grants' /\ grants'[g].key = call[c]
    BY <1>0, <2>1, <2>2, CreatedEarned
  <2>4. LocalInv(c)'
    BY <1>p, <2>1, <2>2, <2>3 DEF LocalInv
  <2> QED
    BY <1>p, <2>1, <2>2, <2>3, <2>4, LocalFrame
<1>5. ASSUME Refuse({c}), UNCHANGED grants, promise[Ask(c)] = "pending",
             \A r \in Requests : r # Ask(c) => promise'[r] = promise[r]
      PROVE  SharedInv'
  <2>1. /\ pc'[c] = "denied" /\ (\A d \in Calls : d # c => pc'[d] = pc[d])
        /\ UNCHANGED <<grants, call, held, ran>>
    BY <1>5, <1>e DEF Refuse
  <2>2. GrantsKept /\ NewEarned
    BY <2>1, SameRowsEarned
  <2>3. LocalInv(c)'
    BY <1>0, <2>1, <2>2, LocalStays
  <2> QED
    BY <1>5, <2>1, <2>2, <2>3, LocalFrame
<1>6. ASSUME NEW m, Deny(c, m) PROVE SharedInv'
  BY <1>0, <1>5, <1>6 DEF Deny, Settle, Shape, StreamTypeOK
<1>7. ASSUME TimeOut(c) PROVE SharedInv'
  BY <1>0, <1>5, <1>7 DEF TimeOut, TimerFires, Shape, StreamTypeOK
<1>8. ASSUME RefreshSucceeds(c) \/ RefreshFails(c) PROVE SharedInv'
  <2>1. PICK state : UseToken(c, state)
    BY <1>8 DEF RefreshSucceeds, RefreshFails
  <2>2. /\ pc'[c] \in {"failed", "running"} /\ \A d \in Calls : d # c => pc'[d] = pc[d]
        /\ \A d \in Calls : d # c => (d \in ran' <=> d \in ran)
        /\ UNCHANGED <<call, held>>
    BY <1>e, <2>1 DEF UseToken
  <2>3. UNCHANGED <<grants, promise>> /\ held[c] # NoGrant
    BY <1>0, <1>8, <1>s DEF RefreshSucceeds, RefreshFails, LocalInv
  <2>4. GrantsKept /\ NewEarned
    BY <2>3, SameRowsEarned
  <2>5. LocalInv(c)'
    BY <1>0, <2>2, <2>3 DEF LocalInv
  <2> QED
    BY <2>2, <2>3, <2>4, <2>5, LocalFrame
<1>9. ASSUME PluginSucceeds(c) \/ PluginFails(c) PROVE SharedInv'
  <2>1. /\ pc'[c] \in {"ok", "error"} /\ (\A d \in Calls : d # c => pc'[d] = pc[d])
        /\ UNCHANGED <<grants, call, held, ran, promise>>
    BY <1>9, <1>e, <1>s DEF PluginSucceeds, PluginFails
  <2>2. GrantsKept /\ NewEarned
    BY <2>1, SameRowsEarned
  <2>3. LocalInv(c)'
    BY <1>0, <2>1, <2>2, LocalStays
  <2> QED
    BY <2>1, <2>2, <2>3, LocalFrame
<1> QED
  BY <1>1, <1>2, <1>3, <1>4, <1>6, <1>7, <1>8, <1>9 DEF Handler

\* A step of a peer's call, seen by the local ones.
LEMMA PeerLeavesLocals ==
    ASSUME SharedInv, NEW c \in PeerCalls, GrantsKept, NewEarned,
           \A d \in Calls : d # c => /\ pc'[d] = pc[d] /\ call'[d] = call[d] /\ held'[d] = held[d]
                                     /\ d \in ran' <=> d \in ran,
           \A r \in Requests \ {Ask(c), Consult(c)} : promise'[r] = promise[r],
           promise[Ask(c)] = "approved" => promise'[Ask(c)] = "approved" /\ call'[c] = call[c]
    PROVE  SharedInv'
<1>1. \A d \in Calls : d # c => promise'[Ask(d)] = promise[Ask(d)]
  BY TwoDialogs, PeerCallsAssumption
<1>2. ApprovedStay
  BY <1>1 DEF ApprovedStay
<1>3. \A d \in Locals : LocalInv(d)'
  BY <1>1, LocalStays DEF SharedInv, Locals
<1> QED
  BY <1>2, <1>3, SharedFrame

LEMMA SharedPeer ==
    ASSUME Shape, SharedInv, NEW c \in PeerCalls, PeerInv(c), PeerHandler(c)
    PROVE  SharedInv'
<1>0. /\ c \in Calls /\ Ask(c) \in Requests /\ Consult(c) \in Requests /\ Ask(c) # Consult(c)
      /\ DialogInv(c)
  BY PeerCallsAssumption, TwoDialogs DEF PeerInv
<1>e. \A s : Enter({c}, s) => \A d \in Calls : d # c => pc'[d] = pc[d]
  BY <1>0, EnterOne
<1>s. UNCHANGED streamVars => UNCHANGED promise
  BY DEF streamVars
<1>a. ASSUME NEW state, AskForDelegation(c, state)
      PROVE  /\ \A d \in Calls : d # c => pc'[d] = pc[d]
             /\ \A r \in Requests \ {Consult(c)} : promise'[r] = promise[r]
  BY <1>0, <1>a, <1>e, <1>s DEF AskForDelegation, RequestApproval, Shape, StreamTypeOK
<1>r. ASSUME NEW g, Run(c, g)
      PROVE  /\ \A d \in Calls : d # c => /\ pc'[d] = pc[d] /\ held'[d] = held[d]
                                          /\ d \in ran' <=> d \in ran
             /\ UNCHANGED call
  BY <1>0, <1>r, <1>e DEF Run, Shape
<1>f. ASSUME UNCHANGED grants,
             \A d \in Calls : d # c => /\ pc'[d] = pc[d] /\ call'[d] = call[d] /\ held'[d] = held[d]
                                       /\ d \in ran' <=> d \in ran,
             \A r \in Requests \ {Ask(c), Consult(c)} : promise'[r] = promise[r],
             promise[Ask(c)] = "approved" => promise'[Ask(c)] = "approved" /\ call'[c] = call[c]
      PROVE  SharedInv'
  BY <1>f, SameRowsEarned, PeerLeavesLocals
<1>1. ASSUME NEW r, Bounce(c, r) PROVE SharedInv'
  BY <1>1, <1>e, <1>f, <1>s DEF Bounce
<1>2. ASSUME NEW r, Admit(c, r) PROVE SharedInv'
  <2>1. promise[Ask(c)] = "none"
    BY <1>0, <1>2 DEF Admit, Checked, DialogInv
  <2>2. /\ UNCHANGED <<grants, held, ran>> /\ \A d \in Calls : d # c => call'[d] = call[d]
    BY <1>2 DEF Admit, Shape
  <2>3. /\ \A d \in Calls : d # c => pc'[d] = pc[d]
        /\ \A q \in Requests \ {Consult(c)} : promise'[q] = promise[q]
    BY <1>2, <1>a, <1>e, <1>s DEF Admit
  <2> QED
    BY <1>f, <2>1, <2>2, <2>3
<1>3. ASSUME PeerRefreshSucceeds(c) \/ PeerRefreshFails(c) PROVE SharedInv'
  <2>1. PICK state : AskForDelegation(c, state)
    BY <1>3 DEF PeerRefreshSucceeds, PeerRefreshFails
  <2>2. UNCHANGED <<grants, call, held, ran>>
    BY <1>3 DEF PeerRefreshSucceeds, PeerRefreshFails
  <2> QED
    BY <1>0, <1>a, <1>f, <2>1, <2>2
<1>4. ASSUME NEW m, ConsentWithGrant(c, m) PROVE SharedInv'
  <2>1. PICK g : Run(c, g)
    BY <1>4 DEF ConsentWithGrant
  <2>2. UNCHANGED grants /\ \A r \in Requests \ {Consult(c)} : promise'[r] = promise[r]
    BY <1>0, <1>4 DEF ConsentWithGrant, Settle, Shape, StreamTypeOK
  <2> QED
    BY <1>0, <1>f, <1>r, <2>1, <2>2
<1>5. ASSUME NEW m, ConsentAsksAgain(c, m) PROVE SharedInv'
  <2>1. promise[Ask(c)] # "approved"
    BY <1>0, <1>5 DEF ConsentAsksAgain, DialogInv
  <2>2. \A r \in Requests \ {Ask(c), Consult(c)} : promise'[r] = promise[r]
    BY <1>0, <1>5 DEF ConsentAsksAgain, SettleAndRequest, Shape, StreamTypeOK
  <2> QED
    BY <1>5, <1>e, <1>f, <2>1, <2>2 DEF ConsentAsksAgain
<1>6. ASSUME NEW m, PeerApprove(c, m) PROVE SharedInv'
  <2>1. PICK g \in GrantIds : CreateGrant(g, call[c]) /\ Run(c, g)
    BY <1>6 DEF PeerApprove
  <2>2. /\ promise'[Ask(c)] = "approved"
        /\ \A r \in Requests \ {Ask(c)} : promise'[r] = promise[r]
    BY <1>0, <1>6 DEF PeerApprove, Settle, Shape, StreamTypeOK
  <2>3. UNCHANGED call
    BY <1>r, <2>1
  <2>4. GrantsKept /\ NewEarned
    BY <1>0, <2>1, <2>2, <2>3, CreatedEarned
  <2> QED
    BY <1>r, <2>1, <2>2, <2>3, <2>4, PeerLeavesLocals
<1>7. ASSUME NEW m, PeerDeny(c, m) PROVE SharedInv'
  <2>1. /\ \A r \in Requests \ {Ask(c), Consult(c)} : promise'[r] = promise[r]
        /\ promise[Ask(c)] = "approved" => promise'[Ask(c)] = "approved"
    BY <1>0, <1>7 DEF PeerDeny, Settle, Shape, StreamTypeOK
  <2> QED
    BY <1>7, <1>e, <1>f, <2>1 DEF PeerDeny, Refuse
<1>8. ASSUME PeerTimeOut(c) PROVE SharedInv'
  <2>1. /\ \A r \in Requests \ {Ask(c), Consult(c)} : promise'[r] = promise[r]
        /\ promise[Ask(c)] = "approved" => promise'[Ask(c)] = "approved"
    BY <1>0, <1>8 DEF PeerTimeOut, TimerFires, Shape, StreamTypeOK
  <2> QED
    BY <1>8, <1>e, <1>f, <2>1 DEF PeerTimeOut, Refuse
<1>9. ASSUME PluginSucceeds(c) \/ PluginFails(c) PROVE SharedInv'
  BY <1>9, <1>e, <1>f, <1>s DEF PluginSucceeds, PluginFails
<1> QED
  BY <1>1, <1>2, <1>3, <1>4, <1>5, <1>6, <1>7, <1>8, <1>9 DEF PeerHandler, Continue

\* Steps that add no row and move no call on.
LEMMA SharedRest ==
    ASSUME SharedInv, GrantsKept, DOMAIN grants' = DOMAIN grants, UNCHANGED <<call, held, ran>>,
           \A c \in Calls : pc'[c] = pc[c] \/ pc'[c] \in {"error", "denied", "lost"},
           \A c \in Calls : promise[Ask(c)] # "pending" => promise'[Ask(c)] = promise[Ask(c)]
    PROVE  SharedInv'
<1>1. ApprovedStay /\ NewEarned
  BY DEF ApprovedStay, NewEarned
<1>2. ASSUME NEW c \in Locals PROVE LocalInv(c)'
  <2>1. LocalInv(c) /\ c \in Calls
    BY DEF SharedInv, Locals
  <2>2. pc'[c] = "idle" => pc[c] = "idle" /\ promise'[Ask(c)] = promise[Ask(c)]
    BY <2>1 DEF LocalInv
  <2> QED
    BY <2>1, <2>2, LocalStays
<1> QED
  BY <1>1, <1>2, SharedFrame

LEMMA SharedEnvironment ==
    ASSUME Shape, SharedInv, Environment PROVE SharedInv'
<1>1. UNCHANGED <<call, held, ran>>
  BY DEF Environment, LateAnswer, Register, PluginExits, TokenChanges, Revoke, PhoneConnects,
     PhoneDisconnects, UserTaps, BeginShutdown, StopServer, Refuse, Restart, callVars
<1>2. GrantsKept /\ DOMAIN grants' = DOMAIN grants
  <2>1. CASE \E g \in GrantIds : Revoke(g)
    BY <2>1, RevokeKeeps DEF Revoke, Shape
  <2>2. CASE UNCHANGED grants
    BY <2>2, SameStore
  <2> QED
    BY <2>1, <2>2 DEF Environment, LateAnswer, Register, PluginExits, TokenChanges, PhoneConnects,
       PhoneDisconnects, UserTaps, BeginShutdown, StopServer, Restart
<1>3. \A c \in Calls : pc'[c] = pc[c] \/ pc'[c] \in {"error", "denied", "lost"}
  BY DEF Environment, LateAnswer, Register, PluginExits, TokenChanges, Revoke, PhoneConnects,
     PhoneDisconnects, UserTaps, BeginShutdown, StopServer, Refuse, Restart, callVars, Enter
<1>4. \A c \in Calls : promise[Ask(c)] # "pending" => promise'[Ask(c)] = promise[Ask(c)]
  <2>1. CASE StopServer
    BY <2>1, TwoDialogs DEF StopServer, StreamDown
  <2>2. CASE ~StopServer
    BY <2>2 DEF Environment, LateAnswer, IgnoreLateAnswer, Register, PluginExits, TokenChanges,
       Revoke, PhoneConnects, Connect, PhoneDisconnects, Disconnect, UserTaps, Tap, BeginShutdown,
       Restart, streamVars
  <2> QED
    BY <2>1, <2>2
<1> QED
  BY <1>1, <1>2, <1>3, <1>4, SharedRest

LEMMA SharedStep ==
    ASSUME FedIInv, HubTypes, SharedInv, [FedNext]_allVars PROVE SharedInv'
<1>0. Shape
  BY DEF FedIInv
<1>1. ASSUME NEW c \in PeerCalls, PeerHandler(c) PROVE SharedInv'
  BY <1>0, <1>1, SharedPeer DEF FedIInv
<1>2. ASSUME NEW c \in Calls \ PeerCalls, Handler(c) PROVE SharedInv'
  BY <1>0, <1>2, SharedLocal DEF Locals
<1>3. ASSUME Peering \/ UNCHANGED allVars PROVE SharedInv'
  <2>1. UNCHANGED <<grants, call, held, ran, pc, promise>>
    BY <1>3 DEF Peering, CreateDelegation, RevokeDelegation, Sign, allVars, vars, callVars, streamVars
  <2> QED
    BY <2>1, SameStore, SharedRest
<1>4. ASSUME Tick PROVE SharedInv'
  <2>1. UNCHANGED <<call, held, ran, pc, promise>>
    BY <1>4 DEF Tick, callVars
  <2> QED
    BY <1>0, <1>4, <2>1, AgeKeeps, SharedRest DEF Tick, Shape
<1>5. ASSUME FedExit PROVE SharedInv'
  <2>1. UNCHANGED <<grants, call, held, ran, pc, promise>>
    BY <1>5 DEF FedExit, Exit, callVars, streamVars
  <2> QED
    BY <2>1, SameStore, SharedRest
<1>6. ASSUME FedCrash PROVE SharedInv'
  <2>1. UNCHANGED <<grants, call, held, ran>>
    BY <1>6 DEF FedCrash, Crash
  <2>2. /\ \A c \in Calls : pc'[c] = pc[c] \/ pc'[c] \in {"error", "denied", "lost"}
        /\ \A c \in Calls : promise[Ask(c)] # "pending" => promise'[Ask(c)] = promise[Ask(c)]
    BY <1>6, TwoDialogs DEF FedCrash, Crash, Enter, StreamDown
  <2> QED
    BY <2>1, <2>2, SameStore, SharedRest
<1> QED
  BY <1>0, <1>1, <1>2, <1>3, <1>4, <1>5, <1>6, SharedEnvironment DEF FedNext

\* Whatever ran, for a local agent or for a peer, holds a grant of its own
\* tool, plugin, agent and origin, which the user's tap for some call of that
\* very key put there.
THEOREM SharedConsentTheorem == FedSpec => []RunsOnConsent
<1>1. FedInit => HubTypes /\ BookTypes /\ SharedInv
  BY TypesInit, SharedInit
<1>2. FedIInv /\ HubTypes /\ BookTypes /\ SharedInv /\ [FedNext]_allVars
        => HubTypes' /\ BookTypes' /\ SharedInv'
  BY TypesStep, SharedStep DEF FedIInv
<1>3. FedIInv /\ SharedInv => RunsOnConsent
  <2> SUFFICES ASSUME FedIInv, SharedInv, NEW c \in ran
               PROVE  /\ held[c] \in DOMAIN grants
                      /\ grants[held[c]].key = call[c]
                      /\ \E d \in Calls : /\ call[d] = call[c]
                                          /\ promise[Ask(d)] = "approved"
                                          /\ Ask(d) \in consents
    BY DEF RunsOnConsent
  <2>1. held[c] \in DOMAIN grants /\ grants[held[c]].key = call[c]
    <3>1. CASE c \in PeerCalls
      BY <3>1 DEF FedIInv, PeerInv, HeldInv
    <3>2. CASE c \notin PeerCalls
      BY <3>2 DEF FedIInv, Shape, SharedInv, LocalInv, Locals
    <3> QED
      BY <3>1, <3>2
  <2>2. PICK d \in Calls : call[d] = call[c] /\ promise[Ask(d)] = "approved"
    BY <2>1 DEF SharedInv, GrantInv
  <2>3. Ask(d) \in consents
    BY <2>2, TwoDialogs DEF FedIInv, ConsentInv
  <2> QED
    BY <2>1, <2>2, <2>3
<1> QED
  BY <1>1, <1>2, <1>3, FedInductive, PTL DEF FedSpec

-----------------------------------------------------------------------------
(***************************************************************************)
(* How much clock drift the replay window bears.  A signed request runs at *)
(* most once as long as no peer's clock is ahead by NonceTTL - MaxSkew or  *)
(* more, whatever is delivered again, and whatever crashes, ticks and      *)
(* calls lie in between.  In the code NonceTTL is twice MaxSkew, so the    *)
(* bound is the tolerated skew itself, exclusive (federation/nonces.ts,    *)
(* handleFederationCall); FederationReplay shows the bound is sharp.       *)
(***************************************************************************)

Margin == \A e \in ClockErrors : e + NonceTTL > MaxSkew

\* The calls that passed the checks.
Admitted(c) == call[c] # NoKey

\* While a request's row is there, the request is refused for its age no later
\* than its row stops to count.
WindowInv ==
    /\ NonceTypeOK
    /\ skew \in [DOMAIN signed -> Int]
    /\ \A r \in RequestIds \ DOMAIN signed : seen[r] = Unseen
    /\ \A r \in DOMAIN signed : skew[r] + NonceTTL > MaxSkew
    /\ \A r \in DOMAIN signed : seen[r] # Unseen => skew[r] + NonceTTL > MaxSkew + seen[r]

\* A request that was admitted is refused from then on, by its row or its age.
SpentInv ==
    \A c \in PeerCalls : Admitted(c) => skew[msg[c]] > MaxSkew \/ seen[msg[c]] < NonceTTL

OnceInv == \A c, d \in PeerCalls : Admitted(c) /\ Admitted(d) /\ msg[c] = msg[d] => c = d

ReplayInv == FedIInv /\ WindowInv /\ SpentInv /\ OnceInv

LEMMA ReplayInit == FedInit => ReplayInv
<1> SUFFICES ASSUME FedInit PROVE ReplayInv
  OBVIOUS
<1>1. FedIInv
  BY FedInitInv
<1>2. WindowInv
  BY NonceTTLAssumption DEF FedInit, NonceInit, WindowInv, NonceTypeOK, Unseen
<1>3. SpentInv /\ OnceInv
  BY PeerCallsAssumption DEF FedInit, Init, SpentInv, OnceInv, Admitted
<1> QED
  BY <1>1, <1>2, <1>3 DEF ReplayInv

\* Every step but a delivery's checks, a signature and the clock's leaves all
\* that the three invariants speak of alone.
LEMMA ElseSame ==
    ASSUME FedIInv, WindowInv, SpentInv, OnceInv,
           UNCHANGED <<seen, skew, signed, msg>>,
           \A c \in PeerCalls : call'[c] = call[c]
    PROVE  WindowInv' /\ SpentInv' /\ OnceInv'
  BY DEF WindowInv, SpentInv, OnceInv, Admitted, NonceTypeOK, Unseen

LEMMA ContinueSame ==
    ASSUME NEW c \in PeerCalls, Continue(c) PROVE UNCHANGED call
  BY DEF Continue, PeerRefreshSucceeds, PeerRefreshFails, ConsentWithGrant, ConsentAsksAgain,
     PeerApprove, PeerDeny, PeerTimeOut, PluginSucceeds, PluginFails, Run, Refuse

LEMMA LocalSame ==
    ASSUME FedIInv, NEW c \in Calls \ PeerCalls, Handler(c)
    PROVE  \A d \in PeerCalls : call'[d] = call[d]
<1>0. call \in [Calls -> Keys \cup {NoKey}] /\ \A d \in PeerCalls : d \in Calls /\ d # c
  BY PeerCallsAssumption DEF FedIInv, Shape
<1>1. UNCHANGED call \/ \E k : call' = [call EXCEPT ![c] = k]
  BY DEF Handler, CallUnknownTool, CallWithGrant, CallAsks, Approve, Deny, TimeOut, RefreshSucceeds,
     RefreshFails, PluginSucceeds, PluginFails, Refuse, UseToken
<1> QED
  BY <1>0, <1>1

\* The checks: the row that is written, and what an admitted request shows.
LEMMA CheckedStep ==
    ASSUME FedIInv, WindowInv, SpentInv, OnceInv, NEW c \in PeerCalls, NEW r \in DOMAIN signed,
           Bounce(c, r) \/ Admit(c, r)
    PROVE  WindowInv' /\ SpentInv' /\ OnceInv'
<1>0. c \in Calls /\ Shape /\ BackedInv(c) /\ r \in RequestIds /\ pc[c] = "idle"
  BY PeerCallsAssumption DEF FedIInv, PeerInv, Shape, Bounce, Admit, Checked
<1>1. call[c] = NoKey /\ NoKey \notin Keys
  BY <1>0, Constants DEF BackedInv
<1>2. /\ UNCHANGED <<skew, signed>> /\ msg' = [msg EXCEPT ![c] = r]
      /\ RecordNonce(r) \/ UNCHANGED seen
  BY DEF Bounce, Admit, Checked
<1>3. \A d \in PeerCalls : d # c => call'[d] = call[d] /\ msg'[d] = msg[d]
  BY <1>0, <1>2, PeerCallsAssumption DEF Bounce, Admit, Shape
<1>4. /\ \A q \in RequestIds : q # r => seen'[q] = seen[q]
      /\ seen'[r] = seen[r] \/ (seen[r] = Unseen /\ seen'[r] = 0)
      /\ NonceTypeOK'
  BY <1>0, <1>2, NonceTTLAssumption DEF RecordNonce, WindowInv, NonceTypeOK, Unseen
<1>5. WindowInv'
  <2>1. /\ skew \in [DOMAIN signed -> Int] /\ seen[r] \in 0 .. Unseen
        /\ skew[r] + NonceTTL > MaxSkew /\ \A q \in RequestIds \ DOMAIN signed : seen[q] = Unseen
        /\ \A q \in DOMAIN signed : skew[q] + NonceTTL > MaxSkew
        /\ \A q \in DOMAIN signed : seen[q] # Unseen => skew[q] + NonceTTL > MaxSkew + seen[q]
    BY <1>0 DEF WindowInv, NonceTypeOK
  <2>2. seen'[r] # Unseen => skew[r] + NonceTTL > MaxSkew + seen'[r]
    BY <1>4, <2>1, ClockAssumption
  <2>3. \A q \in DOMAIN signed : seen'[q] # Unseen => skew[q] + NonceTTL > MaxSkew + seen'[q]
    BY <1>0, <1>4, <2>1, <2>2 DEF Shape
  <2>4. \A q \in RequestIds \ DOMAIN signed : seen'[q] = Unseen
    BY <1>4, <2>1
  <2> QED
    BY <1>2, <1>4, <2>1, <2>3, <2>4 DEF WindowInv, Unseen
\* The other calls keep their requests, whose rows do not get older.
<1>6. ASSUME NEW d \in PeerCalls, d # c, Admitted(d)'
      PROVE  /\ Admitted(d) /\ msg'[d] = msg[d] /\ msg[d] \in DOMAIN signed
             /\ skew'[msg[d]] > MaxSkew \/ seen'[msg[d]] < NonceTTL
  <2>1. Admitted(d) /\ msg'[d] = msg[d]
    BY <1>3, <1>6 DEF Admitted
  <2>2. msg[d] \in DOMAIN signed /\ msg[d] \in RequestIds
    BY <1>0, <2>1 DEF FedIInv, PeerInv, BackedInv, Admitted, Shape
  <2>3. skew[msg[d]] > MaxSkew \/ seen[msg[d]] < NonceTTL
    BY <2>1 DEF SpentInv
  <2>4. seen[msg[d]] < NonceTTL => seen'[msg[d]] < NonceTTL
    BY <1>4, <2>2, NonceTTLAssumption DEF Unseen
  <2> QED
    BY <1>2, <2>1, <2>2, <2>3, <2>4
<1>7. CASE Bounce(c, r)
  <2>1. ~Admitted(c)'
    BY <1>1, <1>7 DEF Bounce, Admitted
  <2>2. SpentInv'
    BY <1>6, <2>1 DEF SpentInv, Admitted
  <2>3. OnceInv'
    BY <1>6, <2>1 DEF OnceInv, Admitted
  <2> QED
    BY <1>5, <2>2, <2>3
<1>8. CASE Admit(c, r)
  <2>1. /\ ~(skew[r] > MaxSkew) /\ ~(seen[r] < NonceTTL)
    BY <1>8 DEF Admit, Verdict, SeenRecently
  \* A row as old as the window would not be replaced, but then the request is
  \* too old.
  <2>2. seen[r] = Unseen
    BY <1>0, <2>1, NonceTTLAssumption, ClockAssumption DEF WindowInv, NonceTypeOK, Unseen
  <2>3. RecordNonce(r)
    BY <1>8 DEF Admit, Checked, Recorded
  <2>4. seen'[r] = 0 /\ msg'[c] = r
    BY <1>0, <1>2, <2>2, <2>3 DEF RecordNonce, WindowInv, NonceTypeOK, Shape
  <2>5. \A d \in PeerCalls : d # c /\ Admitted(d)' => msg'[d] # r
    BY <1>3, <2>1 DEF SpentInv, Admitted
  <2>6. 0 < NonceTTL
    BY <1>0, <2>1, NonceTTLAssumption, ClockAssumption DEF WindowInv
  <2>7. SpentInv'
    BY <1>6, <2>4, <2>6 DEF SpentInv, Admitted
  <2>8. OnceInv'
    BY <1>6, <2>4, <2>5 DEF OnceInv, Admitted
  <2> QED
    BY <1>5, <2>7, <2>8
<1> QED
  BY <1>7, <1>8

LEMMA SignStep ==
    ASSUME Margin, FedIInv, WindowInv, SpentInv, OnceInv,
           NEW r \in RequestIds, NEW m, NEW e \in ClockErrors, Sign(r, m, e)
    PROVE  WindowInv' /\ SpentInv' /\ OnceInv'
<1>1. /\ DOMAIN signed' = DOMAIN signed \cup {r} /\ r \notin DOMAIN signed
      /\ skew'[r] = e /\ (\A q \in DOMAIN signed : skew'[q] = skew[q])
      /\ skew' \in [DOMAIN signed' -> Int]
      /\ UNCHANGED <<seen, msg, call>>
  BY ClockAssumption DEF Sign, WindowInv, vars, callVars
<1>2. e + NonceTTL > MaxSkew /\ seen[r] = Unseen
  BY <1>1 DEF Margin, WindowInv
<1>3. WindowInv'
  BY <1>1, <1>2 DEF WindowInv, NonceTypeOK, Unseen
<1>4. SpentInv'
  BY <1>1 DEF SpentInv, Admitted, FedIInv, PeerInv, BackedInv
<1>5. OnceInv'
  BY <1>1 DEF OnceInv, Admitted
<1> QED
  BY <1>3, <1>4, <1>5

\* The clock: when a row comes to the window's end, its request comes to its
\* own.
LEMMA AgeStep ==
    ASSUME FedIInv, WindowInv, SpentInv, OnceInv, Tick, AgeFederation
    PROVE  WindowInv' /\ SpentInv' /\ OnceInv'
<1>0. Shape /\ UNCHANGED <<signed, msg, call>>
  BY DEF FedIInv, Tick, AgeFederation, callVars
<1>1. \A r \in DOMAIN signed : skew'[r] = IF skew[r] = TooOld THEN TooOld ELSE skew[r] + 1
  BY DEF AgeFederation
<1>2. \A r \in RequestIds : seen'[r] = IF seen[r] = Unseen THEN Unseen ELSE seen[r] + 1
  BY DEF AgeFederation, AgeNonces
<1>3. skew' \in [DOMAIN signed' -> Int]
  BY <1>0, ClockAssumption DEF AgeFederation, WindowInv, TooOld
<1>4. NonceTypeOK'
  <2>1. \A r \in RequestIds : seen[r] \in 0 .. Unseen
    BY DEF WindowInv, NonceTypeOK
  <2>2. \A r \in RequestIds : (IF seen[r] = Unseen THEN Unseen ELSE seen[r] + 1) \in 0 .. Unseen
    BY <2>1, NonceTTLAssumption DEF Unseen
  <2> QED
    BY <2>2 DEF AgeFederation, AgeNonces, NonceTypeOK
<1>5. ASSUME NEW r \in DOMAIN signed
      PROVE  /\ skew'[r] + NonceTTL > MaxSkew
             /\ seen'[r] # Unseen => skew'[r] + NonceTTL > MaxSkew + seen'[r]
             /\ (skew[r] > MaxSkew \/ seen[r] < NonceTTL)
                   => (skew'[r] > MaxSkew \/ seen'[r] < NonceTTL)
  <2>1. r \in RequestIds /\ skew[r] \in Int /\ seen[r] \in 0 .. Unseen
    BY <1>0 DEF Shape, WindowInv, NonceTypeOK
  <2>2. /\ skew[r] + NonceTTL > MaxSkew
        /\ seen[r] # Unseen => skew[r] + NonceTTL > MaxSkew + seen[r]
    BY DEF WindowInv
  <2> QED
    BY <1>1, <1>2, <2>1, <2>2, NonceTTLAssumption, ClockAssumption DEF TooOld, Unseen
<1>6. WindowInv'
  BY <1>0, <1>2, <1>3, <1>4, <1>5 DEF WindowInv, Unseen
<1>7. SpentInv'
  BY <1>0, <1>5 DEF SpentInv, Admitted, FedIInv, PeerInv, BackedInv
<1>8. OnceInv'
  BY <1>0 DEF OnceInv, Admitted
<1> QED
  BY <1>6, <1>7, <1>8

LEMMA ReplayStep ==
    ASSUME Margin, ReplayInv, [FedNext]_allVars
    PROVE  ReplayInv'
<1>0. FedIInv /\ WindowInv /\ SpentInv /\ OnceInv
  BY DEF ReplayInv
<1>1. FedIInv'
  BY <1>0, FedStep
<1>2. ASSUME NEW c \in PeerCalls, PeerHandler(c) PROVE WindowInv' /\ SpentInv' /\ OnceInv'
  <2>1. CASE \E r \in DOMAIN signed : Bounce(c, r) \/ Admit(c, r)
    BY <1>0, <2>1, CheckedStep
  <2>2. CASE Continue(c) /\ UNCHANGED fedVars
    BY <1>0, <2>2, ContinueSame, ElseSame DEF fedVars
  <2> QED
    BY <1>2, <2>1, <2>2 DEF PeerHandler
<1>3. ASSUME NEW c \in Calls \ PeerCalls, Handler(c), UNCHANGED fedVars
      PROVE  WindowInv' /\ SpentInv' /\ OnceInv'
  BY <1>0, <1>3, LocalSame, ElseSame DEF fedVars
<1>4. ASSUME Environment, UNCHANGED fedVars PROVE WindowInv' /\ SpentInv' /\ OnceInv'
  <2>1. UNCHANGED call
    BY <1>4 DEF Environment, LateAnswer, Register, PluginExits, TokenChanges, Revoke, PhoneConnects,
       PhoneDisconnects, UserTaps, BeginShutdown, StopServer, Refuse, Restart, callVars
  <2> QED
    BY <1>0, <1>4, <2>1, ElseSame DEF fedVars
<1>5. ASSUME Peering PROVE WindowInv' /\ SpentInv' /\ OnceInv'
  <2>1. CASE \E r \in RequestIds, m \in PeerRequests, e \in ClockErrors : Sign(r, m, e)
    BY <1>0, <2>1, SignStep
  <2>2. ASSUME NEW d, NEW p, NEW t, NEW n, CreateDelegation(d, p, t, n) \/ RevokeDelegation(d)
        PROVE  WindowInv' /\ SpentInv' /\ OnceInv'
    BY <1>0, <2>2, ElseSame DEF CreateDelegation, RevokeDelegation, vars, callVars
  <2> QED
    BY <1>5, <2>1, <2>2 DEF Peering
<1>6. ASSUME Tick, AgeFederation PROVE WindowInv' /\ SpentInv' /\ OnceInv'
  BY <1>0, <1>6, AgeStep
<1>7. ASSUME FedCrash \/ FedExit PROVE WindowInv' /\ SpentInv' /\ OnceInv'
  BY <1>0, <1>7, ElseSame DEF FedCrash, Crash, FedExit, Exit, callVars
<1>8. ASSUME UNCHANGED allVars PROVE WindowInv' /\ SpentInv' /\ OnceInv'
  BY <1>0, <1>8, ElseSame DEF allVars, vars, callVars, fedVars
<1>9. WindowInv' /\ SpentInv' /\ OnceInv'
  BY <1>2, <1>3, <1>4, <1>5, <1>6, <1>7, <1>8 DEF FedNext
<1> QED
  BY <1>1, <1>9 DEF ReplayInv

\* A signed request runs at most once if peers' clocks are ahead by less than
\* the replay window is longer than the tolerated skew.
THEOREM ReplayTheorem == ASSUME Margin PROVE FedSpec => []RunsAtMostOnce
<1>1. FedInit => ReplayInv
  BY ReplayInit
<1>2. ReplayInv /\ [FedNext]_allVars => ReplayInv'
  BY ReplayStep
<1>3. ReplayInv => RunsAtMostOnce
  <2> SUFFICES ASSUME ReplayInv, NEW c \in PeerRuns, NEW d \in PeerRuns, msg[c] = msg[d]
               PROVE  c = d
    BY DEF RunsAtMostOnce
  <2>1. \A e \in PeerRuns : e \in PeerCalls /\ Admitted(e)
    BY Constants DEF PeerRuns, ReplayInv, FedIInv, PeerInv, HeldInv, Admitted
  <2> QED
    BY <2>1 DEF ReplayInv, OnceInv
<1> QED
  BY <1>1, <1>2, <1>3, PTL DEF FedSpec
=============================================================================
