-------------------------- MODULE MCFederationCall --------------------------
(***************************************************************************)
(* Instances of FederationCall for TLC.                                    *)
(***************************************************************************)
EXTENDS FederationCall, TLC

\* The delegation dialog waits twice as long as the grant dialog.
MCApprovalTimeout == [d \in Dialogs |-> IF d = "delegation" THEN 2 ELSE 1]

\* Clocks that agree; a peer's that may be behind, as far as is tolerated; one
\* whose clock is as far ahead as is tolerated.
ClocksAgree == {0}
PeerBehind == {0, MaxSkew}
PeerAhead == {-MaxSkew}

\* Either one request, over a delegation that outlives the replay window, or
\* two, of at most a tick's age, over one that is about to expire.
OneOrBrief ==
    Cardinality(DOMAIN signed) > 1 =>
        /\ \A d \in DOMAIN granted : granted[d].ttl <= 1
        /\ \A r \in DOMAIN signed : skew[r] \in {0, 1}

\* Either two deliveries, or one of one request beside a call of the hub's own, over a
\* delegation that does not outlive the grants.
LocalOrTwice ==
    (\E c \in Calls \ PeerCalls : pc[c] # "idle") =>
        /\ \E c \in PeerCalls : pc[c] = "idle"
        /\ Cardinality(DOMAIN signed) <= 1
        /\ \A d \in DOMAIN granted : granted[d].ttl <= GrantTTL

Instances == OneOrBrief /\ LocalOrTwice

Symmetry ==
    Permutations(PeerCalls) \cup Permutations(GrantIds) \cup Permutations(RequestIds)
=============================================================================
