---------------------------- MODULE HubPairProofs ----------------------------
(***************************************************************************)
(* Two hubs' logs of a call do not contradict each other, and a call is    *)
(* made on a delegation that lasts at least as long as the listed one, for *)
(* any calls, delegations and lifetimes.                                   *)
(*                                                                         *)
(* BooksAgree does not say why an answer that is written down late still   *)
(* fits: PairIInv ties B's handler to its row, and both to whether A was   *)
(* ever sent the request.                                                  *)
(***************************************************************************)
EXTENDS HubPair, TLAPS

USE DelegTTLAssumption, MagicDnsAssumption

\* B's row is written when its handler ends; a request A may act on was sent.
HandlerInv(c) ==
    /\ book[c] # "none" => ask[c] = "answered"
    /\ agent[c] = "idle" => ask[c] = "idle"
    /\ ask[c] = "idle" => using[c] = NoDelegation
    /\ using[c] = NoDelegation => far[c] = "none"

\* What the row says is so, and for good.
RowInv(c) ==
    /\ book[c] = "federated_ok" => far[c] = "ran"
    /\ book[c] = "federated_denied" => far[c] = "denied" \/ using[c] = NoDelegation

\* The MCP server's list names an imported delegation.
ListInv == listed \in {NoDelegation} \cup DOMAIN received

PairIInv ==
    /\ PairTypeOK
    /\ \A c \in Asks : HandlerInv(c) /\ RowInv(c)
    /\ ListInv

-----------------------------------------------------------------------------
\* The types, and with them everything else, hold at first.
LEMMA PairInvInit == PairInit => PairIInv
BY DEF PairInit, PairIInv, PairTypeOK, HandlerInv, RowInv, ListInv, NoDelegation, Hubs,
       Identities, AgentStages, AskStages, BookEntries, FarStages

\* What every step of the call leaves alone, it leaves as it was.
LEMMA CommandTypes ==
    ASSUME PairTypeOK, UNCHANGED calling,
           identity' \in [Hubs -> Identities],
           DOMAIN issued' \subseteq DelegIds, issued' \in [DOMAIN issued' -> IssuedRows],
           DOMAIN received' \subseteq DOMAIN issued',
           received' \in [DOMAIN received' -> PeerUrls]
    PROVE  PairTypeOK'
BY DEF PairTypeOK, calling

\* The command line keeps the types of both hubs' tables.
LEMMA CommandStep ==
    ASSUME PairTypeOK,
           \/ \E h \in Hubs, s \in {"sealed", "foreign"} : InitIdentity(h, s)
           \/ \E d \in DelegIds, p \in Subjects, n \in 1 .. DelegTTL, t \in Texts,
                v \in {"cli", "http"} : Issue(d, p, n, t, v)
           \/ \E d \in DelegIds : Accept(d) \/ RevokeIssued(d)
           \/ PairTick
    PROVE  /\ PairTypeOK'
           /\ UNCHANGED calling
           /\ DOMAIN received \subseteq DOMAIN received'
<1>1. ASSUME NEW h \in Hubs, NEW s \in {"sealed", "foreign"}, InitIdentity(h, s)
      PROVE  PairTypeOK' /\ UNCHANGED <<calling, received>>
  <2>1. identity' \in [Hubs -> Identities]
    BY <1>1 DEF InitIdentity, Saves, PairTypeOK, Identities
  <2> QED BY <1>1, <2>1, CommandTypes DEF InitIdentity, Saves, PairTypeOK
<1>2. ASSUME NEW d \in DelegIds, NEW p \in Subjects, NEW n \in 1 .. DelegTTL,
             NEW t \in Texts, NEW v \in {"cli", "http"}, Issue(d, p, n, t, v)
      PROVE  PairTypeOK' /\ UNCHANGED <<calling, received>>
  <2> DEFINE row == [subject |-> p, ttl |-> n, text |-> t, revoked |-> FALSE, url |-> BlobUrl(v)]
  <2>1. row \in IssuedRows
    BY DEF IssuedRows, BlobUrl, PeerUrls
  <2>2. issued' = [e \in DOMAIN issued \cup {d} |-> IF e = d THEN row ELSE issued[e]]
    BY <1>2 DEF Issue
  <2>3. DOMAIN issued' = DOMAIN issued \cup {d}
    BY <2>2
  <2>4. issued' \in [DOMAIN issued' -> IssuedRows]
    BY <2>1, <2>2, <2>3 DEF PairTypeOK
  <2> QED BY <1>2, <2>3, <2>4, CommandTypes DEF Issue, PairTypeOK
<1>3. ASSUME NEW d \in DelegIds, Accept(d)
      PROVE  PairTypeOK' /\ UNCHANGED calling /\ DOMAIN received \subseteq DOMAIN received'
  <2>1. issued[d].url \in PeerUrls /\ d \in DOMAIN issued
    BY <1>3 DEF Accept, Signed, PairTypeOK, IssuedRows
  <2>2. /\ DOMAIN received' = DOMAIN received \cup {d}
        /\ received' \in [DOMAIN received' -> PeerUrls]
    BY <1>3, <2>1 DEF Accept, Imports, PairTypeOK
  <2> QED BY <1>3, <2>1, <2>2, CommandTypes DEF Accept, Imports, PairTypeOK
<1>4. ASSUME NEW d \in DelegIds, RevokeIssued(d)
      PROVE  PairTypeOK' /\ UNCHANGED <<calling, received>>
  <2>1. /\ DOMAIN issued' = DOMAIN issued
        /\ issued' \in [DOMAIN issued' -> IssuedRows]
    BY <1>4 DEF RevokeIssued, PairTypeOK, IssuedRows
  <2> QED BY <1>4, <2>1, CommandTypes DEF RevokeIssued, PairTypeOK
<1>5. CASE PairTick
  <2> DEFINE older(d) == [issued[d] EXCEPT !.ttl = Sooner(@),
                                           !.text = IF @ = AfterAll THEN @ ELSE Sooner(@)]
  <2>1. issued' = [d \in DOMAIN issued |-> older(d)]
    BY <1>5 DEF PairTick
  <2>2. ASSUME NEW d \in DOMAIN issued PROVE older(d) \in IssuedRows
    <3>1. issued[d] \in IssuedRows
      BY DEF PairTypeOK
    <3> DEFINE t == IF issued[d].text = AfterAll THEN AfterAll ELSE Sooner(issued[d].text)
    <3>2. Sooner(issued[d].ttl) \in 0 .. DelegTTL /\ t \in Texts
      BY <3>1 DEF IssuedRows, Texts, AfterAll, Sooner
    <3>3. older(d) = [issued[d] EXCEPT !.ttl = Sooner(issued[d].ttl), !.text = t]
      OBVIOUS
    <3> QED BY <3>1, <3>2, <3>3 DEF IssuedRows
  <2>3. DOMAIN issued' = DOMAIN issued
    BY <2>1
  <2>4. issued' \in [DOMAIN issued' -> IssuedRows]
    BY <2>1, <2>2, <2>3
  <2> QED BY <1>5, <2>3, <2>4, CommandTypes DEF PairTick, PairTypeOK
<1> QED BY <1>1, <1>2, <1>3, <1>4, <1>5

\* The rest of the types are kept as well.
LEMMA PairTypeStep == PairIInv /\ [PairNext]_pairVars => PairTypeOK'
<1> SUFFICES ASSUME PairIInv, [PairNext]_pairVars PROVE PairTypeOK'
  OBVIOUS
<1> USE DEF PairIInv
<1>1. CASE McpStarts
  BY <1>1 DEF McpStarts, PairTypeOK
<1>2. ASSUME NEW c \in Asks, InvokeRefuses(c) \/ InvokeSends(c) PROVE PairTypeOK'
  <2>1. DOMAIN received \subseteq DelegIds
    BY DEF PairTypeOK
  <2>2. InvokeSends(c) => using' \in [Asks -> DelegIds \cup {NoDelegation}]
    BY <2>1 DEF InvokeSends, LatestExpiring, PairTypeOK
  <2> QED
    BY <1>2, <2>2
    DEF InvokeRefuses, InvokeSends, AgentCalls, PairTypeOK, AgentStages, AskStages, BookEntries
<1>3. ASSUME NEW c \in Asks, FarReceives(c) \/ FarDecides(c) \/ FarFinishes(c) PROVE PairTypeOK'
  BY <1>3 DEF FarReceives, FarDecides, FarFinishes, PairTypeOK, FarStages
<1>4. ASSUME NEW c \in Asks,
             AnswerReturns(c) \/ BodyBreaksOff(c) \/ UpstreamFails(c) \/ AgentGivesUp(c)
      PROVE  PairTypeOK'
  <2>1. Classify(far[c]) \in BookEntries
    BY DEF Classify, BookEntries
  <2> QED
    BY <1>4, <2>1
    DEF AnswerReturns, BodyBreaksOff, UpstreamFails, AgentGivesUp, Tell, PairTypeOK,
        AgentStages, AskStages, BookEntries
<1>5. CASE FarCrash
  BY <1>5 DEF FarCrash, PairTypeOK, FarStages
<1>6. CASE NearCrash
  BY <1>6 DEF NearCrash, PairTypeOK, AskStages, AgentStages
<1>7. CASE UNCHANGED pairVars
  BY <1>7 DEF pairVars, PairTypeOK
<1> QED BY <1>1, <1>2, <1>3, <1>4, <1>5, <1>6, <1>7, CommandStep DEF PairNext

\* Rows stay true, whatever arrives late and whoever crashes.
LEMMA PairInvStep == PairIInv /\ [PairNext]_pairVars => PairIInv'
<1> SUFFICES ASSUME PairIInv, [PairNext]_pairVars PROVE PairIInv'
  OBVIOUS
<1> USE DEF PairIInv
<1>0. PairTypeOK'
  BY PairTypeStep
\* What leaves calls and the list alone.
<1>1. ASSUME UNCHANGED calling, DOMAIN received \subseteq DOMAIN received' PROVE PairIInv'
  BY <1>0, <1>1 DEF calling, HandlerInv, RowInv, ListInv
<1>2. CASE McpStarts
  BY <1>0, <1>2 DEF McpStarts, HandlerInv, RowInv, ListInv
<1>3. ASSUME NEW c \in Asks, InvokeRefuses(c) PROVE PairIInv'
  <2>1. ask[c] = "idle" /\ using[c] = NoDelegation
    BY <1>3 DEF InvokeRefuses, HandlerInv
  <2> QED
    BY <1>0, <1>3, <2>1 DEF InvokeRefuses, HandlerInv, RowInv, ListInv, PairTypeOK
<1>4. ASSUME NEW c \in Asks, InvokeSends(c) PROVE PairIInv'
  <2>1. ask[c] = "idle" /\ using[c] = NoDelegation /\ book[c] = "none" /\ far[c] = "none"
    BY <1>4 DEF InvokeSends, AgentCalls, HandlerInv
  <2> QED
    BY <1>0, <1>4, <2>1 DEF InvokeSends, AgentCalls, HandlerInv, RowInv, ListInv, PairTypeOK
<1>5. ASSUME NEW c \in Asks, FarReceives(c) \/ FarDecides(c) \/ FarFinishes(c) PROVE PairIInv'
  BY <1>0, <1>5
  DEF FarReceives, FarDecides, FarFinishes, HandlerInv, RowInv, ListInv, PairTypeOK
<1>6. ASSUME NEW c \in Asks, AnswerReturns(c) PROVE PairIInv'
  <2>1. /\ Classify(far[c]) = "federated_ok" => far[c] = "ran"
        /\ Classify(far[c]) = "federated_denied" => far[c] = "denied"
    BY DEF Classify
  <2>2. agent'[c] # "idle"
    BY <1>6 DEF AnswerReturns, Tell, HandlerInv, PairTypeOK
  <2> QED
    BY <1>0, <1>6, <2>1, <2>2 DEF AnswerReturns, Tell, HandlerInv, RowInv, ListInv, PairTypeOK
<1>7. ASSUME NEW c \in Asks, BodyBreaksOff(c) \/ UpstreamFails(c) \/ AgentGivesUp(c)
      PROVE  PairIInv'
  BY <1>0, <1>7
  DEF BodyBreaksOff, UpstreamFails, AgentGivesUp, Tell, HandlerInv, RowInv, ListInv, PairTypeOK
<1>8. CASE FarCrash \/ NearCrash
  BY <1>0, <1>8 DEF FarCrash, NearCrash, HandlerInv, RowInv, ListInv, PairTypeOK
<1>9. CASE UNCHANGED pairVars
  BY <1>9, <1>1 DEF pairVars, calling
<1> QED
  BY <1>1, <1>2, <1>3, <1>4, <1>5, <1>6, <1>7, <1>8, <1>9, CommandStep DEF PairNext

-----------------------------------------------------------------------------
\* Types, rows and the list hold of every behaviour of the two hubs.
THEOREM PairInductive == PairSpec => []PairIInv
BY PairInvInit, PairInvStep, PTL DEF PairSpec

\* The two hubs' logs never contradict each other.
THEOREM BooksTheorem == PairSpec => []BooksAgree
<1>1. PairIInv => BooksAgree
  BY DEF PairIInv, HandlerInv, RowInv, BooksAgree, PairTypeOK, BookEntries
<1> QED BY <1>1, PairInductive, PTL

\* A call is made on the delegation it was listed with, or on one written later,
\* which lasts at least as long where expiries are written in the usual form.
THEOREM ListedTheorem == PairSpec => CallsOnListed
<1>1. ASSUME PairIInv, NEW c \in Asks, InvokeSends(c) PROVE NotBefore(c)
  <2>1. listed \in DOMAIN received
    BY <1>1 DEF InvokeSends, AgentCalls, PairIInv, ListInv
  <2>2. PICK d \in LatestExpiring : using' = [using EXCEPT ![c] = d]
    BY <1>1 DEF InvokeSends
  <2>3. using'[c] = d /\ d \in DOMAIN received
    BY <1>1, <2>2 DEF PairIInv, PairTypeOK, LatestExpiring
  <2>4. issued[listed].text <= issued[d].text
    BY <2>1, <2>2 DEF LatestExpiring, WrittenLast
  <2>5. issued[listed].text \in Nat /\ issued[d].text \in Nat
    BY <1>1, <2>1, <2>3 DEF PairIInv, PairTypeOK, IssuedRows, Texts, AfterAll
  <2>6. Canonical => issued[listed].ttl = issued[listed].text /\ issued[d].ttl = issued[d].text
    BY <2>1, <2>3 DEF Canonical
  <2> QED BY <2>3, <2>4, <2>5, <2>6 DEF NotBefore
<1>2. PairIInv /\ [PairNext]_pairVars => [\A c \in Asks : InvokeSends(c) => NotBefore(c)]_pairVars
  BY <1>1
<1> QED BY <1>2, PairInductive, PTL DEF PairSpec, CallsOnListed
=============================================================================
