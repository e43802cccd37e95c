---------------------------- MODULE ApproversProofs ----------------------------
(***************************************************************************)
(* Proofs about Approvers, for any calls, dialogs and time budgets: that   *)
(* the app and the page are, to the hub, phones of ApprovalStream.         *)
(*                                                                         *)
(* The stream's cards are mapped to what was broadcast to a client and not *)
(* answered by it.  Two facts about the clients are needed: what a client  *)
(* shows or has shown was broadcast (Broadcast), so that nothing of it is  *)
(* asked for again under the same id; and answers under way belong to      *)
(* sockets that the hub has (Sockets), so that a link that dies without    *)
(* one changes nothing.                                                    *)
(***************************************************************************)
EXTENDS MCPluginsApprovers, PluginHostProofs, TLAPS

USE ApproversAssumption

\* Asked for: requests the stream knows.
Asked == {r \in Requests : promise[r] # "none"}

Broadcast ==
    /\ \A c \in Clients : /\ inbox[c] \subseteq Asked /\ list[c] \subseteq Asked
                          /\ offered[c] \subseteq Asked /\ tapped[c] \subseteq Asked
    /\ home \subseteq Asked
    /\ load # NoLoad => load \subseteq Asked

Sockets == \A m \in wire : m.from \in clients

\* The types, with those of the stream spelled out.
ApproversTypes ==
    /\ clients \subseteq Clients
    /\ promise \in [Requests -> Stream!PromiseStates]
    /\ timer \in [Requests -> Nat]
    /\ wire \subseteq Stream!Messages
    /\ consents \subseteq Requests
    /\ hub \in {"up", "down"} /\ network \in {"fine", "broken"}
    /\ link \in [Clients -> Links]
    /\ inbox \in [Clients -> SUBSET Requests]
    /\ list \in [Clients -> SUBSET Requests]
    /\ age \in [Requests -> 0 .. PageTimeout]
    /\ home \subseteq Requests
    /\ load \in (SUBSET Requests) \cup {NoLoad}
    /\ offered \in [Clients -> SUBSET Requests]
    /\ tapped \in [Clients -> SUBSET Requests]
    /\ expired \subseteq Requests /\ deaf \subseteq Clients

ApproversIInv == ApproversTypes /\ Broadcast /\ Sockets

-----------------------------------------------------------------------------

LEMMA TypesSpelledOut == ApproversTypes <=> ApproversTypeOK
<1>1. Stream!Requests = Requests
  BY DEF Stream!Requests, Requests
<1>2. ApproversTypes => Cards \in [Clients -> SUBSET Requests]
  BY DEF ApproversTypes, Cards
<1> QED BY <1>1, <1>2 DEF ApproversTypes, ApproversTypeOK, Stream!StreamTypeOK

LEMMA Budgets ==
    /\ PageTimeout \in Nat /\ "grant" \in Dialogs
    /\ \A r \in Requests : ApprovalTimeout[r[2]] \in Nat
BY DEF Requests

LEMMA ApproversInvInit == ApproversInit => ApproversIInv
BY Budgets
DEF ApproversInit, ApproversIInv, ApproversTypes, Broadcast, Sockets, Links, Stream!PromiseStates

\* An answer is a message of its client, or nothing is sent.
LEMMA AnswerSent ==
    ASSUME ApproversTypes, NEW c \in Clients, NEW r \in Requests, NEW d \in Decisions,
           Answers(c, r, d)
    PROVE  /\ wire' \subseteq Stream!Messages
           /\ \A m \in wire' : m \in wire \/ (m.from = c /\ c \in clients)
           /\ list' \in [Clients -> SUBSET Requests] /\ tapped' \in [Clients -> SUBSET Requests]
           /\ \A b \in Clients : list'[b] \subseteq list[b] /\ tapped'[b] \subseteq tapped[b] \cup {r}
<1> DEFINE m == [from |-> c, request |-> r, decision |-> d]
<1>1. m \in Stream!Messages /\ m.from = c
  BY DEF Stream!Messages, Stream!Requests, Stream!Decisions, Requests, Decisions
<1>2. wire' \in {wire, wire \cup {m}} /\ (wire' # wire => c \in clients)
  BY DEF Answers
<1> HIDE DEF m
<1>3. /\ list' \in [Clients -> SUBSET Requests] /\ tapped' \in [Clients -> SUBSET Requests]
      /\ \A b \in Clients : list'[b] \subseteq list[b] /\ tapped'[b] \subseteq tapped[b] \cup {r}
  BY DEF Answers, ApproversTypes
<1> QED BY <1>1, <1>2, <1>3 DEF ApproversTypes

\* The types are kept by every step.
LEMMA ApproversTypeStep ==
    ApproversTypes /\ [ApproversNext]_approverVars => ApproversTypes'
<1> SUFFICES ASSUME ApproversTypes, [ApproversNext]_approverVars PROVE ApproversTypes'
  OBVIOUS
<1> USE DEF hubVars, appVars, sightVars, answerVars
<1>s. Decisions \subseteq Stream!PromiseStates /\ {"pending", "timeout", "closed"} \subseteq Stream!PromiseStates
  BY DEF Decisions, Stream!PromiseStates
<1>1. ASSUME NEW r \in Requests, Broadcasts(r) PROVE ApproversTypes'
  <2>1. timer' \in [Requests -> Nat] /\ promise' \in [Requests -> Stream!PromiseStates]
    BY <1>1, <1>s, Budgets DEF Broadcasts, ApproversTypes
  <2>2. inbox' \in [Clients -> SUBSET Requests] /\ offered' \in [Clients -> SUBSET Requests]
    BY <1>1 DEF Broadcasts, ApproversTypes
  <2> QED BY <1>1, <2>1, <2>2 DEF Broadcasts, ApproversTypes
<1>2. ASSUME NEW m \in wire, HubHears(m) PROVE ApproversTypes'
  <2>1. m.request \in Requests /\ m.decision \in Decisions
    BY DEF ApproversTypes, Stream!Messages, Stream!Requests, Stream!Decisions, Requests, Decisions
  <2>2. timer' \in [Requests -> Nat] /\ promise' \in [Requests -> Stream!PromiseStates]
    BY <1>2, <1>s, <2>1 DEF HubHears, ApproversTypes
  <2> QED BY <1>2, <2>2 DEF HubHears, ApproversTypes
<1>3. ASSUME NEW r \in Requests, HubTimesOut(r) PROVE ApproversTypes'
  BY <1>3, <1>s DEF HubTimesOut, ApproversTypes
<1>4. CASE HubEnds
  BY <1>4, <1>s DEF HubEnds, ApproversTypes
<1>5. CASE HubReturns \/ NetworkChanges
  BY <1>5 DEF HubReturns, NetworkChanges, ApproversTypes
<1>6. ASSUME NEW c \in Clients, Accepts(c) \/ HubDrops(c) \/ DiesSilently(c) PROVE ApproversTypes'
  BY <1>6 DEF Accepts, HubDrops, DiesSilently, ApproversTypes
<1>7. ASSUME NEW c \in Clients, Opened(c) \/ LinkLost(c) \/ Dials(c) PROVE ApproversTypes'
  BY <1>7 DEF Opened, LinkLost, Dials, Links, ApproversTypes
<1>8. CASE PageLeaves \/ PageMounts
  BY <1>8 DEF PageLeaves, PageMounts, Links, ApproversTypes, Clients
<1>9. ASSUME NEW c \in Clients, NEW r \in inbox[c], Lists(c, r) PROVE ApproversTypes'
  <2>1. r \in Requests /\ App \in Clients
    BY DEF ApproversTypes, Clients
  <2>2. /\ list' \in [Clients -> SUBSET Requests] /\ inbox' \in [Clients -> SUBSET Requests]
        /\ age' \in [Requests -> 0 .. PageTimeout]
    BY <1>9, <2>1, Budgets DEF Lists, ApproversTypes
  <2>3. home' \subseteq Requests
    BY <1>9, <2>1, <2>2 DEF Lists, ApproversTypes
  <2> QED BY <1>9, <2>2, <2>3 DEF Lists, ApproversTypes
<1>10. CASE LoadBegins \/ LoadReturns \/ LoadFails
  BY <1>10 DEF LoadBegins, LoadReturns, LoadFails, ApproversTypes
<1>11. ASSUME NEW r \in Requests, NEW d \in Decisions, AppAnswers(r, d) PROVE ApproversTypes'
  <2>1. App \in Clients
    BY DEF Clients
  <2>2. /\ wire' \subseteq Stream!Messages /\ list' \in [Clients -> SUBSET Requests]
        /\ tapped' \in [Clients -> SUBSET Requests]
    BY <1>11, <2>1, AnswerSent DEF AppAnswers
  <2>3. home' \subseteq Requests
    BY <1>11, <2>1, <2>2 DEF AppAnswers, ApproversTypes
  <2> QED BY <1>11, <2>2, <2>3 DEF AppAnswers, ApproversTypes
<1>12. ASSUME NEW r \in Requests, (\E d \in Decisions : PageAnswers(r, d)) \/ PageExpires(r)
       PROVE  ApproversTypes'
  <2>1. PICK d \in Decisions : Answers(Page, r, d)
    BY <1>12 DEF PageAnswers, PageExpires, Decisions
  <2>2. /\ wire' \subseteq Stream!Messages /\ list' \in [Clients -> SUBSET Requests]
        /\ tapped' \in [Clients -> SUBSET Requests]
    BY <2>1, AnswerSent DEF Clients
  <2> QED BY <1>12, <2>2 DEF PageAnswers, PageExpires, ApproversTypes
<1>13. CASE Elapses
  <2>1. \A r \in Requests : timer[r] \in Nat /\ age[r] \in 0 .. PageTimeout
    BY DEF ApproversTypes
  <2>2. timer' \in [Requests -> Nat]
    BY <1>13, <2>1 DEF Elapses
  <2>3. age' \in [Requests -> 0 .. PageTimeout]
    BY <1>13, <2>1, Budgets DEF Elapses
  <2> QED BY <1>13, <2>2, <2>3 DEF Elapses, ApproversTypes
<1>14. CASE UNCHANGED approverVars
  BY <1>14 DEF approverVars, ApproversTypes
<1> QED BY <1>1, <1>2, <1>3, <1>4, <1>5, <1>6, <1>7, <1>8, <1>9, <1>10, <1>11, <1>12, <1>13, <1>14
        DEF ApproversNext
-----------------------------------------------------------------------------

\* What is shown was asked for, and stays so: a promise is settled, not unmade.
LEMMA StillAsked ==
    ASSUME ApproversIInv, ApproversTypes', Asked \subseteq Asked',
           \A c \in Clients :
               /\ inbox'[c] \subseteq inbox[c] \cup Asked' /\ list'[c] \subseteq list[c] \cup Asked'
               /\ offered'[c] \subseteq offered[c] \cup Asked' /\ tapped'[c] \subseteq tapped[c] \cup Asked',
           home' \subseteq Asked \/ home' = home,
           load' # NoLoad => load' = load \/ load' = home,
           \A m \in wire' : m.from \in clients'
    PROVE  ApproversIInv'
BY DEF ApproversIInv, Broadcast, Sockets

LEMMA AskedStays ==
    ASSUME \A r \in Requests : promise[r] # "none" => promise'[r] # "none"
    PROVE  Asked \subseteq Asked'
BY DEF Asked

LEMMA ApproversInvStep == ApproversIInv /\ [ApproversNext]_approverVars => ApproversIInv'
<1> SUFFICES ASSUME ApproversIInv, [ApproversNext]_approverVars PROVE ApproversIInv'
  OBVIOUS
<1> USE DEF hubVars, appVars, sightVars, answerVars
<1>t. ApproversTypes /\ ApproversTypes' /\ \A m \in wire : m.from \in clients
  BY ApproversTypeStep DEF ApproversIInv, Sockets
<1>b. /\ \A c \in Clients : inbox[c] \subseteq Asked /\ list[c] \subseteq Asked
      /\ home \subseteq Asked
  BY DEF ApproversIInv, Broadcast
<1>1. ASSUME NEW r \in Requests, Broadcasts(r) PROVE ApproversIInv'
  <2>1. promise'[r] = "pending" /\ \A s \in Requests \ {r} : promise'[s] = promise[s]
    BY <1>1, <1>t DEF Broadcasts, ApproversTypes
  <2>2. Asked \subseteq Asked' /\ r \in Asked'
    BY <2>1 DEF Asked
  <2>3. \A c \in Clients : inbox'[c] \subseteq inbox[c] \cup {r} /\ offered'[c] \subseteq offered[c] \cup {r}
    BY <1>1 DEF Broadcasts
  <2> QED BY <1>1, <1>t, <2>2, <2>3, StillAsked DEF Broadcasts
<1>2. ASSUME NEW m \in wire, HubHears(m) PROVE ApproversIInv'
  <2>1. m.decision \in Decisions
    BY <1>t DEF ApproversTypes, Stream!Messages, Stream!Decisions, Decisions
  <2>2. \A r \in Requests : promise[r] # "none" => promise'[r] # "none"
    BY <1>2, <1>t, <2>1 DEF HubHears, ApproversTypes, Decisions
  <2>3. \A n \in wire' : n.from \in clients'
    BY <1>2, <1>t DEF HubHears
  <2> QED BY <1>2, <1>t, <2>2, <2>3, AskedStays, StillAsked DEF HubHears
<1>3. ASSUME NEW r \in Requests, HubTimesOut(r) PROVE ApproversIInv'
  <2>1. \A s \in Requests : promise[s] # "none" => promise'[s] # "none"
    BY <1>3, <1>t DEF HubTimesOut, ApproversTypes
  <2> QED BY <1>3, <1>t, <2>1, AskedStays, StillAsked DEF HubTimesOut
<1>4. CASE HubEnds
  <2>1. \A s \in Requests : promise[s] # "none" => promise'[s] # "none"
    BY <1>4 DEF HubEnds
  <2> QED BY <1>4, <1>t, <2>1, AskedStays, StillAsked DEF HubEnds
<1>5. CASE HubReturns \/ NetworkChanges
  BY <1>5, <1>t, AskedStays, StillAsked DEF HubReturns, NetworkChanges
<1>6. ASSUME NEW c \in Clients, Accepts(c) \/ HubDrops(c) \/ DiesSilently(c) PROVE ApproversIInv'
  <2>1. \A m \in wire' : m.from \in clients'
    BY <1>6, <1>t DEF Accepts, HubDrops, DiesSilently
  <2>2. UNCHANGED <<promise, inbox, list, offered, tapped, home, load>>
    BY <1>6 DEF Accepts, HubDrops, DiesSilently
  <2> QED BY <1>t, <2>1, <2>2, AskedStays, StillAsked
<1>7. ASSUME NEW c \in Clients, Opened(c) \/ LinkLost(c) \/ Dials(c) PROVE ApproversIInv'
  <2>1. /\ \A b \in Clients : inbox'[b] \subseteq inbox[b]
        /\ UNCHANGED <<promise, list, offered, tapped, home, load, wire, clients>>
    BY <1>7, <1>t DEF Opened, LinkLost, Dials, ApproversTypes
  <2> QED BY <1>t, <2>1, AskedStays, StillAsked
<1>8. CASE PageLeaves \/ PageMounts
  <2>1. /\ \A b \in Clients : inbox'[b] \subseteq inbox[b] /\ list'[b] \subseteq list[b]
        /\ UNCHANGED <<promise, offered, tapped, home, load, wire, clients>>
    BY <1>8, <1>t DEF PageLeaves, PageMounts, ApproversTypes
  <2> QED BY <1>t, <2>1, AskedStays, StillAsked
<1>9. ASSUME NEW c \in Clients, NEW r \in inbox[c], Lists(c, r) PROVE ApproversIInv'
  <2>1. r \in Asked /\ App \in Clients
    BY <1>b DEF Clients
  <2>2. /\ \A b \in Clients : inbox'[b] \subseteq inbox[b] /\ list'[b] \subseteq list[b] \cup {r}
        /\ UNCHANGED <<promise, offered, tapped, load, wire, clients>>
    BY <1>9, <1>t DEF Lists, ApproversTypes
  <2>3. home' = home \/ home' \subseteq Asked
    BY <1>9, <1>b, <2>1, <2>2 DEF Lists
  <2>4. Asked' = Asked
    BY <2>2 DEF Asked
  <2> QED BY <1>t, <2>1, <2>2, <2>3, <2>4, StillAsked
<1>10. CASE LoadBegins \/ LoadReturns \/ LoadFails
  <2>1. home' = home \/ home' \subseteq Asked
    BY <1>10 DEF LoadBegins, LoadReturns, LoadFails, ApproversIInv, Broadcast
  <2>2. /\ UNCHANGED <<promise, inbox, list, offered, tapped, wire, clients>>
        /\ load' # NoLoad => load' = home
    BY <1>10 DEF LoadBegins, LoadReturns, LoadFails
  <2> QED BY <1>t, <2>1, <2>2, AskedStays, StillAsked
<1>11. ASSUME NEW c \in Clients, NEW r \in Asked, NEW d \in Decisions, Answers(c, r, d),
              home' = home \/ home' = list'[c],
              UNCHANGED <<promise, inbox, offered, load, clients>>
       PROVE  ApproversIInv'
  <2>1. r \in Requests /\ Asked' = Asked
    BY <1>11 DEF Asked
  <2>2. /\ \A m \in wire' : m \in wire \/ (m.from = c /\ c \in clients)
        /\ \A b \in Clients : list'[b] \subseteq list[b] /\ tapped'[b] \subseteq tapped[b] \cup {r}
    BY <1>11, <1>t, <2>1, AnswerSent
  <2>3. \A m \in wire' : m.from \in clients'
    BY <1>11, <1>t, <2>2
  <2>4. home' = home \/ home' \subseteq Asked
    BY <1>11, <1>b, <2>2
  <2> QED BY <1>11, <1>t, <2>1, <2>2, <2>3, <2>4, StillAsked
<1>12. ASSUME NEW r \in Requests, NEW d \in Decisions, AppAnswers(r, d) PROVE ApproversIInv'
  BY <1>12, <1>b, <1>11 DEF AppAnswers, Clients
<1>13. ASSUME NEW r \in Requests, (\E d \in Decisions : PageAnswers(r, d)) \/ PageExpires(r)
       PROVE  ApproversIInv'
  <2>1. PICK d \in Decisions : Answers(Page, r, d)
    BY <1>13 DEF PageAnswers, PageExpires, Decisions
  <2>2. r \in Asked /\ UNCHANGED <<promise, inbox, offered, load, clients, home>>
    BY <1>13, <1>b DEF PageAnswers, PageExpires, Clients
  <2> QED BY <1>11, <2>1, <2>2 DEF Clients
<1>14. CASE Elapses
  BY <1>14, <1>t, AskedStays, StillAsked DEF Elapses
<1>15. CASE UNCHANGED approverVars
  BY <1>15, <1>t, AskedStays, StillAsked DEF approverVars
<1> QED BY <1>1, <1>2, <1>3, <1>4, <1>5, <1>6, <1>7, <1>8, <1>9, <1>10, <1>12, <1>13, <1>14, <1>15
        DEF ApproversNext

-----------------------------------------------------------------------------
(* The steps of the clients, as steps of the stream.                       *)

LEMMA StreamInitially == ApproversInit => Stream!StreamInit
BY DEF ApproversInit, Stream!StreamInit, Stream!Requests, Requests, Cards

\* Nothing of what the stream sees has changed.
LEMMA StreamStands ==
    ASSUME UNCHANGED <<clients, promise, timer, offered, tapped, wire, consents>>
    PROVE  UNCHANGED Stream!streamVars
BY DEF Stream!streamVars, Cards

\* An answer is a tap, one that is not sent, or one on a screen that is behind.
LEMMA AnswersTap ==
    ASSUME ApproversIInv, NEW c \in Clients, NEW r \in Asked, NEW d \in Decisions, Answers(c, r, d),
           consents' = IF d = "approved" THEN consents \cup {r} ELSE consents,
           UNCHANGED <<clients, promise, timer, offered>>
    PROVE  Stream!Tap(c, r, d) \/ Stream!TapUnsent(c, r, d) \/ Stream!TapAgain(c, r, d)
<1> DEFINE m == [from |-> c, request |-> r, decision |-> d]
<1>1. /\ wire' = wire \/ (c \in clients /\ wire' = wire \cup {m})
      /\ tapped' = [tapped EXCEPT ![c] = @ \cup {r}]
  BY DEF Answers
<1>2. Cards' = [Cards EXCEPT ![c] = @ \ {r}]
  BY <1>1 DEF Cards, ApproversIInv, ApproversTypes
<1>3. promise[r] # "none"
  BY DEF Asked
<1>4. CASE r \in Cards[c]
  <2>1. CASE wire' = wire
    BY <1>2, <1>4, <2>1 DEF Stream!TapUnsent
  <2>2. CASE c \in clients /\ wire' = wire \cup {m}
    BY <1>2, <1>4, <2>2 DEF Stream!Tap
  <2> QED BY <1>1, <2>1, <2>2
<1>5. CASE r \notin Cards[c]
  <2>1. Cards' = Cards
    BY <1>2, <1>5 DEF Cards
  <2> QED BY <1>1, <1>3, <1>5, <2>1 DEF Stream!TapAgain
<1> QED BY <1>4, <1>5

LEMMA ApproversStep ==
    ApproversIInv /\ [ApproversNext]_approverVars => [Stream!StreamNext]_(Stream!streamVars)
<1> SUFFICES ASSUME ApproversIInv, [ApproversNext]_approverVars
             PROVE  Stream!StreamNext \/ UNCHANGED Stream!streamVars
  OBVIOUS
<1> USE DEF hubVars, appVars, sightVars, answerVars
<1>q. Stream!Requests = Requests /\ Stream!Decisions = Decisions
  BY DEF Stream!Requests, Stream!Decisions, Requests, Decisions
<1>b. /\ \A c \in Clients : list[c] \subseteq Asked /\ tapped[c] \subseteq Asked
      /\ home \subseteq Asked
  BY DEF ApproversIInv, Broadcast
<1>1. ASSUME NEW r \in Requests, Broadcasts(r) PROVE Stream!StreamNext
  <2>1. \A c \in Clients : r \notin tapped[c]
    BY <1>1, <1>b DEF Broadcasts, Asked
  <2>2. Cards' = [c \in Clients |-> IF c \in clients THEN Cards[c] \cup {r} ELSE Cards[c]]
    BY <1>1, <2>1 DEF Broadcasts, Cards
  <2>3. promise[r] = "none" /\ Stream!RequestApproval(r)
    BY <1>1, <2>2 DEF Broadcasts, Stream!RequestApproval, Stream!ShowCard
  <2> QED BY <1>q, <2>3 DEF Stream!StreamNext
<1>2. ASSUME NEW m \in wire, HubHears(m) PROVE Stream!StreamNext
  <2>1. Cards' = Cards
    BY <1>2 DEF HubHears, Cards
  <2>2. Stream!Settle(m) \/ Stream!IgnoreLateAnswer(m)
    BY <1>2, <2>1 DEF HubHears, Stream!Settle, Stream!IgnoreLateAnswer
  <2> QED BY <2>2 DEF Stream!StreamNext
<1>3. ASSUME NEW r \in Requests, HubTimesOut(r) PROVE Stream!StreamNext
  <2>1. Stream!TimerFires(r)
    BY <1>3 DEF HubTimesOut, Stream!TimerFires, Cards
  <2> QED BY <1>q, <2>1 DEF Stream!StreamNext
<1>4. CASE HubEnds
  <2>1. Stream!StreamDown("closed")
    BY <1>4, <1>q DEF HubEnds, Stream!StreamDown, Cards
  <2> QED BY <2>1 DEF Stream!StreamNext
<1>5. CASE HubReturns \/ NetworkChanges
  BY <1>5, StreamStands DEF HubReturns, NetworkChanges
<1>6. ASSUME NEW c \in Clients, Accepts(c) PROVE Stream!StreamNext
  <2>1. Stream!Connect(c)
    BY <1>6 DEF Accepts, Stream!Connect, Cards
  <2> QED BY <2>1 DEF Stream!StreamNext
<1>7. ASSUME NEW c \in Clients, HubDrops(c) \/ DiesSilently(c)
      PROVE  Stream!StreamNext \/ UNCHANGED Stream!streamVars
  <2>1. /\ clients' = clients \ {c} /\ wire' = {m \in wire : m.from # c}
        /\ UNCHANGED <<promise, timer, offered, tapped, consents>>
    BY <1>7 DEF HubDrops, DiesSilently
  <2>2. CASE c \in clients
    <3>1. Stream!Disconnect(c)
      BY <2>1, <2>2 DEF Stream!Disconnect, Cards
    <3> QED BY <3>1 DEF Stream!StreamNext
  <2>3. CASE c \notin clients
    <3>1. clients' = clients /\ wire' = wire
      BY <2>1, <2>3 DEF ApproversIInv, Sockets
    <3> QED BY <2>1, <3>1, StreamStands
  <2> QED BY <2>2, <2>3
<1>8. ASSUME NEW c \in Clients, Opened(c) \/ LinkLost(c) \/ Dials(c)
      PROVE  UNCHANGED Stream!streamVars
  BY <1>8, StreamStands DEF Opened, LinkLost, Dials
<1>9. CASE PageLeaves \/ PageMounts \/ LoadBegins \/ LoadReturns \/ LoadFails
  BY <1>9, StreamStands DEF PageLeaves, PageMounts, LoadBegins, LoadReturns, LoadFails
<1>10. ASSUME NEW c \in Clients, NEW r \in inbox[c], Lists(c, r) PROVE UNCHANGED Stream!streamVars
  BY <1>10, StreamStands DEF Lists
<1>11. ASSUME NEW c \in Clients, NEW r \in Asked, NEW d \in Decisions, Answers(c, r, d),
              consents' = IF d = "approved" THEN consents \cup {r} ELSE consents,
              UNCHANGED <<clients, promise, timer, offered>>
       PROVE  Stream!StreamNext
  <2>1. r \in Requests
    BY DEF Asked
  <2> QED BY <1>11, <1>q, <2>1, AnswersTap DEF Stream!StreamNext
<1>12. ASSUME NEW r \in Requests, NEW d \in Decisions, AppAnswers(r, d) \/ PageAnswers(r, d)
       PROVE  Stream!StreamNext
  <2>1. PICK c \in Clients : Answers(c, r, d)
    BY <1>12 DEF AppAnswers, PageAnswers, Clients
  <2>2. r \in Asked
    BY <1>12, <1>b DEF AppAnswers, PageAnswers, Clients
  <2> QED BY <1>11, <1>12, <2>1, <2>2 DEF AppAnswers, PageAnswers
<1>13. ASSUME NEW r \in Requests, PageExpires(r) PROVE Stream!StreamNext
  <2>1. r \in Asked /\ Page \in Clients /\ "denied" \in Decisions
    BY <1>13, <1>b DEF PageExpires, Clients, Decisions
  <2> QED BY <1>11, <1>13, <2>1 DEF PageExpires
<1>14. CASE Elapses
  <2>1. Stream!AgeTimers /\ UNCHANGED <<clients, promise, Cards, wire, consents>>
    BY <1>14, <1>q DEF Elapses, Stream!AgeTimers, Cards
  <2> QED BY <2>1 DEF Stream!StreamNext
<1>15. CASE UNCHANGED approverVars
  BY <1>15, StreamStands DEF approverVars
<1> QED BY <1>1, <1>2, <1>3, <1>4, <1>5, <1>6, <1>7, <1>8, <1>9, <1>10, <1>12, <1>13, <1>14, <1>15
        DEF ApproversNext

-----------------------------------------------------------------------------

\* What a client shows was asked for, and what travels has a socket.
THEOREM ApproversInductive == ApproversSpec => []ApproversIInv
BY ApproversInvInit, ApproversInvStep, PTL DEF ApproversSpec

\* Links that die on one side, lists that are lost, late frames, stale screens and
\* the page's own denials only ever do to a promise what a phone of the stream may
\* do (requestApproval, handleMessage and close in approval-stream.ts).
THEOREM StreamTheorem == ApproversSpec => ImplementsStream
BY ApproversInductive, ApproversInvInit, ApproversInvStep, StreamInitially, ApproversStep, PTL
   DEF ApproversSpec, ImplementsStream, Stream!StreamSpec

\* Both components at once, as the run checks them: in either kind of behaviour the
\* types hold of what moves and of what stands still.
THEOREM HostAndApproversTypes == MCSpec => []TypesOK
<1>1. MCInit => HostIInv /\ ApproversIInv
  BY HostInvInit, ApproversInvInit DEF MCInit
<1>2. HostIInv /\ ApproversIInv /\ [MCNext]_<<active, hostVars, approverVars>>
        => HostIInv' /\ ApproversIInv'
  BY HostInvStep, ApproversInvStep DEF MCNext
<1>3. HostIInv /\ ApproversIInv => TypesOK
  BY TypesSpelledOut DEF HostIInv, ApproversIInv, TypesOK
<1> QED BY <1>1, <1>2, <1>3, PTL DEF MCSpec
================================================================================
