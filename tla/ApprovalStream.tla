---------------------------- MODULE ApprovalStream ----------------------------
(***************************************************************************)
(* The approval stream (hub-core/src/approval-stream.ts) and the phones on *)
(* the other end of it (android-app ApprovalNotificationManager.kt and     *)
(* ApprovalWebSocketClient.kt).                                            *)
(*                                                                         *)
(* A request is broadcast once, to the sockets open at that moment.  Every *)
(* phone keeps its own card until its own user answers it, whatever became *)
(* of the request meanwhile, and answers travel over a socket that may be  *)
(* gone.  The hub holds a promise per request; the phones' answers, the    *)
(* timer and close() race to settle it.                                    *)
(***************************************************************************)
EXTENDS Naturals

CONSTANTS
    Phones,           \* clients of the stream
    Calls,            \* tool calls that may ask for approval
    Dialogs,          \* what a call may ask for, each at most once
    ApprovalTimeout   \* [Dialogs -> Nat]: the request's budget, in clock units

ASSUME ApprovalTimeoutAssumption == ApprovalTimeout \in [Dialogs -> Nat \ {0}]

VARIABLES
    clients,   \* phones with an open, authorised socket
    promise,   \* [Requests -> ...]: the state of the promise of requestApproval
    timer,     \* [Requests -> Nat]: time left on the request's setTimeout
    cards,     \* [Phones -> SUBSET Requests]: the cards a phone displays
    wire,      \* approval_decided messages on their way to the hub
    consents   \* history: the requests some user tapped "approve" for

streamVars == <<clients, promise, timer, cards, wire, consents>>

\* A request_id is a fresh uuid; it is named here by the call and its dialog.
Requests == Calls \X Dialogs

Decisions == {"approved", "denied"}

\* `pending` of the code is the set of the requests whose promise is "pending".
PromiseStates == {"none", "pending", "approved", "denied", "timeout", "closed", "lost"}

Messages == [from : Phones, request : Requests, decision : Decisions]

StreamTypeOK ==
    /\ clients \subseteq Phones
    /\ promise \in [Requests -> PromiseStates]
    /\ timer \in [Requests -> Nat]
    /\ cards \in [Phones -> SUBSET Requests]
    /\ wire \subseteq Messages
    /\ consents \subseteq Requests

StreamInit ==
    /\ clients = {}
    /\ promise = [r \in Requests |-> "none"]
    /\ timer = [r \in Requests |-> 0]
    /\ cards = [p \in Phones |-> {}]
    /\ wire = {}
    /\ consents = {}

-----------------------------------------------------------------------------

\* A phone appends every request it is sent to its list.
ShowCard(r) ==
    cards' = [p \in Phones |-> IF p \in clients THEN cards[p] \cup {r} ELSE cards[p]]

\* requestApproval: a pending entry, its timer, and one broadcast to the
\* sockets open now.  With no phone connected the request still waits.
RequestApproval(r) ==
    /\ promise' = [promise EXCEPT ![r] = "pending"]
    /\ timer' = [timer EXCEPT ![r] = ApprovalTimeout[r[2]]]
    /\ ShowCard(r)
    /\ UNCHANGED <<clients, wire, consents>>

\* A request settled by m, whose handler asks for r in the same turn.
SettleAndRequest(m, r) ==
    /\ m \in wire
    /\ promise[m.request] = "pending"
    /\ wire' = wire \ {m}
    /\ promise' = [promise EXCEPT ![m.request] = m.decision, ![r] = "pending"]
    /\ timer' = [timer EXCEPT ![m.request] = 0, ![r] = ApprovalTimeout[r[2]]]
    /\ ShowCard(r)
    /\ UNCHANGED <<clients, consents>>

\* handleConnection: nothing already pending is sent to a phone that joins late.
Connect(p) ==
    /\ p \notin clients
    /\ clients' = clients \cup {p}
    /\ UNCHANGED <<promise, timer, cards, wire, consents>>

\* The socket closes: answers still travelling on it are lost.
Disconnect(p) ==
    /\ p \in clients
    /\ clients' = clients \ {p}
    /\ wire' = {m \in wire : m.from # p}
    /\ UNCHANGED <<promise, timer, cards, consents>>

\* approve / deny on the phone: the card goes, and the answer is sent if there
\* is a socket and silently dropped if there is none.  A phone may know before
\* the hub does that there is none.
Tap(p, r, d) ==
    /\ r \in cards[p]
    /\ cards' = [cards EXCEPT ![p] = @ \ {r}]
    /\ consents' = IF d = "approved" THEN consents \cup {r} ELSE consents
    /\ wire' = IF p \in clients
                 THEN wire \cup {[from |-> p, request |-> r, decision |-> d]}
                 ELSE wire
    /\ UNCHANGED <<clients, promise, timer>>

\* handleMessage takes the entry out of `pending`, clears the timer and settles
\* the promise.
Settle(m) ==
    /\ m \in wire
    /\ promise[m.request] = "pending"
    /\ wire' = wire \ {m}
    /\ promise' = [promise EXCEPT ![m.request] = m.decision]
    /\ timer' = [timer EXCEPT ![m.request] = 0]
    /\ UNCHANGED <<clients, cards, consents>>

\* (Wrong on purpose: the entry is left in `pending` once settled.)
LateAnswerOverwrites(m) ==
    /\ m \in wire
    /\ promise[m.request] # "pending"
    /\ wire' = wire \ {m}
    /\ promise' = [promise EXCEPT ![m.request] = m.decision]
    /\ UNCHANGED <<clients, timer, cards, consents>>

\* handleMessage for a request that is not pending (any more): logged, ignored.
IgnoreLateAnswer(m) ==
    /\ m \in wire
    /\ promise[m.request] # "pending"
    /\ wire' = wire \ {m}
    /\ UNCHANGED <<clients, promise, timer, cards, consents>>

\* The timer of requestApproval.  It runs some time after it is due, so an
\* answer may still overtake it.
TimerFires(r) ==
    /\ promise[r] = "pending"
    /\ timer[r] = 0
    /\ promise' = [promise EXCEPT ![r] = "timeout"]
    /\ UNCHANGED <<clients, timer, cards, wire, consents>>

\* What becomes of the stream when the process stops: close() rejects what is
\* pending, a crash just forgets it.
StreamDown(settled) ==
    /\ clients' = {}
    /\ wire' = {}
    /\ promise' = [r \in Requests |-> IF promise[r] = "pending" THEN settled ELSE promise[r]]
    /\ timer' = [r \in Requests |-> 0]
    /\ UNCHANGED <<cards, consents>>

AgeTimers ==
    timer' = [r \in Requests |-> IF timer[r] = 0 THEN 0 ELSE timer[r] - 1]

-----------------------------------------------------------------------------
(***************************************************************************)
(* The stream on its own, for the clients that implement it (Approvers).   *)
(***************************************************************************)

\* A phone that shows a card it has answered may answer it again.
TapAgain(p, r, d) ==
    /\ promise[r] # "none"
    /\ r \notin cards[p]
    /\ consents' = IF d = "approved" THEN consents \cup {r} ELSE consents
    /\ wire' \in {wire, IF p \in clients
                         THEN wire \cup {[from |-> p, request |-> r, decision |-> d]}
                         ELSE wire}
    /\ UNCHANGED <<clients, promise, timer, cards>>

\* The card goes, the answer does not.
TapUnsent(p, r, d) ==
    /\ r \in cards[p]
    /\ cards' = [cards EXCEPT ![p] = @ \ {r}]
    /\ consents' = IF d = "approved" THEN consents \cup {r} ELSE consents
    /\ UNCHANGED <<clients, promise, timer, wire>>

StreamNext ==
    \/ \E r \in Requests : (promise[r] = "none" /\ RequestApproval(r)) \/ TimerFires(r)
    \/ \E p \in Phones : Connect(p) \/ Disconnect(p)
    \/ \E p \in Phones, r \in Requests, d \in Decisions :
         Tap(p, r, d) \/ TapUnsent(p, r, d) \/ TapAgain(p, r, d)
    \/ \E m \in wire : Settle(m) \/ IgnoreLateAnswer(m)
    \/ StreamDown("closed") \/ StreamDown("lost")
    \/ AgeTimers /\ UNCHANGED <<clients, promise, cards, wire, consents>>

StreamSpec == StreamInit /\ [][StreamNext]_streamVars
=============================================================================
