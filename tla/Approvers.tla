------------------------------- MODULE Approvers -------------------------------
(***************************************************************************)
(* The two clients of the approval stream in detail, and the stream as     *)
(* they see it: the Android app (ApprovalWebSocketClient.kt,               *)
(* ApprovalNotificationManager.kt, HomeViewModel.kt) and the web UI's      *)
(* approval page (web/src/routes/approval/+page.svelte).                   *)
(*                                                                         *)
(* ApprovalStream gives a client a card per request and a socket the hub   *)
(* knows about.  Here a client has a link of its own that it dials again,  *)
(* frames in flight, a list, a Home screen that copies the list and is     *)
(* overwritten by loads that began before, and a page that denies by       *)
(* itself what it has shown for a minute.                                  *)
(***************************************************************************)
EXTENDS Naturals

CONSTANTS
    App,               \* the Android app
    Page,              \* an open approval page
    Calls,             \* calls that ask, as in ApprovalStream
    Dialogs,
    ApprovalTimeout,
    PageTimeout,       \* APPROVAL_TIMEOUT_MS of the page
    NoLoad             \* no getGrants or getAuditHistory is under way

ASSUME ApproversAssumption ==
    /\ App # Page
    /\ "grant" \in Dialogs
    /\ ApprovalTimeout \in [Dialogs -> Nat \ {0}]
    /\ PageTimeout = ApprovalTimeout["grant"]

VARIABLES
    hub,        \* "up" or "down"
    network,    \* between the clients and the hub: "fine" or "broken"
    clients,    \* approval-stream.ts: the sockets the hub broadcasts to
    promise, timer, wire, consents,   \* as in ApprovalStream
    link,       \* [Clients -> ...]: the client's own side of its socket
    inbox,      \* [Clients -> SUBSET Requests]: sent to it, not yet in its list
    list,       \* pendingRequests of the app, pending of the page
    age,        \* [Requests -> Nat]: time since the page's receivedAt
    home,       \* the Home screen's pendingApprovals
    load,       \* what Home showed when the load under way began
    offered,    \* history: [Clients -> SUBSET Requests], broadcast while connected
    tapped,     \* history: [Clients -> SUBSET Requests], answered
    expired,    \* history: what the page denied by itself
    deaf        \* history: clients whose link died without a sign

hubVars == <<hub, network, clients, promise, timer>>
appVars == <<home, load>>
sightVars == <<link, inbox, list, age, deaf>>
answerVars == <<wire, consents, tapped, expired>>
approverVars == <<hubVars, appVars, sightVars, answerVars, offered>>

Clients == {App, Page}
Requests == Calls \X Dialogs
Decisions == {"approved", "denied"}
Links == {"closed", "opening", "open", "gone"}

\* The stream as ApprovalStream has it: a card is a request that was broadcast
\* to the client and that it has not answered.
Cards == [c \in Clients |-> offered[c] \ tapped[c]]
Stream == INSTANCE ApprovalStream WITH Phones <- Clients, cards <- Cards

ApproversTypeOK ==
    /\ Stream!StreamTypeOK
    /\ hub \in {"up", "down"} /\ network \in {"fine", "broken"}
    /\ link \in [Clients -> Links]
    /\ inbox \in [Clients -> SUBSET Requests]
    /\ list \in [Clients -> SUBSET Requests]
    /\ age \in [Requests -> 0 .. PageTimeout]
    /\ home \subseteq Requests
    /\ load \in (SUBSET Requests) \cup {NoLoad}
    /\ offered \in [Clients -> SUBSET Requests]
    /\ tapped \in [Clients -> SUBSET Requests]
    /\ expired \subseteq Requests /\ deaf \subseteq Clients

ApproversInit ==
    /\ hub = "up" /\ network \in {"fine", "broken"} /\ clients = {}
    /\ promise = [r \in Requests |-> "none"]
    /\ timer = [r \in Requests |-> 0]
    /\ wire = {} /\ consents = {} /\ expired = {} /\ deaf = {}
    /\ link = [c \in Clients |-> "opening"]
    /\ inbox = [c \in Clients |-> {}]
    /\ list = [c \in Clients |-> {}]
    /\ age = [r \in Requests |-> 0]
    /\ home = {} /\ load = NoLoad
    /\ offered = [c \in Clients |-> {}]
    /\ tapped = [c \in Clients |-> {}]

-----------------------------------------------------------------------------
(***************************************************************************)
(* The hub's side.                                                         *)
(***************************************************************************)

\* requestApproval: one broadcast, to the sockets open now.
Broadcasts(r) ==
    /\ hub = "up"
    /\ promise[r] = "none"
    /\ promise' = [promise EXCEPT ![r] = "pending"]
    /\ timer' = [timer EXCEPT ![r] = ApprovalTimeout[r[2]]]
    /\ inbox' = [c \in Clients |-> IF c \in clients THEN inbox[c] \cup {r} ELSE inbox[c]]
    /\ offered' = [c \in Clients |-> IF c \in clients THEN offered[c] \cup {r} ELSE offered[c]]
    /\ UNCHANGED <<hub, network, clients, appVars, link, list, age, deaf, answerVars>>

\* (Wrong on purpose: the last decision stands.)
HubHearsLast(m) ==
    /\ m \in wire
    /\ wire' = wire \ {m}
    /\ promise' = [promise EXCEPT ![m.request] = m.decision]
    /\ timer' = [timer EXCEPT ![m.request] = 0]
    /\ UNCHANGED <<hub, network, clients, appVars, sightVars, consents, tapped, expired, offered>>

\* handleMessage: the first decision settles the promise, others are ignored.
HubHears(m) ==
    /\ m \in wire
    /\ wire' = wire \ {m}
    /\ IF promise[m.request] = "pending"
       THEN /\ promise' = [promise EXCEPT ![m.request] = m.decision]
            /\ timer' = [timer EXCEPT ![m.request] = 0]
       ELSE UNCHANGED <<promise, timer>>
    /\ UNCHANGED <<hub, network, clients, appVars, sightVars, consents, tapped, expired, offered>>

HubTimesOut(r) ==
    /\ promise[r] = "pending"
    /\ timer[r] = 0
    /\ promise' = [promise EXCEPT ![r] = "timeout"]
    /\ UNCHANGED <<hub, network, clients, timer, appVars, sightVars, answerVars, offered>>

\* close(), or a crash, which is no different from here: the sockets close, and
\* what was pending has no answer.
HubEnds ==
    /\ hub = "up"
    /\ hub' = "down"
    /\ clients' = {}
    /\ promise' = [r \in Requests |-> IF promise[r] = "pending" THEN "closed" ELSE promise[r]]
    /\ timer' = [r \in Requests |-> 0]
    /\ wire' = {}
    /\ UNCHANGED <<network, appVars, sightVars, consents, tapped, expired, offered>>

HubReturns ==
    /\ hub = "down"
    /\ hub' = "up"
    /\ UNCHANGED <<network, clients, promise, timer, appVars, sightVars, answerVars, offered>>

NetworkChanges ==
    /\ network' = IF network = "fine" THEN "broken" ELSE "fine"
    /\ UNCHANGED <<hub, clients, promise, timer, appVars, sightVars, answerVars, offered>>

-----------------------------------------------------------------------------
(***************************************************************************)
(* Links.                                                                  *)
(***************************************************************************)

\* handleConnection: the hub adds the socket; nothing pending is sent again.
Accepts(c) ==
    /\ hub = "up" /\ network = "fine"
    /\ link[c] = "opening"
    /\ c \notin clients
    /\ clients' = clients \cup {c}
    /\ UNCHANGED <<hub, network, promise, timer, appVars, sightVars, answerVars, offered>>

\* open / onOpen on the client.
Opened(c) ==
    /\ link[c] = "opening"
    /\ c \in clients
    /\ link' = [link EXCEPT ![c] = "open"]
    /\ UNCHANGED <<hubVars, appVars, inbox, list, age, deaf, answerVars, offered>>

\* The hub's end of the socket closes; what was on its way to it is lost.
HubDrops(c) ==
    /\ c \in clients
    /\ network = "broken" \/ link[c] \in {"closed", "gone"}
    /\ clients' = clients \ {c}
    /\ wire' = {m \in wire : m.from # c}
    /\ UNCHANGED <<hub, network, promise, timer, appVars, sightVars, consents, tapped, expired, offered>>

\* onClosed, onFailure, close, error: the client's end closes, or it never
\* opened.  Frames not yet handled may be lost.
LinkLost(c) ==
    /\ link[c] \in {"opening", "open"}
    /\ c \notin clients \/ network = "broken"
    /\ link[c] = "opening" => hub = "down" \/ network = "broken"
    /\ link' = [link EXCEPT ![c] = "closed"]
    /\ \E lost \in SUBSET inbox[c] : inbox' = [inbox EXCEPT ![c] = @ \ lost]
    /\ deaf' = deaf \ {c}
    /\ UNCHANGED <<hubVars, appVars, list, age, answerVars, offered>>

\* A broken network lets the hub's end go without the client being told: no
\* client sends pings, so it stays "open" until it happens to notice.
DiesSilently(c) ==
    /\ link[c] = "open"
    /\ network = "broken"
    /\ c \notin deaf
    /\ clients' = clients \ {c}
    /\ wire' = {m \in wire : m.from # c}
    /\ deaf' = deaf \cup {c}
    /\ UNCHANGED <<hub, network, promise, timer, appVars, link, inbox, list, age,
                   consents, tapped, expired, offered>>

\* (Wrong on purpose: a page whose socket closed before it opened stays closed.)
DialsAppOnly(c) ==
    /\ link[c] = "closed"
    /\ c = App
    /\ link' = [link EXCEPT ![c] = "opening"]
    /\ UNCHANGED <<hubVars, appVars, inbox, list, age, deaf, answerVars, offered>>

\* reconnectLoop and scheduleReconnect: after the backoff, again, for ever.
Dials(c) ==
    /\ link[c] = "closed"
    /\ link' = [link EXCEPT ![c] = "opening"]
    /\ UNCHANGED <<hubVars, appVars, inbox, list, age, deaf, answerVars, offered>>

\* onDestroy and onMount: the page is left with all it showed, and opened again.
PageLeaves ==
    /\ link[Page] # "gone"
    /\ link' = [link EXCEPT ![Page] = "gone"]
    /\ inbox' = [inbox EXCEPT ![Page] = {}]
    /\ list' = [list EXCEPT ![Page] = {}]
    /\ deaf' = deaf \ {Page}
    /\ UNCHANGED <<hubVars, appVars, age, answerVars, offered>>

PageMounts ==
    /\ link[Page] = "gone"
    /\ link' = [link EXCEPT ![Page] = "opening"]
    /\ UNCHANGED <<hubVars, appVars, inbox, list, age, deaf, answerVars, offered>>

-----------------------------------------------------------------------------
(***************************************************************************)
(* What a client shows.                                                    *)
(***************************************************************************)

\* An approval_request is handled.  Frames of one socket may be handled in any
\* order by the app, which emits each from a coroutine of its own.  The Home
\* screen collects the app's list whenever that changes.
Lists(c, r) ==
    /\ link[c] # "gone"
    /\ r \in inbox[c]
    /\ inbox' = [inbox EXCEPT ![c] = @ \ {r}]
    /\ list' = [list EXCEPT ![c] = @ \cup {r}]
    /\ age' = IF c = Page THEN [age EXCEPT ![r] = 0] ELSE age
    /\ home' = IF c = App THEN list'[App] ELSE home
    /\ UNCHANGED <<hubVars, load, link, deaf, answerVars, offered>>

\* loadGrants, loadAuditHistory: _state.value is read, then the hub is asked,
\* then a copy of what was read becomes the state.
LoadBegins ==
    /\ load = NoLoad
    /\ load' = home
    /\ UNCHANGED <<hubVars, home, sightVars, answerVars, offered>>

LoadReturns ==
    /\ load # NoLoad
    /\ load' = NoLoad
    /\ home' = load
    /\ UNCHANGED <<hubVars, sightVars, answerVars, offered>>

LoadFails ==
    /\ load # NoLoad
    /\ load' = NoLoad
    /\ UNCHANGED <<hubVars, home, sightVars, answerVars, offered>>

-----------------------------------------------------------------------------
(***************************************************************************)
(* Answers.                                                                *)
(***************************************************************************)

\* sendDecision: over the link if there is one the hub still has, else nowhere;
\* either way the request leaves the list.
Answers(c, r, d) ==
    /\ wire' = IF link[c] = "open" /\ c \in clients
                 THEN wire \cup {[from |-> c, request |-> r, decision |-> d]} ELSE wire
    /\ list' = [list EXCEPT ![c] = @ \ {r}]
    /\ tapped' = [tapped EXCEPT ![c] = @ \cup {r}]

\* The user answers a row of the Home screen, be it in the list still or not.
AppAnswers(r, d) ==
    /\ r \in home
    /\ Answers(App, r, d)
    /\ consents' = IF d = "approved" THEN consents \cup {r} ELSE consents
    /\ home' = IF r \in list[App] THEN list'[App] ELSE home
    /\ UNCHANGED <<hubVars, load, link, inbox, age, deaf, expired, offered>>

PageAnswers(r, d) ==
    /\ r \in list[Page]
    /\ Answers(Page, r, d)
    /\ consents' = IF d = "approved" THEN consents \cup {r} ELSE consents
    /\ UNCHANGED <<hubVars, appVars, link, inbox, age, deaf, expired, offered>>

\* tickClock: a request the page has shown for PageTimeout is denied.
PageExpires(r) ==
    /\ r \in list[Page]
    /\ age[r] >= PageTimeout
    /\ Answers(Page, r, "denied")
    /\ expired' = expired \cup {r}
    /\ UNCHANGED <<hubVars, appVars, link, inbox, age, deaf, consents, offered>>

\* Time passes for the hub's timers and the page's clock alike.
Elapses ==
    /\ \/ \E r \in Requests : timer[r] > 0
       \/ \E r \in list[Page] : age[r] < PageTimeout
    /\ timer' = [r \in Requests |-> IF timer[r] = 0 THEN 0 ELSE timer[r] - 1]
    /\ age' = [r \in Requests |-> IF r \in list[Page] /\ age[r] < PageTimeout
                                  THEN age[r] + 1 ELSE age[r]]
    /\ UNCHANGED <<hub, network, clients, promise, appVars, link, inbox, list, deaf,
                   answerVars, offered>>

-----------------------------------------------------------------------------

ApproversNext ==
    \/ \E r \in Requests : Broadcasts(r) \/ HubTimesOut(r) \/ PageExpires(r)
    \/ \E m \in wire : HubHears(m)
    \/ HubEnds \/ HubReturns \/ NetworkChanges
    \/ \E c \in Clients : \/ Accepts(c) \/ Opened(c) \/ HubDrops(c)
                          \/ LinkLost(c) \/ DiesSilently(c) \/ Dials(c)
                          \/ \E r \in inbox[c] : Lists(c, r)
    \/ PageLeaves \/ PageMounts
    \/ LoadBegins \/ LoadReturns \/ LoadFails
    \/ \E r \in Requests, d \in Decisions : AppAnswers(r, d) \/ PageAnswers(r, d)
    \/ Elapses

\* A timer that is due, a handshake and a close are handled in time.  The steps
\* of one link follow each other, so that one condition serves for them.
LinkDue(c) ==
    \/ Dials(c) \/ Accepts(c) \/ Opened(c) \/ HubDrops(c)
    \/ LinkLost(c) /\ c \notin deaf

ApproversFairness == \A c \in Clients : WF_approverVars(LinkDue(c))

ApproversSpec == ApproversInit /\ [][ApproversNext]_approverVars /\ ApproversFairness

-----------------------------------------------------------------------------
(***************************************************************************)
(* Properties.                                                             *)
(***************************************************************************)

\* To the hub the two clients are phones of ApprovalStream: links that die on
\* one side, lists that are lost, late frames, stale screens and the page's own
\* denials only ever do to a promise what a phone may do.
ImplementsStream == Stream!StreamSpec

\* Once the hub and the network stay up, every client that wants to be connected
\* is, for good, and the hub knows it; but for one whose link died unnoticed.
ClientsComeBack ==
    \A c \in Clients :
        <>[](hub = "up" /\ network = "fine" /\ link[c] # "gone")
            => <>[](c \in deaf \/ (link[c] = "open" /\ c \in clients))

\* (web/src/routes/approval/+page.svelte: "Hub has already given up internally
\* - sending deny is just cleanup".)  The same for every request.
OwnDenialIsCleanup == \A r \in expired : timer[r] = 0
=============================================================================
