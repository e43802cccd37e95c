--------------------------------- MODULE Relay ---------------------------------
(***************************************************************************)
(* One session of the relay (relay/src/session-do.ts and index.ts) and the *)
(* clients on its two sides: the laptop's (relay/src/relay-client.ts) and  *)
(* the Android app's (relay/RelayClient.kt), which plays the hub.          *)
(*                                                                         *)
(* The session object awaits its storage in the middle of an upgrade, so   *)
(* that two upgrades of one role may be under way at once.  A connection   *)
(* that dies is known to its client before it is known to the session, or  *)
(* the other way round; what was sent on it may still arrive.              *)
(***************************************************************************)
EXTENDS Naturals, Sequences, SequencesExt

CONSTANTS
    HubSockets,     \* connections the app opens, one after the other
    LaptopSockets,  \* connections the laptop opens
    MaxSent,        \* bound on the messages of one side
    NoSocket

ASSUME SentAssumption == MaxSent \in Nat

VARIABLES
    stored,   \* roles whose token the session has stored
    socket,   \* [Sockets -> ...]: the connection, as the session has it
    alive,    \* connections whose client has not closed or lost them
    up,       \* [Sockets -> Seq(Nat)]: on its way to the session
    down,     \* [Sockets -> Seq(Nat)]: on its way to the client
    said,     \* [Roles -> Nat]: messages sent so far, numbered
    heard,    \* [Sockets -> Seq(Nat)]: messages that have arrived at the client
    appState, \* State of the app's RelayClient
    appSocket \* its webSocket

relayVars == <<stored, socket, alive, up, down, said, heard, appState, appSocket>>
appVariables == <<appState, appSocket>>

Roles == {"hub", "laptop"}
Sockets == HubSockets \cup LaptopSockets
RoleOf(s) == IF s \in HubSockets THEN "hub" ELSE "laptop"
Peer(r) == IF r = "hub" THEN "laptop" ELSE "hub"
SocketStates == {"unused", "upgrading", "held", "closed"}

RelayTypeOK ==
    /\ stored \subseteq Roles
    /\ socket \in [Sockets -> SocketStates]
    /\ alive \subseteq Sockets
    /\ {up, down, heard} \subseteq [Sockets -> Seq(1 .. MaxSent)]
    /\ said \in [Roles -> 0 .. MaxSent]
    /\ appState \in {"Disconnected", "Connecting", "Connected"}
    /\ appSocket \in HubSockets \cup {NoSocket}

RelayInit ==
    /\ stored = {}
    /\ socket = [s \in Sockets |-> "unused"]
    /\ alive = {}
    /\ up = [s \in Sockets |-> <<>>] /\ down = [s \in Sockets |-> <<>>]
    /\ said = [r \in Roles |-> 0] /\ heard = [s \in Sockets |-> <<>>]
    /\ appState = "Disconnected" /\ appSocket = NoSocket

-----------------------------------------------------------------------------
(***************************************************************************)
(* The session.                                                            *)
(***************************************************************************)

\* createSession, doInit: the hub's token first, then the laptop's.
StoreToken(r) ==
    /\ r \notin stored
    /\ r = "laptop" => "hub" \in stored
    /\ stored' = stored \cup {r}
    /\ UNCHANGED <<socket, alive, up, down, said, heard, appVariables>>

\* getWebSockets(role).
Held(r) == {s \in Sockets : RoleOf(s) = r /\ socket[s] = "held"}

\* A client dials with the role's token; the session awaits its storage.
Dialled(s) ==
    /\ socket[s] = "unused"
    /\ socket' = [socket EXCEPT ![s] = "upgrading"]
    /\ alive' = alive \cup {s}
    /\ UNCHANGED <<stored, up, down, said, heard>>

\* (Wrong on purpose: without the check for a socket of the role.)
UpgradeUnchecked(s) ==
    /\ socket[s] = "upgrading"
    /\ socket' = [socket EXCEPT ![s] = IF RoleOf(s) \in stored THEN "held" ELSE "closed"]
    /\ UNCHANGED <<stored, alive, up, down, said, heard, appVariables>>

\* doHandleWebSocket after the await: 404 without a token, 409 while another
\* socket of the role is there, else accepted, all in one turn.
Upgrade(s) ==
    /\ socket[s] = "upgrading"
    /\ socket' = [socket EXCEPT ![s] =
                    IF RoleOf(s) \in stored /\ Held(RoleOf(s)) = {} THEN "held" ELSE "closed"]
    /\ UNCHANGED <<stored, alive, up, down, said, heard, appVariables>>

\* webSocketMessage, doForward: to every socket of the other role there is now;
\* without one the message is dropped.
Forward(s) ==
    /\ socket[s] = "held"
    /\ up[s] # <<>>
    /\ up' = [up EXCEPT ![s] = Tail(@)]
    /\ down' = [t \in Sockets |-> IF t \in Held(Peer(RoleOf(s)))
                                  THEN Append(down[t], Head(up[s])) ELSE down[t]]
    /\ UNCHANGED <<stored, socket, alive, said, heard, appVariables>>

\* webSocketClose, webSocketError: the session learns of the end of a connection
\* the client is through with, or that broke; what has not arrived never will.
SessionLoses(s) ==
    /\ socket[s] = "held"
    /\ socket' = [socket EXCEPT ![s] = "closed"]
    /\ up' = [up EXCEPT ![s] = <<>>]
    /\ UNCHANGED <<stored, alive, down, said, heard, appVariables>>

-----------------------------------------------------------------------------
(***************************************************************************)
(* The clients.                                                            *)
(***************************************************************************)

\* RelayClient.connect() of the laptop; nothing keeps it from a second one.
LaptopDials(s) ==
    /\ s \in LaptopSockets
    /\ Dialled(s)
    /\ UNCHANGED appVariables

\* close(), or the connection is lost: no more is received on it.
LaptopLeaves(s) ==
    /\ s \in LaptopSockets \cap alive
    /\ alive' = alive \ {s}
    /\ UNCHANGED <<stored, socket, up, down, said, heard, appVariables>>

\* The app's connect(): only when it believes to be disconnected.
AppDials(s) ==
    /\ s \in HubSockets
    /\ appState = "Disconnected"
    /\ Dialled(s)
    /\ appState' = "Connecting"
    /\ UNCHANGED appSocket

\* onOpen of any of its sockets, also of one dialled before a disconnect().
AppOpens(s) ==
    /\ s \in HubSockets \cap alive
    /\ socket[s] = "held"
    /\ appSocket # s
    /\ appState' = "Connected"
    /\ appSocket' = s
    /\ UNCHANGED <<stored, socket, alive, up, down, said, heard>>

\* onFailure, onClosing of any of its sockets, the current one or an older one:
\* the state says disconnected, webSocket stays what it is.
AppLoses(s) ==
    /\ s \in HubSockets \cap alive
    /\ socket[s] \in {"held", "closed"}
    /\ alive' = alive \ {s}
    /\ appState' = "Disconnected"
    /\ UNCHANGED <<stored, socket, up, down, said, heard, appSocket>>

\* disconnect(): closes the socket it has, which one still dialling is not.
AppDisconnects ==
    /\ appState # "Disconnected"
    /\ alive' = alive \ {appSocket}
    /\ appSocket' = NoSocket
    /\ appState' = "Disconnected"
    /\ UNCHANGED <<stored, socket, up, down, said, heard>>

\* send(): the app on the socket it has, the laptop on any that is open.
Sends(s) ==
    /\ s \in alive
    /\ socket[s] = "held"
    /\ s \in HubSockets => appSocket = s
    /\ said[RoleOf(s)] < MaxSent
    /\ said' = [said EXCEPT ![RoleOf(s)] = @ + 1]
    /\ up' = [up EXCEPT ![s] = Append(@, said'[RoleOf(s)])]
    /\ UNCHANGED <<stored, socket, alive, down, heard, appVariables>>

\* A message arrives at a client; the laptop hands it to its handlers, the app,
\* whose listener has no onMessage, drops it.
Receives(s) ==
    /\ s \in alive
    /\ down[s] # <<>>
    /\ heard' = [heard EXCEPT ![s] = Append(@, Head(down[s]))]
    /\ down' = [down EXCEPT ![s] = Tail(@)]
    /\ UNCHANGED <<stored, socket, alive, up, said, appVariables>>

RelayNext ==
    \/ \E r \in Roles : StoreToken(r)
    \/ \E s \in Sockets : Upgrade(s) \/ Forward(s) \/ SessionLoses(s) \/ Sends(s) \/ Receives(s)
    \/ \E s \in LaptopSockets : LaptopDials(s) \/ LaptopLeaves(s)
    \/ \E s \in HubSockets : AppDials(s) \/ AppOpens(s) \/ AppLoses(s)
    \/ AppDisconnects

RelaySpec == RelayInit /\ [][RelayNext]_relayVars

-----------------------------------------------------------------------------
\* Messages may be lost, but no connection carries them out of order, and no two
\* of one role the same one: over reconnects, upgrades that race for a role at
\* the await, dead connections and callbacks of older sockets.  (Of two upgrades
\* that were both accepted, each would hear everything the peer says.)
HeardOnce ==
    \A s \in Sockets :
        /\ \A i, j \in DOMAIN heard[s] : i < j => heard[s][i] < heard[s][j]
        /\ \A t \in Sockets \ {s} :
             RoleOf(s) = RoleOf(t) => Range(heard[s]) \cap Range(heard[t]) = {}
=============================================================================
