------------------------------- MODULE ToolCall -------------------------------
(***************************************************************************)
(* A local tool call through the hub (hub-core/src/server.ts               *)
(* handleCallTool and ensureGrant): routed to a plugin, gated by a grant   *)
(* or by the user's approval on a phone, given the plugin's OAuth token,   *)
(* run, and written to the audit log.                                      *)
(*                                                                         *)
(* The hub is one event loop.  An action is the code between two `await`s: *)
(* what a promise's settlement continues with runs before any other event, *)
(* so the phone's answer, the INSERT of the grant and the write to the     *)
(* plugin's stdin are one step.  Between two steps anything may happen:    *)
(* other calls, a revocation, a plugin's exit, a stop or a crash.          *)
(***************************************************************************)
EXTENDS ApprovalStream, GrantStore, Sequences, FiniteSets

CONSTANTS
    OAuthPlugins,   \* the plugins whose manifest declares @OAuth
    NoPlugin,       \* a tool no plugin serves
    NoGrant,        \* a call that holds no grant (grant_id null)
    NoKey           \* a call that has not been routed

ASSUME OAuthAssumption == OAuthPlugins \subseteq Plugins
ASSUME DialogAssumption == "grant" \in Dialogs
ASSUME NullsAssumption == /\ NoPlugin \notin Plugins
                          /\ NoGrant \notin GrantIds
                          /\ NoKey \notin Keys

VARIABLES
    hub,       \* the process: up, draining (registry.shutdownAll), closing, down
    owner,     \* the registry's toolToPlugin
    token,     \* [OAuthPlugins -> ...]: the plugin's row in the token vault
    call,      \* [Calls -> Keys]: what the call asks for, once routed
    pc,        \* [Calls -> Stages]: where its handler is, or how it ended
    held,      \* the grant ensureGrant returned to it
    orphaned,  \* calls whose PluginProcess object has lost its subprocess
    ran,       \* history: calls that were written to a plugin
    audit      \* [Calls -> Seq(AuditRows)]: audit_log, by call

callVars == <<call, pc, held, orphaned, ran, audit>>
vars == <<grants, streamVars, hub, owner, token, callVars>>

-----------------------------------------------------------------------------

HubStates == {"up", "draining", "closing", "down"}

\* The OAuth row, as isExpiringSoon and getAccessToken tell it apart.
TokenStates == {"fresh", "expiring", "absent"}

\* A handler that waits: for the user's answer to the delegation dialog (which
\* only FederationCall opens) or to the grant dialog, for the token refresh, for
\* the plugin.
Waiting == {"consulting", "asking", "refreshing", "running"}

\* How a call ends: 200, plugin error, 403, 404, a 500 thrown before the
\* plugin was reached, or the hub died under it.
Ended == {"ok", "error", "denied", "unknown", "failed", "lost"}

Stages == {"idle"} \cup Waiting \cup Ended

AuditRows == [decision : {"approved", "denied", "error"}, grant : GrantIds \cup {NoGrant}]

TypeOK ==
    /\ GrantStoreTypeOK
    /\ StreamTypeOK
    /\ hub \in HubStates
    /\ owner \in [Tools -> Plugins \cup {NoPlugin}]
    /\ token \in [OAuthPlugins -> TokenStates]
    /\ call \in [Calls -> Keys \cup {NoKey}]
    /\ pc \in [Calls -> Stages]
    /\ held \in [Calls -> GrantIds \cup {NoGrant}]
    /\ orphaned \subseteq Calls
    /\ ran \subseteq Calls
    /\ audit \in [Calls -> Seq(AuditRows)]

Init ==
    /\ GrantStoreInit
    /\ StreamInit
    /\ hub = "up"
    /\ owner = [t \in Tools |-> NoPlugin]
    /\ token = [p \in OAuthPlugins |-> "absent"]
    /\ call = [c \in Calls |-> NoKey]
    /\ pc = [c \in Calls |-> "idle"]
    /\ held = [c \in Calls |-> NoGrant]
    /\ orphaned = {}
    /\ ran = {}
    /\ audit = [c \in Calls |-> <<>>]

Ask(c) == <<c, "grant">>

Serving == hub \in {"up", "draining"}

WaitingCalls == {c \in Calls : pc[c] \in Waiting}

WaitingFor(p) == {c \in WaitingCalls : call[c].plugin = p}

\* Every call of cs moves to stage s.
Enter(cs, s) == pc' = [c \in Calls |-> IF c \in cs THEN s ELSE pc[c]]

\* audit.append, one row for every call of cs.
Log(cs, d) ==
    audit' = [c \in Calls |->
                IF c \in cs THEN Append(audit[c], [decision |-> d, grant |-> held[c]])
                            ELSE audit[c]]

-----------------------------------------------------------------------------
(***************************************************************************)
(* The handler.                                                            *)
(***************************************************************************)

\* What follows the grant.  An expiring token is refreshed first if there are
\* client credentials for it; a missing one makes getAccessToken throw outside
\* of the try block, and the generic handler answers 500.
AfterGrant(p) ==
    IF p \notin OAuthPlugins THEN {"running"}
    ELSE CASE token[p] = "fresh"    -> {"running"}
           [] token[p] = "expiring" -> {"running", "refreshing"}
           [] token[p] = "absent"   -> {"failed"}

\* The rest of handleCallTool once ensureGrant has returned g: up to its next
\* await, which is the refresh or plugin.callTool.
Proceed(c, g, p) ==
    \E s \in AfterGrant(p) :
        /\ held' = [held EXCEPT ![c] = g]
        /\ Enter({c}, s)
        /\ ran' = IF s = "running" THEN ran \cup {c} ELSE ran
        /\ UNCHANGED <<orphaned, audit>>

\* 404: no plugin serves the tool.
CallUnknownTool(c, t) ==
    /\ Serving
    /\ pc[c] = "idle"
    /\ owner[t] = NoPlugin
    /\ Enter({c}, "unknown")
    /\ UNCHANGED <<grants, streamVars, hub, owner, token, call, held, orphaned, ran, audit>>

KeyOf(t, a) == [tool |-> t, plugin |-> owner[t], agent |-> a, delegated_by |-> Local]

\* ensureGrant finds an active grant of the call's key.
CallWithGrant(c, t, a) ==
    /\ Serving
    /\ pc[c] = "idle"
    /\ owner[t] # NoPlugin
    /\ call' = [call EXCEPT ![c] = KeyOf(t, a)]
    /\ \E g \in FindActive(KeyOf(t, a)) : Proceed(c, g, owner[t])
    /\ UNCHANGED <<grants, streamVars, hub, owner, token>>

\* ensureGrant finds none and asks the user.
CallAsks(c, t, a) ==
    /\ Serving
    /\ pc[c] = "idle"
    /\ owner[t] # NoPlugin
    /\ FindActive(KeyOf(t, a)) = {}
    /\ call' = [call EXCEPT ![c] = KeyOf(t, a)]
    /\ RequestApproval(Ask(c))
    /\ Enter({c}, "asking")
    /\ UNCHANGED <<grants, hub, owner, token, held, orphaned, ran, audit>>

\* (Wrong on purpose: the tool's route is read again after the wait.)
ApproveRereadsRoute(c, m) ==
    /\ pc[c] = "asking"
    /\ m.request = Ask(c)
    /\ m.decision = "approved"
    /\ Settle(m)
    /\ \E g \in GrantIds :
         /\ CreateGrant(g, [call[c] EXCEPT !.plugin = owner[call[c].tool]])
         /\ Proceed(c, g, call[c].plugin)
    /\ UNCHANGED <<hub, owner, token, call>>

\* The user approves: a new grant, even if another call of the same key got
\* one meanwhile, and the call goes on.
Approve(c, m) ==
    /\ pc[c] = "asking"
    /\ m.request = Ask(c)
    /\ m.decision = "approved"
    /\ Settle(m)
    /\ \E g \in GrantIds : CreateGrant(g, call[c]) /\ Proceed(c, g, call[c].plugin)
    /\ UNCHANGED <<hub, owner, token, call>>

\* ensureGrant throws: a 'denied' row and 403.
Refuse(cs) ==
    /\ Enter(cs, "denied")
    /\ Log(cs, "denied")
    /\ UNCHANGED <<call, held, orphaned, ran>>

\* (Wrong on purpose: any answer lets the call go on.)
DenyGoesOn(c, m) ==
    /\ pc[c] = "asking"
    /\ m.request = Ask(c)
    /\ m.decision = "denied"
    /\ Settle(m)
    /\ \E g \in GrantIds : CreateGrant(g, call[c]) /\ Proceed(c, g, call[c].plugin)
    /\ UNCHANGED <<hub, owner, token, call>>

Deny(c, m) ==
    /\ pc[c] = "asking"
    /\ m.request = Ask(c)
    /\ m.decision = "denied"
    /\ Settle(m)
    /\ Refuse({c})
    /\ UNCHANGED <<grants, hub, owner, token>>

\* (Wrong on purpose: the timer resolves the promise instead of rejecting it.)
TimeOutAllows(c) ==
    /\ pc[c] = "asking"
    /\ TimerFires(Ask(c))
    /\ \E g \in GrantIds : CreateGrant(g, call[c]) /\ Proceed(c, g, call[c].plugin)
    /\ UNCHANGED <<hub, owner, token, call>>

TimeOut(c) ==
    /\ pc[c] = "asking"
    /\ TimerFires(Ask(c))
    /\ Refuse({c})
    /\ UNCHANGED <<grants, hub, owner, token>>

LateAnswer(m) ==
    /\ IgnoreLateAnswer(m)
    /\ UNCHANGED <<grants, hub, owner, token, callVars>>

\* The call goes on with what the vault holds after the refresh.
UseToken(c, state) ==
    /\ Enter({c}, IF state = "absent" THEN "failed" ELSE "running")
    /\ ran' = IF state = "absent" THEN ran ELSE ran \cup {c}
    /\ UNCHANGED <<call, held, orphaned, audit>>

\* refreshAccessToken stores what the provider sent, also over a row deleted
\* since ...
RefreshSucceeds(c) ==
    /\ pc[c] = "refreshing"
    /\ token' = [token EXCEPT ![call[c].plugin] = "fresh"]
    /\ UseToken(c, "fresh")
    /\ UNCHANGED <<grants, streamVars, hub, owner>>

\* ... and its failure is only logged.
RefreshFails(c) ==
    /\ pc[c] = "refreshing"
    /\ UseToken(c, token[call[c].plugin])
    /\ UNCHANGED <<grants, streamVars, hub, owner, token>>

\* A process that is gone cannot answer: its call can only time out.
PluginSucceeds(c) ==
    /\ pc[c] = "running"
    /\ c \notin orphaned
    /\ Enter({c}, "ok")
    /\ Log({c}, "approved")
    /\ UNCHANGED <<grants, streamVars, hub, owner, token, call, held, orphaned, ran>>

\* (Wrong on purpose: a request to a process that is gone has no timeout.)
PluginFailsIfAlive(c) ==
    /\ pc[c] = "running"
    /\ c \notin orphaned
    /\ Enter({c}, "error")
    /\ Log({c}, "error")
    /\ UNCHANGED <<grants, streamVars, hub, owner, token, call, held, orphaned, ran>>

\* An error response, or the 30 s timeout of PluginProcess.request.
PluginFails(c) ==
    /\ pc[c] = "running"
    /\ Enter({c}, "error")
    /\ Log({c}, "error")
    /\ UNCHANGED <<grants, streamVars, hub, owner, token, call, held, orphaned, ran>>

-----------------------------------------------------------------------------
(***************************************************************************)
(* The registry, the vault, the owner's revocations.                       *)
(***************************************************************************)

\* registry.register: the last writer of a tool's route wins.
Register(p, ts) ==
    /\ hub = "up"
    /\ ts # {}
    /\ \A t \in Tools : owner[t] # p
    /\ owner' = [t \in Tools |-> IF t \in ts THEN p ELSE owner[t]]
    /\ UNCHANGED <<grants, streamVars, hub, token, callVars>>

\* (Wrong on purpose: the calls cut off by the exit are not audited.)
PluginExitsUnaudited(p) ==
    LET cut == {c \in WaitingFor(p) : pc[c] = "running" /\ c \notin orphaned} IN
    /\ Serving
    /\ \E t \in Tools : owner[t] = p
    /\ owner' = [t \in Tools |-> IF owner[t] = p THEN NoPlugin ELSE owner[t]]
    /\ Enter(cut, "error")
    /\ orphaned' = orphaned \cup (WaitingFor(p) \ cut)
    /\ UNCHANGED <<grants, streamVars, hub, token, call, held, ran, audit>>

\* The subprocess exits: cleanup() rejects the requests it had not answered and
\* onExit drops its routes.  Calls that still wait for the user or for a token
\* keep the PluginProcess object.
PluginExits(p) ==
    LET cut == {c \in WaitingFor(p) : pc[c] = "running" /\ c \notin orphaned} IN
    /\ Serving
    /\ \E t \in Tools : owner[t] = p
    /\ owner' = [t \in Tools |-> IF owner[t] = p THEN NoPlugin ELSE owner[t]]
    /\ Enter(cut, "error")
    /\ Log(cut, "error")
    /\ orphaned' = orphaned \cup (WaitingFor(p) \ cut)
    /\ UNCHANGED <<grants, streamVars, hub, token, call, held, ran>>

\* An OAuth callback stores a token, a token nears its expiry, or
\* DELETE /v1/tokens/:plugin.
TokenChanges(p, state) ==
    /\ state = "expiring" => token[p] = "fresh"
    /\ state # "expiring" => Serving
    /\ token' = [token EXCEPT ![p] = state]
    /\ UNCHANGED <<grants, streamVars, hub, owner, callVars>>

\* DELETE /v1/grants/:id.  The phones are told, but match the grant's id
\* against the request ids of their cards, so no card goes.
Revoke(g) ==
    /\ Serving
    /\ RevokeRow(g)
    /\ UNCHANGED <<streamVars, hub, owner, token, callVars>>

-----------------------------------------------------------------------------
(***************************************************************************)
(* Phones, clock, and the life of the process.                             *)
(***************************************************************************)

PhoneConnects(p) ==
    /\ Serving
    /\ Connect(p)
    /\ UNCHANGED <<grants, hub, owner, token, callVars>>

PhoneDisconnects(p) ==
    /\ Disconnect(p)
    /\ UNCHANGED <<grants, hub, owner, token, callVars>>

UserTaps(p, r, d) ==
    /\ Tap(p, r, d)
    /\ UNCHANGED <<grants, hub, owner, token, callVars>>

Tick ==
    /\ AgeGrants
    /\ AgeTimers
    /\ UNCHANGED <<clients, promise, cards, wire, consents, hub, owner, token, callVars>>

\* SIGTERM: registry.shutdownAll() stops the plugins (PluginExits) first ...
BeginShutdown ==
    /\ hub = "up"
    /\ hub' = "draining"
    /\ UNCHANGED <<grants, streamVars, owner, token, callVars>>

\* (Wrong on purpose: close() drops what is pending without rejecting it.)
StopServerForgets ==
    /\ hub = "draining"
    /\ \A t \in Tools : owner[t] = NoPlugin
    /\ hub' = "closing"
    /\ StreamDown("closed")
    /\ UNCHANGED <<grants, owner, token, callVars>>

\* ... then server.stop() closes the stream, which rejects every request ...
StopServer ==
    /\ hub = "draining"
    /\ \A t \in Tools : owner[t] = NoPlugin
    /\ hub' = "closing"
    /\ StreamDown("closed")
    /\ Refuse({c \in Calls : pc[c] \in {"consulting", "asking"}})
    /\ UNCHANGED <<grants, owner, token>>

\* ... and server.close() waits for the requests still in flight.
Exit ==
    /\ hub = "closing"
    /\ WaitingCalls = {}
    /\ hub' = "down"
    /\ UNCHANGED <<grants, streamVars, owner, token, callVars>>

\* The process dies: grants and tokens are in SQLite, everything else is gone.
Crash ==
    /\ hub # "down"
    /\ hub' = "down"
    /\ owner' = [t \in Tools |-> NoPlugin]
    /\ StreamDown("lost")
    /\ Enter(WaitingCalls, "lost")
    /\ UNCHANGED <<grants, token, call, held, orphaned, ran, audit>>

Restart ==
    /\ hub = "down"
    /\ hub' = "up"
    /\ UNCHANGED <<grants, streamVars, owner, token, callVars>>

-----------------------------------------------------------------------------

\* What the handler of one call does.
Handler(c) ==
    \/ \E t \in Tools : CallUnknownTool(c, t)
    \/ \E t \in Tools, a \in Agents : CallWithGrant(c, t, a) \/ CallAsks(c, t, a)
    \/ \E m \in wire : Approve(c, m) \/ Deny(c, m)
    \/ TimeOut(c)
    \/ RefreshSucceeds(c) \/ RefreshFails(c)
    \/ PluginSucceeds(c) \/ PluginFails(c)

Environment ==
    \/ \E m \in wire : LateAnswer(m)
    \/ \E p \in Plugins, ts \in SUBSET Tools : Register(p, ts)
    \/ \E p \in Plugins : PluginExits(p)
    \/ \E p \in OAuthPlugins, s \in TokenStates : TokenChanges(p, s)
    \/ \E g \in GrantIds : Revoke(g)
    \/ \E p \in Phones : PhoneConnects(p) \/ PhoneDisconnects(p)
    \/ \E p \in Phones, r \in Requests, d \in Decisions : UserTaps(p, r, d)
    \/ BeginShutdown \/ StopServer \/ Restart

Next == (\E c \in Calls : Handler(c)) \/ Environment \/ Tick \/ Exit \/ Crash

Spec == Init /\ [][Next]_vars

\* Timers fire once due, fetch and PluginProcess.request give up on their own,
\* and server.close() returns once nothing is in flight.  No fairness is asked
\* of users, phones or agents.
Fairness ==
    /\ WF_vars(Tick)
    /\ WF_vars(Exit)
    /\ \A c \in Calls :
        /\ WF_vars(TimeOut(c))
        /\ WF_vars(RefreshSucceeds(c) \/ RefreshFails(c))
        /\ WF_vars(PluginFails(c))

FairSpec == Spec /\ Fairness

-----------------------------------------------------------------------------
(***************************************************************************)
(* Properties.                                                             *)
(***************************************************************************)

\* Rows of the grants table are earned one by one: there are never more of a
\* key than calls of that key whose own request the user approved.  Timeouts,
\* denials, late second answers and restarts never leave a row behind.
GrantsAreEarned ==
    \A k \in {grants[g].key : g \in DOMAIN grants} :
        Cardinality({g \in DOMAIN grants : grants[g].key = k})
            <= Cardinality({c \in Calls : call[c] = k /\ promise[Ask(c)] = "approved"})

\* A call that reached a plugin holds a grant for its own tool, plugin, agent
\* and origin, and behind that grant is a tap of the user on the card of some
\* call of the same key (ensureGrant, findActive's match key).
RunsOnConsent ==
    \A c \in ran :
        /\ held[c] \in DOMAIN grants
        /\ grants[held[c]].key = call[c]
        /\ \E d \in Calls :
             /\ call[d] = call[c]
             /\ promise[Ask(d)] = "approved"
             /\ Ask(d) \in consents

\* A call whose request was denied, timed out, was cut by close() or by a crash
\* never gets a grant and never reaches a plugin, whatever a phone that still
\* shows its card sends later.
RefusalIsFinal ==
    \A c \in Calls :
        promise[Ask(c)] \in {"denied", "timeout", "closed", "lost"} =>
            /\ pc[c] \in {"denied", "lost"}
            /\ held[c] = NoGrant
            /\ c \notin ran

\* A request is settled once: of two phones that answer, or an answer and the
\* timer, or close() and either, the first decides and the others change nothing.
AnswerStands ==
    [][\A r \in Requests :
          promise[r] \notin {"none", "pending"} => promise'[r] = promise[r]]_vars

\* The audit log tells the story of a call that was refused or that the plugin
\* answered, well or with an error, in one row, and of no call in two or before it is
\* decided: the plugin was reached under 'approved' and 'error', under the grant of
\* the row, and 'denied' rows belong to calls that never ran.
AuditTellsTheStory ==
    \A c \in Calls :
        /\ Len(audit[c]) <= IF pc[c] \in Waiting THEN 0 ELSE 1
        /\ pc[c] \in {"ok", "error", "denied"} => Len(audit[c]) = 1
        /\ \A i \in DOMAIN audit[c] :
             LET row == audit[c][i] IN
             IF row.decision = "denied"
               THEN row.grant = NoGrant /\ c \notin ran
               ELSE /\ c \in ran
                    /\ row.grant \in DOMAIN grants
                    /\ grants[row.grant].key = call[c]

\* The handler and its grants implement the gate: ids that are active are the
\* licences still good, and a call's licence is the grant it holds.
Gate == INSTANCE GrantGate WITH
    Things <- Keys, Licences <- GrantIds, Nothing <- NoKey, None <- NoGrant,
    wanted <- call,
    issued <- [g \in DOMAIN grants |-> grants[g].key],
    good <- {g \in DOMAIN grants : Active(g)},
    licence <- held

GateHolds == Gate!Spec

-----------------------------------------------------------------------------
(***************************************************************************)
(* Why the safety properties hold: the inductive invariant.  The promise   *)
(* of a request and the stage of its call move together, a call holds a    *)
(* grant of its own key or none, and consent is never made up on the way.  *)
(***************************************************************************)

CallInv(c) ==
    /\ pc[c] \in {"idle", "unknown"} =>
         call[c] = NoKey /\ promise[Ask(c)] = "none" /\ held[c] = NoGrant
    /\ pc[c] \notin {"idle", "unknown"} => call[c] \in Keys
    /\ pc[c] = "asking" <=> promise[Ask(c)] = "pending"
    /\ promise[Ask(c)] \in {"denied", "timeout", "closed"} => pc[c] = "denied"
    /\ promise[Ask(c)] = "lost" => pc[c] = "lost"
    /\ promise[Ask(c)] \in {"pending", "denied", "timeout", "closed", "lost"} => held[c] = NoGrant
    /\ pc[c] \in {"refreshing", "running"} => held[c] # NoGrant
    /\ c \in ran => held[c] # NoGrant
    /\ held[c] # NoGrant => held[c] \in DOMAIN grants /\ grants[held[c]].key = call[c]

GrantInv ==
    \A g \in DOMAIN grants :
        \E d \in Calls : call[d] = grants[g].key /\ promise[Ask(d)] = "approved"

ConsentInv ==
    /\ \A m \in wire : m.decision = "approved" => m.request \in consents
    /\ \A r \in Requests : promise[r] = "approved" => r \in consents

IInv == TypeOK /\ (\A c \in Calls : CallInv(c)) /\ GrantInv /\ ConsentInv

-----------------------------------------------------------------------------

\* Every call is answered: no interleaving of phones that leave, plugins that
\* exit, shutdowns and crashes leaves a handler waiting for ever.
EveryCallAnswered == \A c \in Calls : pc[c] \in Waiting ~> pc[c] \in Ended

\* server.close() is reached with every handler on its way out: the stop ends.
StopEnds == hub = "closing" ~> hub = "down"

\* docs/architecture.md: every tool call checks that its grant is valid first.
\* What is written to a plugin is written under a grant good at that moment.
RunsUnderLiveGrant ==
    [][\A c \in ran' \ ran : held'[c] \in DOMAIN grants' /\ Active(held[c])']_vars
=============================================================================
