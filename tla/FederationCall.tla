---------------------------- MODULE FederationCall ----------------------------
(***************************************************************************)
(* A peer hub's tool call (hub-core/src/server.ts handleFederationCall),   *)
(* beside the hub's own calls and in the same grants table.                *)
(*                                                                         *)
(* A peer's request is signed once and may be delivered any number of      *)
(* times, at any later moment.  Each delivery runs the checks in the       *)
(* code's order, then a dialog of its own on the phone (every call, grant  *)
(* or not), then ensureGrant with the peer's key, which opens a second     *)
(* dialog when the peer has no active grant, then the plugin.              *)
(*                                                                         *)
(* Signatures are the assumption that a message is what its peer signed;   *)
(* the checks that parse headers and bodies are left out with it.          *)
(***************************************************************************)
EXTENDS ToolCall, NonceStore, Integers

CONSTANTS
    PeerCalls,      \* the calls that are deliveries to /v1/federation/call
    DelegationIds,  \* the uuids of delegations
    DelegationTTL,  \* the longest a delegation may be given
    MaxSkew,        \* the clock skew tolerated, inclusive (300 s)
    ClockErrors,    \* how far peers' clocks may be off: our now minus theirs
    FedLimit,       \* calls of one (peer, agent) per window (10)
    FedWindow,      \* the window (60 s)
    NoRequest       \* a call that is no delivery yet

ASSUME PeerCallsAssumption == PeerCalls \subseteq Calls
ASSUME FederatedDialogAssumption == "delegation" \in Dialogs
ASSUME ClockAssumption == MaxSkew \in Nat /\ ClockErrors \subseteq Int
ASSUME LimitAssumption ==
    FedLimit \in Nat \ {0} /\ FedWindow \in Nat \ {0} /\ DelegationTTL \in Nat

VARIABLES
    granted,   \* the `delegations` table: a function from ids to rows
    signed,    \* requests peers have signed: a function from request ids
    skew,      \* [DOMAIN signed -> Int]: now - timestamp of the request
    msg,       \* [Calls -> RequestIds]: which request a delivery carries
    window     \* federatedRateLimits: the time each slot's call has left

fedVars == <<granted, signed, skew, msg, window, seen>>
allVars == <<vars, fedVars>>

-----------------------------------------------------------------------------

Delegations == [peer : Peers, tool : Tools, plugin : Plugins,
                ttl : 0 .. DelegationTTL, revoked : BOOLEAN]

PeerRequests == [peer : Peers, delegation : DelegationIds, tool : Tools, agent : Agents]

\* How a delivery may end before anything is asked of the user.
Bounces == {"CLOCK_SKEW", "REPLAY", "DELEGATION_NOT_FOUND", "DELEGATION_REVOKED",
            "DELEGATION_EXPIRED", "PEER_MISMATCH", "TOOL_MISMATCH",
            "NO_APPROVER_CONNECTED", "RATE_LIMIT", "UNKNOWN_TOOL"}

\* A timestamp older than this is refused for good: ages stop here.
TooOld == MaxSkew + 1

\* The calls of one (peer, agent) in its window, of which there are never more
\* than FedLimit: a slot that no call holds has no time left.
EmptyWindow == [n \in 1 .. FedLimit |-> 0]

Full(k) == \A n \in 1 .. FedLimit : window[k][n] > 0

FreeSlot(k) == CHOOSE n \in 1 .. FedLimit : window[k][n] = 0

FedTypeOK ==
    /\ GrantStoreTypeOK
    /\ StreamTypeOK
    /\ NonceTypeOK
    /\ hub \in HubStates
    /\ owner \in [Tools -> Plugins \cup {NoPlugin}]
    /\ token \in [OAuthPlugins -> TokenStates]
    /\ call \in [Calls -> Keys \cup {NoKey}]
    /\ pc \in [Calls -> Stages \cup Bounces]
    /\ held \in [Calls -> GrantIds \cup {NoGrant}]
    /\ orphaned \subseteq Calls
    /\ ran \subseteq Calls
    /\ audit \in [Calls -> Seq(AuditRows)]
    /\ DOMAIN granted \subseteq DelegationIds
    /\ granted \in [DOMAIN granted -> Delegations]
    /\ DOMAIN signed \subseteq RequestIds
    /\ signed \in [DOMAIN signed -> PeerRequests]
    /\ skew \in [DOMAIN signed -> Int]
    /\ msg \in [Calls -> RequestIds \cup {NoRequest}]
    /\ window \in [Peers \X Agents -> [1 .. FedLimit -> 0 .. FedWindow]]

FedInit ==
    /\ Init
    /\ NonceInit
    /\ granted = [d \in {} |-> 0]
    /\ signed = [r \in {} |-> 0]
    /\ skew = [r \in {} |-> 0]
    /\ msg = [c \in Calls |-> NoRequest]
    /\ window = [k \in Peers \X Agents |-> EmptyWindow]

-----------------------------------------------------------------------------
(***************************************************************************)
(* The peers, and the owner's delegations.                                 *)
(***************************************************************************)

\* handleCreateDelegation: the tool must be served now, by the plugin named.
CreateDelegation(d, p, t, ttl) ==
    /\ Serving
    /\ d \notin DOMAIN granted
    /\ ttl > 0
    /\ owner[t] # NoPlugin
    /\ granted' = [e \in DOMAIN granted \cup {d} |->
                     IF e = d THEN [peer |-> p, tool |-> t, plugin |-> owner[t],
                                    ttl |-> ttl, revoked |-> FALSE]
                              ELSE granted[e]]
    /\ UNCHANGED <<vars, seen, signed, skew, msg, window>>

\* handleRevokeDelegation.
RevokeDelegation(d) ==
    /\ Serving
    /\ d \in DOMAIN granted
    /\ granted' = [granted EXCEPT ![d].revoked = TRUE]
    /\ UNCHANGED <<vars, seen, signed, skew, msg, window>>

\* A peer signs a request, its clock off by e.
Sign(r, m, e) ==
    /\ r \notin DOMAIN signed
    /\ signed' = [q \in DOMAIN signed \cup {r} |-> IF q = r THEN m ELSE signed[q]]
    /\ skew' = [q \in DOMAIN signed \cup {r} |-> IF q = r THEN e ELSE skew[q]]
    /\ UNCHANGED <<vars, seen, granted, msg, window>>

-----------------------------------------------------------------------------
(***************************************************************************)
(* The handler, up to its first await.                                     *)
(***************************************************************************)

\* (Wrong on purpose: a delegation serves whoever presents it.)
UnbackedAnyPeer(m) ==
    LET d == granted[m.delegation] IN
    IF m.delegation \notin DOMAIN granted THEN "DELEGATION_NOT_FOUND"
    ELSE IF d.revoked THEN "DELEGATION_REVOKED"
    ELSE IF d.ttl = 0 THEN "DELEGATION_EXPIRED"
    ELSE IF d.tool # m.tool THEN "TOOL_MISMATCH"
    ELSE ""

\* What is wrong with the delegation a request names, "" if nothing is.
Unbacked(m) ==
    LET d == granted[m.delegation] IN
    IF m.delegation \notin DOMAIN granted THEN "DELEGATION_NOT_FOUND"
    ELSE IF d.revoked THEN "DELEGATION_REVOKED"
    ELSE IF d.ttl = 0 THEN "DELEGATION_EXPIRED"
    ELSE IF d.peer # m.peer THEN "PEER_MISMATCH"
    ELSE IF d.tool # m.tool THEN "TOOL_MISMATCH"
    ELSE ""

\* (Wrong on purpose: the delegation is taken as proof that the tool exists.)
UnservableUnrouted(m) ==
    IF clients = {} THEN "NO_APPROVER_CONNECTED"
    ELSE IF Full(<<m.peer, m.agent>>) THEN "RATE_LIMIT"
    ELSE ""

\* Why a good request cannot be served now.
Unservable(m) ==
    IF clients = {} THEN "NO_APPROVER_CONNECTED"
    ELSE IF Full(<<m.peer, m.agent>>) THEN "RATE_LIMIT"
    ELSE IF owner[m.tool] = NoPlugin THEN "UNKNOWN_TOOL"
    ELSE ""

\* The checks in their order: the first that fails answers, "" if none does.
Verdict(r) ==
    IF skew[r] > MaxSkew \/ -skew[r] > MaxSkew THEN "CLOCK_SKEW"
    ELSE IF SeenRecently(r) THEN "REPLAY"
    ELSE IF Unbacked(signed[r]) # "" THEN Unbacked(signed[r])
    ELSE Unservable(signed[r])

\* The request_id is recorded once the request is known to be good, and a slot
\* of the window is taken once a phone is known to be there.
Recorded == {"NO_APPROVER_CONNECTED", "RATE_LIMIT", "UNKNOWN_TOOL", ""}
Counted == {"UNKNOWN_TOOL", ""}

Checked(c, r) ==
    LET v == Verdict(r)
        k == <<signed[r].peer, signed[r].agent>> IN
    /\ Serving
    /\ pc[c] = "idle"
    /\ msg' = [msg EXCEPT ![c] = r]
    /\ IF v \in Recorded THEN RecordNonce(r) ELSE UNCHANGED seen
    /\ window' = IF v \in Counted THEN [window EXCEPT ![k][FreeSlot(k)] = FedWindow] ELSE window
    /\ UNCHANGED <<granted, signed, skew>>

\* A check fails: a 'denied' row, and the status the code gives it.
Bounce(c, r) ==
    /\ Verdict(r) # ""
    /\ Checked(c, r)
    /\ Enter({c}, Verdict(r))
    /\ Log({c}, "denied")
    /\ UNCHANGED <<grants, streamVars, hub, owner, token, call, held, orphaned, ran>>

PeerKey(m) ==
    [tool |-> m.tool, plugin |-> owner[m.tool], agent |-> m.agent, delegated_by |-> m.peer]

Consult(c) == <<c, "delegation">>

\* The token is fetched before the user is asked; `state` is what the vault
\* holds then.  A missing one is a 500 thrown past every audit.append.
AskForDelegation(c, state) ==
    \/ /\ state = "absent"
       /\ Enter({c}, "failed")
       /\ UNCHANGED streamVars
    \/ /\ state # "absent"
       /\ RequestApproval(Consult(c))
       /\ Enter({c}, "consulting")

\* The request is good.  An expiring token is refreshed first, the phone that
\* was there a moment ago notwithstanding.
Admit(c, r) ==
    LET p == owner[signed[r].tool]
        state == IF p \in OAuthPlugins THEN token[p] ELSE "fresh" IN
    /\ Verdict(r) = ""
    /\ Checked(c, r)
    /\ call' = [call EXCEPT ![c] = PeerKey(signed[r])]
    /\ \/ AskForDelegation(c, state)
       \/ /\ state = "expiring"
          /\ Enter({c}, "refreshing")
          /\ UNCHANGED streamVars
    /\ UNCHANGED <<grants, hub, owner, token, held, orphaned, ran, audit>>

-----------------------------------------------------------------------------
(***************************************************************************)
(* After an await.                                                         *)
(***************************************************************************)

PeerRefreshSucceeds(c) ==
    /\ pc[c] = "refreshing"
    /\ token' = [token EXCEPT ![call[c].plugin] = "fresh"]
    /\ AskForDelegation(c, "fresh")
    /\ UNCHANGED <<grants, hub, owner, call, held, orphaned, ran, audit>>

PeerRefreshFails(c) ==
    /\ pc[c] = "refreshing"
    /\ AskForDelegation(c, token[call[c].plugin])
    /\ UNCHANGED <<grants, hub, owner, token, call, held, orphaned, ran, audit>>

\* plugin.callTool, under grant g.
Run(c, g) ==
    /\ held' = [held EXCEPT ![c] = g]
    /\ Enter({c}, "running")
    /\ ran' = ran \cup {c}
    /\ UNCHANGED <<hub, owner, token, call, orphaned, audit>>

\* (Wrong on purpose: the delegation dialog's answer is not read.)
ConsentUnread(c, m) ==
    /\ pc[c] = "consulting"
    /\ m.request = Consult(c)
    /\ Settle(m)
    /\ \E g \in FindActive(call[c]) : Run(c, g)
    /\ UNCHANGED grants

\* The delegation dialog is approved and the peer has an active grant ...
ConsentWithGrant(c, m) ==
    /\ pc[c] = "consulting"
    /\ m.request = Consult(c)
    /\ m.decision = "approved"
    /\ Settle(m)
    /\ \E g \in FindActive(call[c]) : Run(c, g)
    /\ UNCHANGED grants

\* ... or it has none, and ensureGrant asks a second time, as for a local call.
ConsentAsksAgain(c, m) ==
    /\ pc[c] = "consulting"
    /\ m.request = Consult(c)
    /\ m.decision = "approved"
    /\ FindActive(call[c]) = {}
    /\ SettleAndRequest(m, Ask(c))
    /\ Enter({c}, "asking")
    /\ UNCHANGED <<grants, hub, owner, token, call, held, orphaned, ran, audit>>

\* The second dialog is approved: a grant for the peer.
PeerApprove(c, m) ==
    /\ pc[c] = "asking"
    /\ m.request = Ask(c)
    /\ m.decision = "approved"
    /\ Settle(m)
    /\ \E g \in GrantIds : CreateGrant(g, call[c]) /\ Run(c, g)

\* (Wrong on purpose: the answer to the second dialog is not read.)
PeerDenyGoesOn(c, m) ==
    /\ m.decision = "denied"
    /\ Settle(m)
    /\ \/ /\ pc[c] = "consulting"
          /\ m.request = Consult(c)
          /\ Refuse({c})
          /\ UNCHANGED <<grants, hub, owner, token>>
       \/ /\ pc[c] = "asking"
          /\ m.request = Ask(c)
          /\ \E g \in GrantIds : CreateGrant(g, call[c]) /\ Run(c, g)

\* Either dialog is denied or times out: a 'denied' row and 403.
PeerDeny(c, m) ==
    /\ \/ pc[c] = "consulting" /\ m.request = Consult(c)
       \/ pc[c] = "asking" /\ m.request = Ask(c)
    /\ m.decision = "denied"
    /\ Settle(m)
    /\ Refuse({c})
    /\ UNCHANGED <<grants, hub, owner, token>>

\* (Wrong on purpose: a dialog with a budget of its own gets no timer.)
PeerTimeOutGrantOnly(c) ==
    /\ pc[c] = "asking" /\ TimerFires(Ask(c))
    /\ Refuse({c})
    /\ UNCHANGED <<grants, hub, owner, token>>

PeerTimeOut(c) ==
    /\ \/ pc[c] = "consulting" /\ TimerFires(Consult(c))
       \/ pc[c] = "asking" /\ TimerFires(Ask(c))
    /\ Refuse({c})
    /\ UNCHANGED <<grants, hub, owner, token>>

Continue(c) ==
    \/ PeerRefreshSucceeds(c) \/ PeerRefreshFails(c)
    \/ \E m \in wire : \/ ConsentWithGrant(c, m) \/ ConsentAsksAgain(c, m)
                       \/ PeerApprove(c, m) \/ PeerDeny(c, m)
    \/ PeerTimeOut(c)
    \/ PluginSucceeds(c) \/ PluginFails(c)

-----------------------------------------------------------------------------

AgeFederation ==
    /\ AgeNonces
    /\ granted' = [d \in DOMAIN granted |->
                     [granted[d] EXCEPT !.ttl = IF @ = 0 THEN 0 ELSE @ - 1]]
    /\ skew' = [r \in DOMAIN signed |-> IF skew[r] = TooOld THEN TooOld ELSE skew[r] + 1]
    /\ window' = [k \in DOMAIN window |->
                    [n \in 1 .. FedLimit |-> IF window[k][n] = 0 THEN 0 ELSE window[k][n] - 1]]
    /\ UNCHANGED <<signed, msg>>

\* The process loses its rate-limit window; nonces and delegations are in SQLite.
FedCrash ==
    /\ Crash
    /\ window' = [k \in DOMAIN window |-> EmptyWindow]
    /\ UNCHANGED <<granted, signed, skew, msg, seen>>

FedExit ==
    /\ Exit
    /\ window' = [k \in DOMAIN window |-> EmptyWindow]
    /\ UNCHANGED <<granted, signed, skew, msg, seen>>

PeerHandler(c) ==
    \/ \E r \in DOMAIN signed : Bounce(c, r) \/ Admit(c, r)
    \/ Continue(c) /\ UNCHANGED fedVars

Peering ==
    \/ \E d \in DelegationIds, p \in Peers, t \in Tools, n \in 1 .. DelegationTTL :
         CreateDelegation(d, p, t, n)
    \/ \E d \in DelegationIds : RevokeDelegation(d)
    \/ \E r \in RequestIds, m \in PeerRequests, e \in ClockErrors : Sign(r, m, e)

FedNext ==
    \/ \E c \in PeerCalls : PeerHandler(c)
    \/ \E c \in Calls \ PeerCalls : Handler(c) /\ UNCHANGED fedVars
    \/ Environment /\ UNCHANGED fedVars
    \/ Peering
    \/ Tick /\ AgeFederation
    \/ FedCrash \/ FedExit

FedSpec == FedInit /\ [][FedNext]_allVars

\* As for local calls: clock, timers, fetch and the plugin's timeout.
FedFairness ==
    /\ WF_allVars(Tick /\ AgeFederation)
    /\ WF_allVars(FedExit)
    /\ \A c \in PeerCalls :
        /\ WF_allVars(PeerTimeOut(c) /\ UNCHANGED fedVars)
        /\ WF_allVars((PeerRefreshSucceeds(c) \/ PeerRefreshFails(c)) /\ UNCHANGED fedVars)
        /\ WF_allVars(PluginFails(c) /\ UNCHANGED fedVars)

FedFairSpec == FedSpec /\ FedFairness

-----------------------------------------------------------------------------
(***************************************************************************)
(* Properties.                                                             *)
(***************************************************************************)

PeerRuns == ran \cap PeerCalls

\* docs/architecture.md: A's phone approves every federated call.  A peer's
\* call that reached a plugin had its own delegation dialog approved on a
\* phone, and runs under a grant of the peer that signed it: neither a local
\* grant nor another peer's stands in for it, nor the peer's own from before.
EveryPeerCallApproved ==
    \A c \in PeerRuns :
        /\ promise[Consult(c)] = "approved"
        /\ Consult(c) \in consents
        /\ call[c].delegated_by = signed[msg[c]].peer
        /\ grants[held[c]].key = call[c]

\* A call admitted for a peer is one some user of this hub delegated to that
\* very peer, for that tool: what the checks read before the awaits still fits
\* the call that went through them.
AdmittedIsBacked ==
    \A c \in PeerCalls : call[c] # NoKey =>
        LET m == signed[msg[c]] IN
        /\ m.delegation \in DOMAIN granted
        /\ granted[m.delegation].peer = call[c].delegated_by
        /\ granted[m.delegation].tool = call[c].tool

\* A signed request runs at most once, however often it is delivered and
\* whatever crashes in between.
RunsAtMostOnce == \A c, d \in PeerRuns : msg[c] = msg[d] => c = d

\* No peer's call runs that either of its dialogs did not let through, and a
\* delivery that was bounced, refused or answered by the plugin, well or with an
\* error, has one audit row; none has two.
PeerRefusalIsFinal ==
    \A c \in PeerCalls :
        /\ {promise[Consult(c)], promise[Ask(c)]}
             \cap {"denied", "timeout", "closed", "lost"} # {} =>
               c \notin ran /\ held[c] = NoGrant /\ pc[c] \in {"denied", "lost"}
        /\ Len(audit[c]) <= 1
        /\ pc[c] \in {"ok", "error", "denied"} \cup Bounces => Len(audit[c]) = 1

\* A peer's call is answered whatever becomes of phones, plugin and hub: both
\* dialogs and the refresh between the checks and the first of them end.
PeerCallsAnswered == \A c \in PeerCalls : pc[c] \in Waiting ~> pc[c] \in Ended

\* docs/architecture.md: each delegation has a single (plugin, tool, scope)
\* triple.  What runs for a peer runs on the plugin the delegation names.
RunsOnDelegatedPlugin ==
    \A c \in PeerRuns : call[c].plugin = granted[signed[msg[c]].delegation].plugin
=============================================================================
