-------------------------------- MODULE Tokens --------------------------------
(***************************************************************************)
(* The OAuth token of one plugin: its row in the token vault               *)
(* (hub-core/src/token-vault.ts), the flows that obtain it (oauth-flow.ts),*)
(* the client credentials both need (plugin-oauth-store.ts) and the calls  *)
(* that read and refresh it (handleCallTool in server.ts).                 *)
(*                                                                         *)
(* Every exchange with the provider awaits an answer, and what was read    *)
(* before is used after.  The provider is external: it redeems a code      *)
(* once, knows which refresh tokens it still accepts and may rotate them.  *)
(* Encryption is left out: a row is read by the plugin it was written for. *)
(***************************************************************************)
EXTENDS Naturals

CONSTANTS
    Users,         \* calls of an OAuth plugin's tools, each of which uses the token
    Flows,         \* OAuth flows, named by their state
    MaxCallbacks,  \* redirects of one flow that arrive, a reload being a second
    Refreshes,     \* refresh tokens the provider can issue
    Policies,      \* what providers do at a refresh: each of them "rotate" or "keep"
    FixedPort,     \* TRUE: every flow listens on the configured port
    EnvConfigured, \* client credentials come from the environment
    NoRefresh,
    NoToken

ASSUME PoliciesAssumption == Policies \subseteq {"rotate", "keep"}
ASSUME RefreshesAssumption == Refreshes \cap {NoRefresh, "refused", "none", "waiting", "over"} = {}

VARIABLES
    policy,     \* the provider's
    row,        \* the vault's row: NoToken, or its refresh token and whether it expires soon
    stored,     \* the credentials store has a client for the plugin
    listening,  \* flows whose callback server is open
    flow,       \* startFlow and what it leaves in pendingFlows
    exchange,   \* exchangeCode, awaited by the flow's resolve: the token once redeemed
    codes,      \* codes the provider will redeem
    user,       \* stages of handleCallTool around the token
    sent,       \* the refresh token a refresh has read and sent
    answer,     \* the provider's answer on its way to the refresh
    valid,      \* refresh tokens the provider accepts
    lost        \* history: an answer with a rotated token never arrived

tokenVars == <<policy, row, stored, listening, flow, exchange, codes, user, sent, answer, valid, lost>>

TokenRows == [refresh : Refreshes \cup {NoRefresh}, soon : BOOLEAN]
Redirects == Flows \X (1 .. MaxCallbacks)

TokensTypeOK ==
    /\ policy \in Policies
    /\ row \in TokenRows \cup {NoToken}
    /\ stored \in BOOLEAN
    /\ listening \subseteq Flows
    /\ flow \in [Flows -> {"none", "starting", "pending", "gone"}]
    /\ exchange \in [Redirects -> Refreshes \cup {"none", "waiting", "over"}]
    /\ codes \subseteq Flows
    /\ user \in [Users -> {"idle", "refreshing", "running"}]
    /\ sent \in [Users -> Refreshes \cup {NoRefresh}]
    /\ answer \in [Users -> Refreshes \cup {NoRefresh, "refused"}]
    /\ valid \subseteq Refreshes
    /\ lost \in BOOLEAN

TokensInit ==
    /\ policy \in Policies
    /\ row = NoToken
    /\ stored = FALSE
    /\ listening = {}
    /\ flow = [f \in Flows |-> "none"]
    /\ exchange = [x \in Redirects |-> "none"]
    /\ codes = {}
    /\ user = [u \in Users |-> "idle"]
    /\ sent = [u \in Users |-> NoRefresh]
    /\ answer = [u \in Users |-> NoRefresh]
    /\ valid = {}
    /\ lost = FALSE

userVars == <<user, sent, answer>>
flowVars == <<listening, flow, exchange, codes>>

\* PluginOAuthStore.set and get: one row per plugin, sealed, replaced by the next.
SetCredentials == stored' = TRUE
HasCredentials == stored

\* resolveClientCredentials: the environment first, then the store.
Configured == EnvConfigured \/ HasCredentials

\* Refresh tokens that are neither accepted nor held by anybody.
Unissued ==
    {r \in Refreshes \ valid :
        /\ \A u \in Users : r \notin {sent[u], answer[u]}
        /\ \A x \in Redirects : r # exchange[x]
        /\ row = NoToken \/ row.refresh # r}

-----------------------------------------------------------------------------
(* Flows.                                                                  *)

\* PUT .../oauth/credentials.
PutCredentials ==
    /\ SetCredentials
    /\ UNCHANGED <<row, valid, lost, userVars, flowVars>>

\* The server listens before the flow has its entry; with a fixed port a flow
\* that is still open makes the next one fail at once.
Listens(f) ==
    IF FixedPort /\ listening # {}
    THEN flow' = [flow EXCEPT ![f] = "gone"] /\ UNCHANGED listening
    ELSE flow' = [flow EXCEPT ![f] = "starting"] /\ listening' = listening \cup {f}

\* handleStartOAuth: 409 without client credentials.
StartFlow(f) ==
    /\ flow[f] = "none"
    /\ Configured
    /\ Listens(f)
    /\ UNCHANGED <<row, stored, exchange, codes, valid, lost, userVars>>

\* After the PKCE challenge: the entry, the five-minute timer, the answer.
FlowPending(f) ==
    /\ flow[f] = "starting"
    /\ flow' = [flow EXCEPT ![f] = "pending"]
    /\ UNCHANGED <<row, stored, listening, exchange, codes, valid, lost, userVars>>

\* cleanup(): nothing for a flow without an entry.
Cleanup(f) ==
    IF flow[f] = "pending"
    THEN flow' = [flow EXCEPT ![f] = "gone"] /\ listening' = listening \ {f}
    ELSE UNCHANGED <<flow, listening>>

\* The user consents; the provider redirects the browser to the callback, and
\* a reload does so again.
Callback(x) ==
    /\ flow[x[1]] = "pending"
    /\ exchange[x] = "none"
    /\ \A i \in 1 .. (x[2] - 1) : exchange[<<x[1], i>>] # "none"
    /\ codes' = IF x[2] = 1 THEN codes \cup {x[1]} ELSE codes
    /\ exchange' = [exchange EXCEPT ![x] = "waiting"]
    /\ UNCHANGED <<row, stored, listening, flow, valid, lost, userVars>>

\* The redirect carries an error.
CallbackError(f) ==
    /\ flow[f] = "pending"
    /\ Cleanup(f)
    /\ UNCHANGED <<row, stored, exchange, codes, valid, lost, userVars>>

\* The provider redeems a code once.
Redeem(x, r) ==
    /\ exchange[x] = "waiting"
    /\ x[1] \in codes
    /\ r \in Unissued
    /\ codes' = codes \ {x[1]}
    /\ valid' = valid \cup {r}
    /\ exchange' = [exchange EXCEPT ![x] = r]
    /\ UNCHANGED <<row, stored, listening, flow, lost, userVars>>

\* exchangeCode returns: the tokens are stored, over whatever the vault holds,
\* and the flow is cleaned up, if its timer has not done so before.
StoreTokens(x) ==
    /\ exchange[x] \in Refreshes
    /\ row' = [refresh |-> exchange[x], soon |-> FALSE]
    /\ exchange' = [exchange EXCEPT ![x] = "over"]
    /\ Cleanup(x[1])
    /\ UNCHANGED <<stored, codes, valid, lost, userVars>>

\* Refused, or the answer never came.
ExchangeFails(x) ==
    /\ exchange[x] \in Refreshes \cup {"waiting"}
    /\ exchange' = [exchange EXCEPT ![x] = "over"]
    /\ Cleanup(x[1])
    /\ UNCHANGED <<row, stored, codes, valid, lost, userVars>>

FlowTimesOutUnused(f) ==
    /\ flow[f] = "pending"
    /\ \A i \in 1 .. MaxCallbacks : exchange[<<f, i>>] = "none"
    /\ Cleanup(f)
    /\ UNCHANGED <<row, stored, exchange, codes, valid, lost, userVars>>

\* Five minutes after the start, whether or not an exchange is under way.
FlowTimesOut(f) ==
    /\ flow[f] = "pending"
    /\ Cleanup(f)
    /\ UNCHANGED <<row, stored, exchange, codes, valid, lost, userVars>>

-----------------------------------------------------------------------------
(* Calls.                                                                  *)

\* getAccessToken, and the token goes to the plugin; without a row it throws.
ReadToken(u) == user' = [user EXCEPT ![u] = IF row' = NoToken THEN "idle" ELSE "running"]

\* A row that expires soon is refreshed first, if there is something to refresh
\* it with.
RefreshDue == row # NoToken /\ row.soon /\ row.refresh # NoRefresh /\ Configured

UseStoredToken(u) ==
    /\ user[u] = "idle"
    /\ ~RefreshDue
    /\ row' = row
    /\ ReadToken(u)
    /\ UNCHANGED <<stored, sent, answer, valid, lost, flowVars>>

BeginRefresh(u) ==
    /\ user[u] = "idle"
    /\ RefreshDue
    /\ user' = [user EXCEPT ![u] = "refreshing"]
    /\ sent' = [sent EXCEPT ![u] = row.refresh]
    /\ UNCHANGED <<row, stored, answer, valid, lost, flowVars>>

\* The provider, external: a rotated token replaces the one that was sent; an
\* answer without one means that the one that was sent stays.
ProviderRotates(u, r) ==
    /\ user[u] = "refreshing" /\ answer[u] = NoRefresh
    /\ policy = "rotate"
    /\ sent[u] \in valid
    /\ r \in Unissued
    /\ valid' = (valid \ {sent[u]}) \cup {r}
    /\ answer' = [answer EXCEPT ![u] = r]
    /\ UNCHANGED <<row, stored, user, sent, lost, flowVars>>

ProviderKeeps(u) ==
    /\ user[u] = "refreshing" /\ answer[u] = NoRefresh
    /\ policy = "keep"
    /\ sent[u] \in valid
    /\ answer' = [answer EXCEPT ![u] = sent[u]]
    /\ UNCHANGED <<row, stored, user, sent, valid, lost, flowVars>>

ProviderRefuses(u) ==
    /\ user[u] = "refreshing" /\ answer[u] = NoRefresh
    /\ sent[u] \notin valid
    /\ answer' = [answer EXCEPT ![u] = "refused"]
    /\ UNCHANGED <<row, stored, user, sent, valid, lost, flowVars>>

Forget(u) ==
    /\ sent' = [sent EXCEPT ![u] = NoRefresh]
    /\ answer' = [answer EXCEPT ![u] = NoRefresh]

RefreshReturnsKeepsSent(u) ==
    /\ answer[u] \in Refreshes
    /\ row' = [refresh |-> sent[u], soon |-> FALSE]
    /\ ReadToken(u)
    /\ Forget(u)
    /\ UNCHANGED <<stored, valid, lost, flowVars>>

\* refreshAccessToken stores what came, or what it had read before the request;
\* a row deleted meanwhile is written anew.
RefreshReturns(u) ==
    /\ answer[u] \in Refreshes
    /\ row' = [refresh |-> answer[u], soon |-> FALSE]
    /\ ReadToken(u)
    /\ Forget(u)
    /\ UNCHANGED <<stored, valid, lost, flowVars>>

\* Refused, or no answer: a warning, and on with the token there is.
RefreshFailed(u) ==
    /\ user[u] = "refreshing"
    /\ lost' = (lost \/ (answer[u] \in Refreshes /\ answer[u] # sent[u]))
    /\ row' = row
    /\ ReadToken(u)
    /\ Forget(u)
    /\ UNCHANGED <<stored, valid, flowVars>>

CallEnds(u) ==
    /\ user[u] = "running"
    /\ user' = [user EXCEPT ![u] = "idle"]
    /\ UNCHANGED <<row, stored, sent, answer, valid, lost, flowVars>>

-----------------------------------------------------------------------------
ExpiresSoon ==
    /\ row # NoToken
    /\ ~row.soon
    /\ row' = [row EXCEPT !.soon = TRUE]
    /\ UNCHANGED <<stored, valid, lost, userVars, flowVars>>

\* DELETE /v1/tokens/:plugin.
DeleteToken ==
    /\ row # NoToken
    /\ row' = NoToken
    /\ UNCHANGED <<stored, valid, lost, userVars, flowVars>>

\* The hub ends: rows stay, flows and whatever awaits the provider do not.
FlowsCut ==
    /\ listening' = {}
    /\ flow' = [f \in Flows |-> IF flow[f] = "none" THEN "none" ELSE "gone"]
    /\ exchange' = [x \in Redirects |-> IF exchange[x] = "none" THEN "none" ELSE "over"]
    /\ user' = [u \in Users |-> "idle"]
    /\ sent' = [u \in Users |-> NoRefresh]
    /\ answer' = [u \in Users |-> NoRefresh]
    /\ lost' = (lost \/ \E u \in Users : answer[u] \in Refreshes /\ answer[u] # sent[u])
    /\ UNCHANGED <<row, stored, codes, valid>>

TokensNext ==
    /\ UNCHANGED policy
    /\ \/ PutCredentials \/ ExpiresSoon \/ DeleteToken \/ FlowsCut
       \/ \E f \in Flows : StartFlow(f) \/ FlowPending(f) \/ CallbackError(f) \/ FlowTimesOut(f)
       \/ \E x \in Redirects : Callback(x) \/ StoreTokens(x) \/ ExchangeFails(x)
       \/ \E x \in Redirects, r \in Refreshes : Redeem(x, r)
       \/ \E u \in Users :
           \/ UseStoredToken(u) \/ BeginRefresh(u) \/ ProviderKeeps(u) \/ ProviderRefuses(u)
           \/ RefreshReturns(u) \/ RefreshFailed(u) \/ CallEnds(u)
       \/ \E u \in Users, r \in Refreshes : ProviderRotates(u, r)

TokensSpec == TokensInit /\ [][TokensNext]_tokenVars

\* The hub's own steps happen and its timer fires; users and provider owe nothing.
TokensFairness ==
    \A f \in Flows : /\ WF_tokenVars(FlowPending(f) /\ UNCHANGED policy)
                     /\ WF_tokenVars(FlowTimesOut(f) /\ UNCHANGED policy)

TokensFairSpec == TokensSpec /\ TokensFairness

-----------------------------------------------------------------------------
Quiet ==
    /\ \A u \in Users : user[u] # "refreshing"
    /\ \A x \in Redirects : exchange[x] \in {"none", "over"}

\* However refreshes of several calls, flows, reloads, deletions and restarts
\* overlap: once nobody waits for the provider, the refresh token in the vault
\* is one the provider accepts, unless an answer that rotated it was lost.  (The
\* loser of two refreshes must not store; a store must not undo a rotation.)
VaultStaysUsable == Quiet /\ ~lost /\ row # NoToken => row.refresh \in valid \cup {NoRefresh}

\* A flow frees its port in the end, also one nobody comes back to and one whose
\* exchange is never answered: with a fixed port no other flow can start before.
PortComesFree == \A f \in Flows : []<>(f \notin listening)
=============================================================================
