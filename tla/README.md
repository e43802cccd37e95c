# pdatahub in TLA+

pdatahub keeps a user's personal data sources behind one process, the *hub*
(`packages/hub-core`). AI agents ask the hub to run *tools*; a tool belongs to a
*plugin*, a subprocess that talks to one data source with the user's OAuth
token. Nothing runs without a *grant*, and a grant comes from the user tapping
"approve" on the phone. Hubs of different people can *delegate* single tools to
each other.

These modules model the hub's protocol with the agents, the phones, the plugins,
the peers, the OAuth providers and its own files, and the programs around it:
the MCP server, the approval clients, the relay, the installer of plugins, the
backup and the set-up of a VM. TLC checks them on small instances; TLAPS proves
the central properties for every value of the constants. File names without a
directory are under `packages/hub-core/src/`.

## 1. The system

| Component | State | Operations | What makes it correct |
|---|---|---|---|
| Grant store (`grant-store.ts`) | table `grants` | `create`, `findActive`, `isValid`, `revoke`, expiry by the clock | a row exists only because of an approval; a revoked or expired row is never matched again; the match key has tool, plugin, agent and origin |
| Approval stream (`approval-stream.ts`) | `clients`, `pending` with a promise and a timer each | `requestApproval`, `handleMessage`, the timer, `close`, broadcasts | a request is settled once and always; a late answer changes nothing |
| Approval clients (the Android app's `ApprovalWebSocketClient.kt`, `ApprovalNotificationManager.kt`, `HomeViewModel.kt`; the web UI's `routes/approval/+page.svelte`) | the cards shown, one socket each | show, approve, deny, dial again | an answer may be lost or late, never invented; a client comes back |
| Local tool call (`server.ts` `handleCallTool`, `ensureGrant`) | one promise chain per request | route, find or ask for a grant, refresh the token, run, audit | no run without consent for exactly this call; one true audit row; an end |
| Federated call, serving side (`server.ts` `handleFederationCall`) | tables `delegations`, `federation_nonces`; the rate-limit window | about fifteen checks, one dialog for every call, `ensureGrant`, run | only delegated tools, only after the user agreed to this call, each signed request at most once |
| Federated call, asking side (`handleFederationInvoke`) | table `peer_delegations`, nonces | sign, POST, interpret | the result the caller sees fits what happened at the peer |
| Delegation lifecycle and identity (`federation/*.ts`) | both delegation tables, a key pair | create, sign, accept, revoke, renew, rotate | both ends agree or fail closed |
| Plugin processes and registry (`plugin-process.ts`) | `plugins`, `toolToPlugin`, requests in flight, heartbeat | spawn, initialize, call, ping, exit, register, unregister | no request waits for ever; routes point to living processes |
| Token vault (`token-vault.ts`) | table `tokens` | store, get, refresh, delete | the vault ends with a refresh token the provider accepts, however refreshes and flows overlap |
| OAuth flow (`oauth-flow.ts`, `plugin-oauth-store.ts`) | `pendingFlows`, callback servers | start, callback, exchange, timeout | one flow per state, each ends, the port is free again |
| Rate limiter (`rate-limit.ts`) | a bucket per key | consume, refill, evict | never more than burst plus rate |
| Audit log (`audit-log.ts`) | table `audit_log` | append, deferred `vault_access` rows, purge | what ran is what is written |
| Migrations (`migrations.ts`) | `PRAGMA user_version`, the schema | `runMigrations`, by every program that opens the file | the stamp never runs ahead of the schema |
| Installer (`plugin-installer.ts`) | the plugins directory | download, stage, rename or copy | an install reported as done is there whole |
| Start, stop (`index.ts`, `startup.ts`) | the process | `main`, `shutdown` | a stop ends |
| Database file and backup (`backup/backup.ts`, `index.ts`) | the file, its `-wal`, an encrypted backup | commit, checkpoint, create, restore | what was committed stays; the copy is a state the hub was in |
| Master key and keyring (`config.ts`, `keyring.ts`) | flags, keyring entries | resolve, store, clear, restore | a hub that starts can open its rows |
| MCP server (`packages/mcp-server`) | the tool list, loaded once | proxy with a 30 s timeout | what it reports fits what ran |
| Plugin SDK (`packages/plugin-sdk`) | the serial stdio loop | initialize, call, ping | each request one answer |
| Relay (`packages/relay`) | a session with two sockets | init, upgrade, forward | only the two of a session talk |
| Runner (`packages/runner`) | a server being set up | a list of steps | steps can be repeated |
| Other screens of the Android app and the web UI | none of their own | REST calls | views |

**How they interact.** An agent (through the MCP server, or over HTTP) calls
`POST /v1/tools/:name/call`. The handler takes the plugin from the registry,
the grant from the grant store or a new one through the approval stream, the
token from the vault, writes to the plugin's stdin, and appends an audit row. A
peer hub calls `POST /v1/federation/call`, whose handler shares the registry,
the grants table, the stream, the vault and the log with the local one. The hub
is one event loop: between two `await`s a handler is alone, at every `await`
anything else may happen.

**What is hard.** The handler reads the route, the grant, the delegation and the
token at different moments, on both sides of a wait that a human ends. The
phones' answers, a timer, `close()` and a crash compete for one promise. A phone
keeps a card whose request is long gone. Plugins exit with calls in flight, and
others take over their tools. A signed request may arrive twice, a minute or a
restart apart. Two programs migrate one database. `PROJECT.json` lists each such
place with its line under `hazards`, and the properties that cover it.

## 2. The modules

One action is the code between two `await`s, whole: what the settlement of a
promise continues with runs before any other event, so a phone's answer, the
`INSERT` of the grant and the write to the plugin's stdin are one step.

| Module | Models | Shape |
|---|---|---|
| `GrantStore` | `grant-store.ts` | operators over the table `grants`; a row has its key, the time it has left, and `revoked` |
| `ApprovalStream` | `approval-stream.ts`, a client's cards | the promise of every request, its timer, the sockets, the cards, the answers under way |
| `NonceStore` | `federation/nonces.ts` | the age of each request id's row |
| `ToolCall` | `handleCallTool`, `ensureGrant`, routes, the token's states, stop, crash, restart | extends the stores; `pc[c]` is the `await` at which the handler of call `c` stands, or how it ended |
| `FederationCall` | `handleFederationCall`, `checkFederatedRateLimit`, the issuer's delegations | extends `ToolCall` and `NonceStore`: local and federated calls run side by side over one grants table |
| `GrantGate` | what `docs/architecture.md` promises of grants | abstract: ask, reuse a licence, get one by consent, lose licences; `ToolCall` implements it |
| `Approvers` | the Android app and the web approval page | links, lists and screens of two clients; `ApprovalStream` is its abstract specification |
| `HubPair` | `delegation-cli.ts`, `identity.ts`, `delegation.ts`, `handleFederationInvoke`, the MCP server | both hubs' tables, the agent's call from its list to the peer and back |
| `PluginHost` | `plugin-process.ts`, the starts in `server.ts`, the SDK's serial loop | objects, pipes, requests by id, heartbeat, the registry by name |
| `Tokens` | `token-vault.ts`, `oauth-flow.ts`, `plugin-oauth-store.ts` | one plugin's row, concurrent refreshes and flows, a provider that rotates or keeps refresh tokens |
| `RateLimits` | `rate-limit.ts`, `checkFederatedRateLimit` | one bucket and one window over a clock that may step back |
| `AuditLog` | `audit-log.ts`, `getAccessToken`'s row, `audit purge` | rows with kinds and times, the queue of `setImmediate`, a purge in another process |
| `HubFiles` | the database in WAL mode, `backup/backup.ts`, commands beside the hub | the file, its `-wal`, and a backup as pages named by the commit that wrote them |
| `MasterKeys` | `config.ts`, `keyring.ts`, the keyring and backup commands | sources of the key, the keyring, what rows are sealed with |
| `Migrations` | `migrations.ts` | every process's position among the statements of the versions still to apply |
| `Installer` | `plugin-installer.ts` | stages of installs that overlap, a copy file by file; for each file of a plugin, whose archive it came from |
| `Relay` | `session-do.ts`, `relay-client.ts`, `RelayClient.kt` | sockets of the two roles, messages in both directions |
| `Provision` | `cloudinit/script.go`, `hubcore/deploy.go` | a run as the list of steps still to do; the files, the stamp, the service |
| `MCToolCall`, `MCFederationCall`, `MCMigrations` | | instances of one specification for TLC |
| `MCPluginsApprovers`, `MCPeers`, `MCRecords` | | instances of several components for one run |
| `ToolCallProofs`, `FederationProofs`, `HubPairProofs`, `PluginHostProofs` | | theorems about the module of that name |
| `TokensProofs`, `ApproversProofs` | | theorems about the module of that name, and about `MCPeers` and `MCPluginsApprovers` |
| `StorageProofs` | | theorems about `Migrations`, `HubFiles`, `MasterKeys`, `AuditLog` |
| `ServicesProofs` | | theorems about `RateLimits`, `Installer`, `Relay`, `Provision`, and about `MCRecords` |

A definition marked "Wrong on purpose" is a version of its neighbour with a
plausible bug. No behaviour uses it; replacing the neighbour by it must break
the property `PROJECT.json` names for it, which shows that the property can see
such a bug.

**What is composed with what.** `FederationCall` is the hub with its grants,
stream, routes, tokens, delegations, nonces and both kinds of call: the
components that share state are in one module there. `Approvers` composes with
the hub through refinement: to the stream its clients are phones of
`ApprovalStream`. `ToolCall`'s phones leave out two taps that these clients can
make: a second answer on a card already answered (`TapAgain`), which to the hub is
what a second phone's tap on the same request would be, and an answer that goes
missing although the socket looked open (`TapUnsent`), which is a tap followed by a
loss of the connection. The theorems about `ToolCall` hold for any number of phones.
`HubPair` takes the serving hub by the
stages a reader of its audit log knows. The other modules share nothing with
each other. `MCPeers`, `MCPluginsApprovers` and `MCRecords` put such modules side
by side only to check them in one run: a behaviour picks one component at first
and the others stay as they are, so that nothing is multiplied and nothing is
claimed about their interaction.

### How state and actions correspond to the code

`ToolCall`. `CallUnknownTool`, `CallWithGrant` and `CallAsks` are the handler up
to its first `await`, by what the registry and `findActive` return. `Approve`,
`Deny` and `TimeOut` continue `ensureGrant` when `requestApproval` settles;
`LateAnswer` is a message for a request no longer pending. `RefreshSucceeds` and
`RefreshFails` end the refresh, `PluginSucceeds` and `PluginFails` the request to
the plugin. `Register`, `PluginExits`, `TokenChanges`, `Revoke` are what others
do meanwhile. `BeginShutdown`, `StopServer` and `Exit` are `shutdown` in
`index.ts`; `Crash` forgets all that is not in SQLite, `Restart` opens it again.
`ran`, `consents` are history: which calls were written to a plugin, which cards
some user approved.

`FederationCall`. `Verdict` is the list of checks in the code's order with the
error code of the first that fails; `Bounce` answers with it, `Admit` goes on.
`Recorded` and `Counted` say which verdicts are reached after the nonce is
recorded and after the slot of the window is taken. `ConsentWithGrant` and
`ConsentAsksAgain` continue the delegation dialog; `PeerApprove` the grant
dialog; `PeerDeny` and `PeerTimeOut` end either.

`HubPair`. `Issue`, `Accept`, `RevokeIssued` and `InitIdentity` are commands or
REST calls on the two databases. `McpStarts` loads the list, `AgentCalls` is the
agent's request, `InvokeRefuses` and `InvokeSends` are `handleFederationInvoke`
up to its `await`; `AnswerReturns`, `BodyBreaksOff` and `UpstreamFails` are what
follows. `Far...` is the serving hub. `book` is B's audit row, `far` the truth. A
row's expiry is two numbers: `ttl`, the moment `Date.parse` makes of the string, by
which it expires, and `text`, where the string stands among the others, by which it is
listed and picked. The CLI writes one form, in which both agree; over REST the string is
the caller's.

`Installer`. Between its `await`s an install waits for the network or for `tar` while
others go on; `Renames` is the rest of the function when the rename succeeds,
`BeginCopy`, `CopyFile` and `Copied` when it does not. `Turn` says that a copy
(`cpSync`) holds the hub's only thread; `Dies` may still end it after any file.

`PluginHost`. `Spawn`, `LoadNext`, `Install` are the ways to a start;
`Initialized`, `InitializeFails` and `InitializeTimesOut` continue it; `Serve...`
is the plugin's loop, which takes one line after the other; `Read` and
`HandleLine` the hub's end. `Beat` and `Pong` are the heartbeat, `Exit` what
`cleanup` and `onExit` do, `Stop` and `Down` the shutdown of all.

`Approvers`. `Dials`, `Opened`, `LinkLost`, `DiesSilently` and `HubDrops` are the
two sides of a link; `Lists` is a frame reaching the list, `LoadBegins` and
`LoadReturns` the Home screen that copies its state before a suspending call and
writes it back after; `PageExpires` the page's own timeout.

`Tokens`. `BeginRefresh`, the provider's three answers, `RefreshReturns` and
`RefreshFailed` are `refreshAccessToken` around its `fetch`; `StartFlow`,
`FlowPending`, `Callback`, `Redeem`, `StoreTokens` and `FlowTimesOut` a flow.

`HubFiles`. `Seen` is what a connection reads: the frames of the `-wal` file over
the pages of the file. The backup and restore commands read and write the file
page by page. `commits` is history, as are `calm` and `at` of a backup: whether
the hub was stopped in order and stayed so, and at which commit.

`Migrations`. `Start` reads `user_version` once, `Execute` runs one statement,
`DuplicateColumn` is the exception of a column that is there already, `Stamp`
writes the version, `Stop` ends or kills the process at any point.

`Provision`. `Script` and `Plan` are the steps in the source's order; the actions
are named after them, and `RunFails` ends a run at any step, as `set -e` does. `Waits`
is the end of the script, which warns when nobody answers; `Healthy` the end of the plan,
which fails then. Both ask `/v1/identity`, which needs no token, and any hub that runs
may answer it. `spares` of a run says that `enable --now` came upon a running service.

The remaining modules have an action for each function or command of their
source, named in the comment above it and in `PROJECT.json` under `map`.

### Abstractions

- A signature is the fact that the request is one its peer signed; parsing,
  canonical JSON and header checks go with it. Ciphertexts are the name of the
  key they were made with.
- Tool arguments, results, scopes and justifications are left out: no decision
  here depends on them (a scope is a function of the tool).
- In `ToolCall` and `FederationCall`, time is a clock whose `Tick` takes one unit
  off every timer, grant and delegation and adds one to every age. Ages stop
  counting when the code no longer tells them apart (`Unseen`, `TooOld`). A timer
  may run late, as in Node. `HubPair`, `PluginHost` and `Tokens` let a timeout
  fire at any moment; only the heartbeat counts there.
- A call that has waited for its plugin fails whenever it likes: the error
  response and the 30 s timeout are one action, `PluginFails`.
- In `ToolCall`, a plugin whose every route was taken over by others cannot be
  told from one that left the registry: `PluginExits` needs a route, and what such
  an exit does to its calls is covered by `PluginFails`. `PluginHost` has the
  objects themselves.
- The two windows of the rate limits, which the code keeps as lists of timestamps
  that it filters at every call, are as many slots as the limit allows: a slot is free
  or holds a stamp (`RateLimits`, whose clock may be set back) or the time its call
  still counts (`FederationCall`). A stamp that has left the window and one that was
  filtered out are both a free slot. The order of the list is never used.
- A call uses each dialog once; ids of grants, delegations, requests, processes
  and sockets are finite sets, so a behaviour may run out of them.
- An OAuth row that is absent makes `getAccessToken` throw outside of the `try`
  block: the call ends as `failed` with no approved, denied or error row. The
  properties ask for no row of such a call and forbid none (see below).
- Downloads, the `tar` of the installer, a page of a file and a step of a script are
  the units that happen or do not. Copies and the `tar` of an upgrade go file by file.

## 3. What the runs check

A unit of time is the budget of the grant dialog (60 s); the delegation dialog
has two (120 s). Grants live `GrantTTL` units, mostly one: a grant made while
another dialog is open may outlive that dialog or lapse before it ends. The real
ratio (one hour to one minute) only adds ticks at which nothing else changes.

| Run | Instance | Properties | What it shows |
|---|---|---|---|
| `ToolCallHandlers` | 2 calls, 2 plugins (one OAuth) | `IInv`, `RunsOnConsent`, `AuditTellsTheStory`, `GrantsAreEarned`, `GateHolds` | routes, tokens and grants change under waiting calls; what runs has a grant of its own key, a tap behind it and one true audit row; grants never outnumber approvals; the handler implements `GrantGate` |
| `ToolCallLive` | 2 calls, fairness | `RefusalIsFinal`, `AnswerStands`, `EveryCallAnswered`, `StopEnds` | the first settlement stands and a refused call never runs; every waiting handler comes to an end, and so does a stop |
| `FederationCall` | 2 deliveries of a peer, of one request or of two, or one beside a local call; the peer's clock in step or behind | `RunsOnConsent`, `PeerRefusalIsFinal`, `EveryPeerCallApproved`, `RunsAtMostOnce` | local and federated calls of one tool and agent never use each other's grants; a refusal at either dialog is final; the second call of a peer needs its own approval although the first left a grant; a request runs once, over ticks and restarts that outlast the replay window |
| `Peers` | 1 delivery, 2 peers, OAuth; or 2 delegations and a call of the agent; or 2 calls and 2 flows on a token | `TypesOK`, `AdmittedIsBacked`, `PeerCallsAnswered`, `BooksAgree`, `CallsOnListed`, `VaultStaysUsable`, `PortComesFree` | only a delegation to the very peer admits, and its dialogs end; the hubs' logs never contradict each other; a call goes out on the listed delegation or on one written later; the vault keeps a refresh token the provider accepts; a flow frees its port |
| `PluginsApprovers` | 2 plugin processes, 1 request; or the app and the page, 1 request | `TypesOK`, `RoutesLeadToTheLiving`, `StartsEnd`, `HungIsEnded`, `ClientsComeBack`, `ImplementsStream` | routes never lead to an ended process although `unregister` goes by name; starts end, hung plugins are killed; clients come back; to the stream they are phones |
| `Records` | one of eight components | `TypesOK` and the properties of the table below | what is written down stays true |
| `ToolCallRevoked` | violation | `RunsUnderLiveGrant` | finding 1 |
| `FederationReplay` | violation, peer's clock ahead | `RunsAtMostOnce` | finding 2 |
| `FederationPlugin` | violation, 2 plugins | `RunsOnDelegatedPlugin` | finding 3 |
| `MigrationsOnce` | violation | `AlterRunsOnce` | finding 4 |
| `ApproverDenies` | violation | `OwnDenialIsCleanup` | finding 5 |
| `DelegationOrder` | violation, 2 delegations | `LatestExpiryWins` | finding 6 |

The components of `Records`:

| Component | Instance | Properties |
|---|---|---|
| `Migrations` | 2 processes, the 8 real versions | `SchemaCoversVersion`: `user_version` never runs ahead of the schema; `ReadyIsComplete`: a process past `runMigrations` has all of it |
| `HubFiles` | 2 pages, 3 commits | `LastCommitStands`: the next connection sees the last commit, whatever ended, crashed, was checkpointed or restored in proper order; `BackupIsLatest` |
| `MasterKeys` | 2 keys, 2 keyring entries | `OneKeyOpensAll`: however the key is kept and moved, a hub on the default entry that starts opens all its rows |
| `AuditLog` | 2 calls, clock to 3 | `ReadsComeBeforeAnswers`: the deferred row does not come too late; `PurgeSparesTheYoung` |
| `Installer` | 3 installs of one plugin, the third without its entry | `InstalledIsWhole`: an install reported as done, and not followed by another, has all of its files there, whatever overlapped with it, failed or was cut |
| `RateLimits` | bucket of 2 tokens, window of 2 calls in 3 ticks, clock to 6 | `WithinRate`: burst plus refill in every interval; `WithinWindow` |
| `Relay` | 2 connections of the app, 1 of the laptop, 2 messages a side | `HeardOnce`: no two connections of one role hear the same, none out of order |
| `Provision` | 2 releases of 2 files | `StampFollowsFiles`: a version is stamped when all of it is unpacked; `UpgradeTakesEffect`: a run that installed leaves its version there and running, but for a plan that came upon a running service |

**Why these bounds are enough for the cases meant.** Every hazard listed is a race of
at most two handlers, two answers, two processes or two connections with one
environment event, and every such pair occurs in some run; a second tool or
agent only separates keys that `Keys` already separates by plugin and origin.
`FedLimit = 1` makes the limit bite. `NonceTTL = 2`, `MaxSkew = 1` keep the code's
ratio of 600 s to 300 s. In `FederationCall`, the constraint `OneOrBrief` allows a
delegation that outlives the replay window with one request, and with two
requests a delegation about to expire and requests of at most a tick;
`LocalOrTwice` allows a local call with one delivery, over a delegation no longer
than a grant. So replays, second requests and local calls do not meet in one behaviour
there; `ReplayTheorem`, `ApprovedTheorem` and `SharedConsentTheorem` show they need not.
In `Records`, `ClockSteps` lets the clock pass an eviction in one step or
tick by tick, and `MaxMoved = 6` lets it do so and is longer than bucket and window;
three commits are one before a backup, one after it and one after its restore; a third install meets
what two that overlapped have left; two connections of the app are the old one
and its successor. `DelegTTL = 2` orders two delegations of one tool; their strings may
sort before now, like either moment, or after every moment (`Texts`).
`PingKnown` holds one process that answers pings as the hub expects and one of the SDK, which
answers them with an error; `MaxOwed = 1` stops the count of unanswered pings
where no guard tells more apart.

Deadlock is checked in `ToolCallHandlers`, `ToolCallLive` and `FederationCall`. In `Peers`, `PluginsApprovers` and `Records` a component may have used up its
processes, connections or commits, which is an end of the instance and not of the
program. Symmetry is used only in safety runs, over sets whose elements no
definition tells apart.

### Fairness

`Tick`, the timers' callbacks, the end of a `fetch` to the token endpoint, the
request timeout of `PluginProcess` and the callback of `server.close()` are
weakly fair: the event loop runs them once they are due, and `fetch` and
`request` give up on their own. In `PluginHost`, what is due (`Due`: a line to read, a
timer, the exit of a killed child) and the interval timer (`Beat`) are. In
`Approvers`, a client that has lost its link dials again after its backoff, and a
handshake or a close is handled by both ends, unless the link died without a sign
(`LinkDue`). In `Tokens`, a flow that has begun to listen gets its entry, and its
five-minute timer fires. Users,
phones, agents, peers, plugins and providers are not fair: a phone may never
answer, a plugin may hang, a peer may fall silent. Crashes may happen for ever;
they end calls too.

### Findings

1. **A revoked grant is still used** (`ToolCallRevoked`, `server.ts:854`). The
   grant is looked up, then the token refresh is awaited, then the plugin is
   called; a revocation or expiry during the refresh is not noticed.
   `docs/architecture.md:157` says every tool call checks `isValid` first; the
   handler never calls it. `docs/self-hosting.md:331` says a revocation kills the
   grant immediately. (`docs/threat-model.md:221` further says the next call gets
   `403 GRANT_REVOKED`; the code asks the user again, which is `CallAsks`.)
2. **The replay window has no margin** (`FederationReplay`, `federation/nonces.ts:30`). It is
   exactly twice the tolerated skew, exclusive where the skew is inclusive: with
   the peer's clock ahead by the whole tolerated skew, there is an instant at
   which the row no longer counts and the timestamp still does.
   `federation/nonces.ts:6-9` speaks of a generous safety margin.
   `ReplayTheorem` proves that any smaller drift is safe.
3. **A delegation does not fix its plugin** (`FederationPlugin`,
   `server.ts:1679`). Peer and tool are compared, the plugin is whatever the
   registry routes the tool to now. `docs/architecture.md:429` says a delegation
   has a single (plugin, tool, scope) triple.
4. **`up()` may run twice** (`MigrationsOnce`, `migrations.ts:410`). The
   statements of a version and its stamp are not one transaction. A process that
   ends between them, or a CLI command beside the hub, makes the next one run them
   again, which throws for the versions that add columns, at every later start.
   `migrations.ts:98-99` says the runner guarantees exactly once.
5. **The approval page refuses what the hub still waits for** (`ApproverDenies`,
   `web/src/routes/approval/+page.svelte:143`). It denies whatever it has shown for
   60 s. A federated request is broadcast to it as to every client, and the hub
   waits 120 s for that one (`server.ts:1738`). The page's comments (`:143-144`,
   `:27-28`) say that the hub has given up by then and that it only sees local
   requests.
6. **The latest expiry is taken from its spelling** (`DelegationOrder`,
   `server.ts:710`). `POST /v1/delegations` accepts what `Date.parse` reads and signs
   and stores the string as it came (`server.ts:2217-2225`, `:2294`). The asking hub
   lists and picks by comparing strings (`server.ts:705`, `:710`,
   `federation/delegation.ts:466`) and expires by `Date.parse`
   (`federation/delegation.ts:271`). A string with an offset may come last and end
   first: the call then goes out on it, or is refused as expired, while a longer one is there.
   `server.ts:694-697` and `docs/federation.md:216` speak of the latest `expires_at`.

### Seen while modelling

Disagreements between the code and its documents, or between its parts, which the
models follow as the code has them and which no property states:

- *Audit rows.* `docs/threat-model.md:229` says "Every tool call, approval, denial, plugin
  error, and OAuth event writes an audit row", `docs/federation.md:324` "both sides log
  every call". No row is written for a call whose token is missing, approved as it is
  (500, `server.ts:868`), for a call of an unknown tool (404, `server.ts:801-804`), or by
  the asking hub when it has no identity it can open (503, 500) or when the peer's
  answer breaks off in its body (`server.ts:2094`).
- *Calls.* Two calls of one key that were both approved leave two grants, and
  revoking one leaves the other. Revocation of a delegation is not looked at again
  after the dialogs. The second dialog of a peer's call does not name the peer.
  `server.ts:1531` says the nonce is recorded before the delegation is looked up;
  it is recorded after. A federated error is answered with 500 whatever it was,
  unlike a local one (`mapErrorToHttpStatus`), and `writeFederatedAudit` writes
  decision `denied` for `federated_error`.
- *Plugins.* `docs/architecture.md:263` says a crashed plugin is restarted on the
  next call; the code answers 404. The SDK answers `ping` with -32601.
  `loadPluginsFromDir` stops at the first plugin that fails.
  `docs/plugin-author-guide.md:561` says uninstalling a plugin revokes its grants;
  the code does not.
- *Installer.* `plugin-installer.ts:158-160` says that on a failure the caller "does not
  need to do its own rollback", `server.ts:1074` speaks of an atomic extract. The entry
  is looked for after the rename or copy: an install that ends with an error, there or in
  a copy that was cut, has already written over a plugin that worked. A copy leaves
  what only the older version had, and an older version's entry passes for the new one's.
  The staging directory stays behind when extraction fails.
- *Delegations.* `POST /v1/delegations` signs an empty `magic_dns`. `accept` checks neither
  subject nor expiry, and nothing calls `revokeReceived`. Scopes are not enforced.
  In HTTP mode `delegate` sends `expires_in` where the server requires
  `expires_at`, the shapes of list and revoke do not match, and
  `/v1/federation/accept` has no route. Regenerating an identity does not rotate
  what peers know; `init` without a master key seals with a fresh one.
- *Limits.* `HUB_RATE_LIMIT_*` are parsed and not used. The header of
  `rate-limit.ts` says `/health` and `/v1/identity` are excluded;
  `handleRequest` limits them.
- *Tokens and audit.* `docs/threat-model.md` counts a row for every use of a token
  (`:446`, `:484`); `refreshAccessToken` decrypts without one, and a
  `vault_access` row not yet written is lost when the database closes. A provider that
  rotates only sometimes has its old refresh token written back
  (`token-vault.ts:416`).
- *Files and keys.* `backup.ts:44-45` calls its write atomic; restore truncates in
  place and leaves a stale `-wal`, and backup reads the file without it. The backup
  commands ignore `--keyring-service` and `--keyring-account`. The documentation of the backup
  says scrypt, the code uses PBKDF2. A late stamp of a slower process can set
  `user_version` back (the schema stays complete, so `ReadyIsComplete` holds).
- *Clients.* `ApprovalWebSocketClient`'s `start()` and `stop()` never cancel the loop
  (its comment at `:110-111` says they do); `approve` and `deny` remove the card when there
  is no socket; `HomeViewModel` copies state it read before a suspending call;
  the web page records "approved" when its socket is closed;
  `DelegationManagementViewModel` expects `{granted, received}` where the server
  returns `{delegations}`. `handleConnection` never sets `userAgent`, so
  `broadcastPluginReauth` and `broadcastVaultAccess` reach nobody.
- *Relay.* The Kotlin client handles no messages, never reconnects although its comment says
  so, and lets callbacks of old sockets overwrite its state.
- *Runner.* The deployment plan extracts before it makes the directory and writes a
  `hub.env` without the master key; the archive's checksum is not verified. A plan may
  end in success over the old version: `enable --now` (`deploy.go:283-291`) leaves a running
  service alone, and the health check asks whatever hub runs, where `deploy.go:80` speaks of
  the version this plan deploys; the old process then runs over the new files.
  `/v1/identity` answers 503 without a federation identity, which no step makes, so on a new VM
  the check fails. Running the script with the stamped older version after an upgrade was
  cut short skips the install and leaves the mixture (`script.go:70-71`, `:110`,
  `:181`).

## 4. What is proved

With TLAPS, for any numbers of calls, phones, plugins, agents, peers, grants,
processes, connections, messages, refresh tokens, keys, pages and versions, and any
lifetimes and limits: every invariant and every action property without
fairness that a run checks, and both refinements. The assumptions are those named in
the modules: lifetimes, limits and budgets are positive, null values are not
members of the sets they stand outside of, the names of stages are not names of
processes or tokens, and in `RateLimits` idle buckets are kept long enough to
refill. Two theorems have a hypothesis of their own, which the table names.

| Theorem | States |
|---|---|
| `ToolCallProofs!Inductive`, `TypeCorrect` | `Spec => []IInv`, `Spec => []TypeOK` |
| `ConsentTheorem`, `RefusalTheorem`, `AnswerTheorem` | `RunsOnConsent`, `RefusalIsFinal`, `AnswerStands` |
| `GateTheorem` | `Spec => GateHolds`: the handler implements `GrantGate` |
| `AuditTheorem` | `AuditTellsTheStory` |
| `EarnedTheorem` | `GrantsAreEarned`, if calls and ids are finitely many |
| `FederationProofs!FedInductive`, `FedTypes` | `FedSpec => []FedIInv`, `FedSpec => []FedTypeOK` |
| `ApprovedTheorem`, `BackedTheorem`, `PeerRefusalTheorem` | `EveryPeerCallApproved`, `AdmittedIsBacked`, `PeerRefusalIsFinal` |
| `SharedConsentTheorem` | `RunsOnConsent` of local calls beside peers' calls |
| `ReplayTheorem` | `RunsAtMostOnce`, if no peer's clock is ahead by `NonceTTL - MaxSkew` or more |
| `HubPairProofs!PairInductive`, `BooksTheorem`, `ListedTheorem` | `BooksAgree`, `CallsOnListed` |
| `TokensProofs!TokensInductive`, `TokensTypes`, `VaultTheorem` | `VaultStaysUsable` |
| `PluginHostProofs!HostInductive`, `HostTypes`, `RoutesTheorem` | `RoutesLeadToTheLiving` |
| `ApproversProofs!ApproversInductive`, `StreamTheorem` | `ApproversSpec => ImplementsStream`: app and page implement `ApprovalStream` |
| `StorageProofs!MigrationsInductive`, `SchemaTheorem`, `ReadyTheorem` | `SchemaCoversVersion`, `ReadyIsComplete` |
| `FilesInductive`, `CommitTheorem`, `BackupTheorem` | `LastCommitStands`, `BackupIsLatest` |
| `KeysInductive`, `KeyTheorem` | `OneKeyOpensAll` |
| `AuditInductive`, `ReadsTheorem`, `PurgeTheorem` | `ReadsComeBeforeAnswers`, `PurgeSparesTheYoung` |
| `ServicesProofs!RateInductive`, `RateTheorem` | `WithinRate` |
| `WindowInductive`, `WindowTheorem` | `WithinWindow` |
| `InstallerInductive`, `WholeTheorem` | `InstalledIsWhole` |
| `RelayInductive`, `HeardTheorem` | `HeardOnce` |
| `VmInductive`, `UpgradeTheorem`, `StampTheorem` | `UpgradeTakesEffect`, `StampFollowsFiles` |
| `TokensProofs!PeersTypes`, `ApproversProofs!HostAndApproversTypes`, `ServicesProofs!RecordsTypes` | `TypesOK` of `MCPeers`, `MCPluginsApprovers`, `MCRecords` |

**`ToolCall`.** `RunsOnConsent` is not inductive: nothing in it says why a call
that is about to run holds a grant. `IInv` adds, per call (`CallInv`), that the
promise of its request and the stage of its handler move together (`"asking"`
exactly when `"pending"`; a refused promise means a refused call; a refused or
pending call holds nothing; a call past the gate holds a grant of its own key),
that behind every row of the table is an approved call of the row's key
(`GrantInv`), and that no "approved" is under way or settled without a tap
(`ConsentInv`). The proof has a lemma per helper of the stores
(`CreateGrantType`, `RevokeKeeps`, ...), frame lemmas for calls that did not move,
then one step per action in `TypeStep` and `SafeStep`. `GateTheorem` maps each step
to an action of `GrantGate` or to a stutter: the clock and `Revoke` map to
`Withdraw`, `Approve` to `Consent`, the first step of a call to `Ask` or `Reuse`.

**What `ToolCall` leaves behind.** `AuditTellsTheStory` needs that a call that
runs is in `ran` before it has a row (`Story`). `GrantsAreEarned` compares two
cardinalities: of each key, the rows and the approved calls are finite sets,
`Approve` adds one element to both, no other step adds a row, and an approved call
stays the approved call it was (by `AnswerTheorem`'s lemma).

**`FederationCall`.** Every action of `ToolCall` is an action here and the peer's
calls have their own, over the same variables. `FedIInv` has four parts per peer
call: what its two dialogs say of its stage (`DialogInv`), that past the checks it
is backed by a delegation of its own peer and tool (`BackedInv`), that the grant it
holds has its key (`HeldInv`), and how many rows it has (`LoggedInv`); beside them
the shape of the variables these rely on and `ConsentInv`. A step moves no peer
call, or one, or ends all that wait; there is a frame lemma for each (`Still`,
`NoneMoves`, `OneMoves`) and one lemma for each group of actions. The types follow in
a second pass (`HubTypes`, `BookTypes`), for which `FedIInv` is given.

**Two kinds of calls, one table.** The invariant of `ToolCall` does not carry over:
there, a grant of a call's key was created by that call or an earlier one of the same kind,
here a peer's call adds rows as well. `SharedInv` says that a local call that runs
holds a grant and that the grant has its key (`LocalInv`), and that behind every row, whoever uses
it, is an approved call of the row's key (`GrantInv`). A key has the origin in
it, so an approval of a peer's call is none for the hub's own agents; the proof
shows for each step that what it adds to the table is earned (`NewEarned`).
`FederationCall` is not stated to implement `GrantGate`: a peer's call that finds
a grant after its delegation dialog reuses it (`ConsentWithGrant`), having asked, which the gate has no
step for.

**The replay window.** A delivery is admitted if its row in the nonce table is
absent or older than `NonceTTL` and its timestamp is within `MaxSkew`. Rows and
timestamps age together (`WindowInv`), so as long as `e + NonceTTL > MaxSkew` for
every error `e` of a peer's clock, the row of a request outlives its timestamp: a
request that was admitted is seen or too old (`SpentInv`), and no second delivery
is (`OnceInv`). Restarts keep the table. With `e = -MaxSkew` the inequality fails by
one instant, which is the behaviour the run `FederationReplay` finds: the bound is sharp.

**`HubPair`.** What B has in its book depends on how far A is, and A goes on when
B has given up. `HandlerInv` says that B's row is written when its handler ends and
that A was sent what it may act on, `RowInv` that a row which says "ok" or "denied"
is so for good, `ListInv` that the agent's list names an imported delegation, which
`ListedTheorem` compares with the one that `ORDER BY` puts first.

**`HubFiles`.** Restore relies on the backup it writes being whole and on being
alone with the file, backup on the pages it has read. `FilesIInv` says what a
command that is still alone with the file knows about it: the pages done so far
are those of the commit it began with.

**`Migrations`.** `SchemaCoversVersion` needs to know that a process about to
stamp has all of the version behind it, although another process may have done
part of it or set the stamp back: `DoneInv` says that whatever lies behind a
migrating process, by version and by statement, is in the schema. The schema only
grows, so every step keeps it.

**`RateLimits`.** What was spent and what could be spent at once stay together
within one burst and the refill since the mark (`RateIInv`), where a bucket that
is not there counts as the full one to come. Eviction keeps this because an
evicted bucket has been idle for longer than it takes to fill.

**The window of a peer.** `WithinWindow` counts calls and bounds them by the limit,
over a clock that may be set back. `WindowInv` finds for the calls let through since the mark
a set of as many slots, each stamped no earlier than the clock less what it moved
forward since (`SinceMark`). As long as it moved by less than the window, none of these slots
has come free, and a call let through takes another one; there are only
`PeerLimit`.

**`Tokens`.** `VaultStaysUsable` speaks of moments at which nobody waits.
`TokensIInv` says what holds in between. What is under way is accepted
(`Accepted`). A provider that keeps its tokens never ends one that was read
(`Kept`). One that rotates them ends the token it is sent; each token under way is in one place
only (`Alone`), so it ends none of the others, and a row that is no longer accepted has
its successor on the way to it unless an answer was lost (`Replaced`). Of two refreshes
that have read the same row, such a provider answers only the first with a new
token, so the row is never written with one that the other's answer has ended.

**`PluginHost`.** `unregister` goes by the name in the manifest, and two processes may bear the same
one. `HostIInv` says that the registry holds an object only under the name of its own manifest
(`Held`), that the manifest is set once, by the answer to `initialize`
(`Unborn`, `Nameless`), and that nothing is read from a process that has ended
(`Unread`): a late line of a dead child cannot bring its name back.

**`Approvers`.** The cards of `ApprovalStream` are mapped to what was broadcast to a
client and not answered by it, whatever its list shows. What a client shows or has
shown was broadcast (`Broadcast`), so nothing is asked for again under the same
id; answers under way belong to sockets the hub has (`Sockets`), so a link that
dies without a sign is a stutter. Every action is then a step of
`ApprovalStream` or a stutter, shown action by action in the lemmas before `StreamTheorem`.

**`MasterKeys`.** `OneKeyOpensAll` is about a hub that runs. `KeysIInv` adds the key
that the next one would find (`KeyAtHand`, the first of the sources in the code's
order): rows are sealed with it even while no hub runs, and where a running hub and
the sources both have a key, it is the same one. It holds of the default keyring
entry only, which is what the commands write.

**`AuditLog`.** The row of a read is written by a deferred callback, the row of
the call when it ends, and a purge takes rows by time. `AuditIInv` orders the rows of
a call by the clock, those already purged included (`InOrder`), so what goes by time goes from the
front (`EndStays`); a call past its read has a callback due, a failed write or the
row (`StoryInv`); no callback is due twice (`Once`). `PurgeInv` says that a purge that is
waiting for its user counted the rows it will delete: a row written meanwhile has the time
of its writing and is younger than the cutoff.

**`Installer`.** `InstalledIsWhole` says nothing of a copy under way. `InstallerIInv` adds
that one copy at a time is (`OneCopy`, from `Turn`) and that what of its archive is no
longer left to write is there as its own (`CopyInv`). A step that writes belongs to the only
copy, or is a rename while there is none; an install that begins to write takes the
directory from the one that had it.

**`Relay`.** One socket of a role is held at a time (`OneHeld`). What is on its way
to the session and from it is rising (`UpInv`, `DownInv`), what has left the
session lies before what is still coming, and two connections of one role share
nothing (`Apart`); `HeardOnce` says this of what was heard alone.

**`Provision`.** `RunInv` ties the steps still to do to what has been unpacked: a
run past the unpacking has left no part to do, a script past the restart runs what it
unpacked, a plan past `enable` does or came upon a running service, and only a script that
found the stamped version skips (`ScriptAt`, `PlanAt`). `LeftInv` says this of the
run that ended last, until the next begins. `StampTheorem` follows from `RunInv` alone:
both kinds of runs stamp when no part is left.

**Side by side.** The modules that check several components in one run do nothing
to any of them: each step is one of the component's or leaves it as it was. Their type
invariants follow from the components' own.

**Only model-checked.** Liveness: `EveryCallAnswered`, `StopEnds`,
`PeerCallsAnswered`, `PortComesFree`, `StartsEnd`, `HungIsEnded`,
`ClientsComeBack`. Fairness, `ENABLED` and the induction over data they need are
beyond the prover at hand. The six violations are counterexamples of one
instance each and need no proof.

## 5. Not modelled

- Cryptography (AES-GCM, HKDF, PBKDF2, signatures), the mnemonic and its word list:
  mathematics and data, not protocol.
- HTTP and JSON parsing, static files, logging, error texts, `magic-dns`: conversions and
  reads without state.
- `federation-http.ts`: in HTTP mode the commands send shapes the server does not
  accept, so there is no exchange to model.
- The plugin SDK's decorators and validation, and its HTTP client's retries: helpers
  of plugin authors without state in the hub. The SDK's serial loop is in
  `PluginHost`.
- The screens of the web and Android apps other than those named: views over
  REST calls that other modules have as actions.
- The runner's Hetzner client, SSH keys and command line: API calls and formatting.
  There is no executor of the deployment plan in the repository; `Provision` reads the plan
  off its steps.
- Queries and statistics of the audit log, `listActiveForUser` and the other reads
  that change nothing and that nothing decides on.
