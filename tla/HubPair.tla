------------------------------- MODULE HubPair -------------------------------
(***************************************************************************)
(* Two hubs and an agent: A delegates a tool, B imports the delegation,    *)
(* B's agent calls the tool through its MCP server, B's hub and A's hub.   *)
(*                                                                         *)
(* The asking side is here in full: federation/delegation-cli.ts and       *)
(* identity.ts (what the command line does to the two databases),          *)
(* delegation.ts (both tables), handleFederationInvoke of                  *)
(* hub-core/src/server.ts, and mcp-server/src.  What A does with a         *)
(* request is FederationCall's matter: here it is the stage a reader of    *)
(* A's audit log would know, and the status of the answer.                 *)
(*                                                                         *)
(* Every connection may break at any moment and every timer may fire       *)
(* before the answer it waits for: the agent's (30 s) and B's (130 s) run  *)
(* out on their own while A asks its user (120 s and 60 s more).           *)
(***************************************************************************)
EXTENDS Naturals, FiniteSets

CONSTANTS
    DelegIds,      \* the uuids of delegations
    DelegTTL,      \* the longest a delegation may be given
    Asks,          \* the agent's calls of the federated tool
    HasMagicDns    \* whether A knows its MagicDNS name

ASSUME DelegTTLAssumption == DelegTTL \in Nat \ {0}
ASSUME MagicDnsAssumption == HasMagicDns \in BOOLEAN

Hubs == {"A", "B"}

VARIABLES
    identity,  \* [Hubs -> what federation_keys holds]
    issued,    \* A's `delegations`: a function from ids to rows
    received,  \* B's `peer_delegations`: a function from ids to peer_hub_url
    listed,    \* the delegation of the tool's descriptor in the MCP server's list
    agent,     \* [Asks -> what the agent behind the MCP server knows]
    ask,       \* [Asks -> where B's handler is, or how it ended]
    book,      \* [Asks -> decision_federated of B's audit row]
    using,     \* [Asks -> the delegation B's request names]
    far        \* [Asks -> where A is with the request]

pairVars == <<identity, issued, received, listed, agent, ask, book, using, far>>

\* No row; a row sealed with the key the hub runs with; one sealed with the
\* key `init` made up when it was given none.
Identities == {"none", "sealed", "foreign"}

\* B's key, or a key that is nobody's here: the CLI checks neither.
Subjects == {"B", "other"}

\* Where a blob's magic_dns leads, which is all of a row of B's that matters: its
\* lifetime is the blob's, and nothing ever sets its `revoked`.
PeerUrls == {"A", "nowhere"}

\* `expires_at` is kept as the string it came as.  Date.parse makes a moment of it,
\* `ttl` from now; a comparison of strings goes by how it is written, `text`: the
\* moment whose usual form (toISOString) it would be next to.  With an offset, or in
\* words, the two differ; what begins with a letter is after every moment there is.
AfterAll == DelegTTL + 1
Texts == 0 .. AfterAll

IssuedRows ==
    [subject : Subjects, ttl : 0 .. DelegTTL, text : Texts, revoked : BOOLEAN, url : PeerUrls]

AgentStages == {"idle", "waiting", "ok", "refused", "gone"}
AskStages == {"idle", "sent", "answered", "mute"}
BookEntries == {"none", "federated_ok", "federated_denied", "federated_error"}
FarStages == {"none", "asking", "running", "ran", "failed", "denied", "bounced", "died"}

\* A is through with the request and has an answer for it.
FarAnswers == {"ran", "failed", "denied", "bounced"}

NoDelegation == "none"

PairTypeOK ==
    /\ identity \in [Hubs -> Identities]
    /\ DOMAIN issued \subseteq DelegIds
    /\ issued \in [DOMAIN issued -> IssuedRows]
    /\ DOMAIN received \subseteq DOMAIN issued
    /\ received \in [DOMAIN received -> PeerUrls]
    /\ listed \in DelegIds \cup {NoDelegation}
    /\ agent \in [Asks -> AgentStages]
    /\ ask \in [Asks -> AskStages]
    /\ book \in [Asks -> BookEntries]
    /\ using \in [Asks -> DelegIds \cup {NoDelegation}]
    /\ far \in [Asks -> FarStages]

PairInit ==
    /\ identity = [h \in Hubs |-> "none"]
    /\ issued = [d \in {} |-> 0]
    /\ received = [d \in {} |-> 0]
    /\ listed = NoDelegation
    /\ agent = [c \in Asks |-> "idle"]
    /\ ask = [c \in Asks |-> "idle"]
    /\ book = [c \in Asks |-> "none"]
    /\ using = [c \in Asks |-> NoDelegation]
    /\ far = [c \in Asks |-> "none"]

calling == <<listed, agent, ask, book, using, far>>

-----------------------------------------------------------------------------
(***************************************************************************)
(* The command line and the management endpoints.                          *)
(***************************************************************************)

\* The row opens with the key the hub runs with.
Opens(h) == identity[h] = "sealed"

\* openCliContext: a row, and a key of the user's own that opens it.
CliOpens(h) == identity[h] # "none"

\* A blob whose signature verifies is one A signed: nobody else can.
Signed(d) == d \in DOMAIN issued

\* save(): the one row of federation_keys.
Saves(h, sealing) == identity' = [identity EXCEPT ![h] = sealing]

\* `init` with the hub's master key, or with none and a new one is made up.
\* `identity regen` runs the same code and so refuses whenever there is a row:
\* no action changes an identity.
InitIdentity(h, sealing) ==
    /\ identity[h] = "none"
    /\ Saves(h, sealing)
    /\ UNCHANGED <<issued, received, calling>>

\* The blob names the issuer's MagicDNS name; without one the CLI makes up
\* `<hub>.local:8080` and the endpoint signs an empty string, whose lookup
\* gives a URL that leads nowhere.
BlobUrl(via) == IF HasMagicDns \/ via = "cli" THEN "A" ELSE "nowhere"

\* cmdDelegate (with a master key of its own, and an expiry in the usual form) and
\* handleCreateDelegation (with the hub's, and the caller's string as it is, which
\* only has to parse to a moment to come): the row goes in once the blob is signed.
Issue(d, subject, ttl, text, via) ==
    /\ d \notin DOMAIN issued
    /\ IF via = "cli" THEN CliOpens("A") /\ text = ttl ELSE Opens("A")
    /\ issued' = [e \in DOMAIN issued \cup {d} |->
                    IF e = d THEN [subject |-> subject, ttl |-> ttl, text |-> text,
                                   revoked |-> FALSE, url |-> BlobUrl(via)]
                             ELSE issued[e]]
    /\ UNCHANGED <<identity, received, calling>>

\* createReceived, INSERT OR IGNORE: the first import of an id wins.
Imports(d, url) ==
    /\ d \notin DOMAIN received
    /\ received' = [e \in DOMAIN received \cup {d} |-> IF e = d THEN url ELSE received[e]]

\* cmdAcceptDelegation, which verifies the blob's signature and asks its user,
\* and looks neither at whom the blob is for nor at its expiry.
Accept(d) ==
    /\ CliOpens("B")
    /\ Signed(d)
    /\ Imports(d, issued[d].url)
    /\ UNCHANGED <<identity, issued, calling>>

\* (Wrong on purpose: the row is deleted.)
RevokeDeletes(d) ==
    /\ d \in DOMAIN issued
    /\ issued' = [e \in DOMAIN issued \ {d} |-> issued[e]]
    /\ UNCHANGED <<identity, received, calling>>

\* cmdRevokeDelegation, handleRevokeDelegation: A's row only.  Nothing tells B,
\* and no command sets `revoked` in B's table.
RevokeIssued(d) ==
    /\ CliOpens("A")
    /\ d \in DOMAIN issued
    /\ issued' = [issued EXCEPT ![d].revoked = TRUE]
    /\ UNCHANGED <<identity, received, calling>>

Sooner(n) == IF n = 0 THEN 0 ELSE n - 1

\* Time passes for what is read as a moment and for what is written like one.
PairTick ==
    /\ issued' = [d \in DOMAIN issued |->
                    [issued[d] EXCEPT !.ttl = Sooner(@),
                                      !.text = IF @ = AfterAll THEN @ ELSE Sooner(@)]]
    /\ issued' # issued
    /\ UNCHANGED <<identity, received, calling>>

-----------------------------------------------------------------------------
(***************************************************************************)
(* The call, as far as B.                                                  *)
(***************************************************************************)

\* (Wrong on purpose: in no order.)
AnyReceived == DOMAIN received

\* No imported row's `expires_at` is written later.
WrittenLast(d) == \A e \in DOMAIN received : issued[e].text <= issued[d].text

\* findReceivedMatch, ORDER BY expires_at DESC: strings, expired ones included.
LatestExpiring == {d \in DOMAIN received : WrittenLast(d)}

\* listFederatedToolDescriptors: the tool is listed while some row's string comes
\* after now's, with the delegation whose string comes last.
Descriptor(d) == issued[d].text > 0 /\ WrittenLast(d)

\* The MCP server starts and loads the list, once: what is imported, revoked or
\* expires later is not in it.
McpStarts ==
    /\ \A c \in Asks : agent[c] # "waiting"
    /\ \/ \E d \in DOMAIN received : Descriptor(d) /\ listed' = d
       \/ (~\E d \in DOMAIN received : Descriptor(d)) /\ listed' = NoDelegation
    /\ UNCHANGED <<identity, issued, received, agent, ask, book, using, far>>

\* dispatchTool, for a tool of the list: one request with a 30 s timeout.
AgentCalls(c) ==
    /\ agent[c] = "idle"
    /\ listed # NoDelegation
    /\ agent' = [agent EXCEPT ![c] = "waiting"]

\* What B's hub answers by itself: 503 without an identity, 404 without a
\* delegation (to a client that goes by no list), 403 with an expired one, 500
\* with an identity it cannot open.  The middle two leave a row.
InvokeRefuses(c) ==
    /\ agent[c] = "idle"
    /\ agent' = [agent EXCEPT ![c] = "refused"]
    /\ ask' = [ask EXCEPT ![c] = "answered"]
    /\ \/ /\ identity["B"] = "none"
          /\ UNCHANGED book
       \/ /\ identity["B"] # "none"
          /\ \/ DOMAIN received = {}
             \/ \E d \in LatestExpiring : issued[d].ttl = 0
          /\ book' = [book EXCEPT ![c] = "federated_denied"]
       \/ /\ ~Opens("B") /\ identity["B"] # "none"
          /\ \E d \in LatestExpiring : issued[d].ttl > 0
          /\ UNCHANGED book
    /\ UNCHANGED <<identity, issued, received, listed, using, far>>

\* handleFederationInvoke up to its await: the request is signed and sent.
InvokeSends(c) ==
    /\ AgentCalls(c)
    /\ Opens("B")
    /\ \E d \in LatestExpiring :
        /\ issued[d].ttl > 0
        /\ using' = [using EXCEPT ![c] = d]
    /\ ask' = [ask EXCEPT ![c] = "sent"]
    /\ UNCHANGED <<identity, issued, received, listed, book, far>>

-----------------------------------------------------------------------------
(***************************************************************************)
(* A, as B and the audit log see it (FederationCall has the details).      *)
(***************************************************************************)

\* A's checks: 403 for a delegation that is revoked, expired or not this
\* peer's.  Other bounces (replay, rate limit, no phone, no such tool) have
\* other statuses and may meet any request.
Backed(c) ==
    LET row == issued[using[c]] IN ~row.revoked /\ row.ttl > 0 /\ row.subject = "B"

\* The request arrives, perhaps after B has stopped waiting for its answer.
FarReceives(c) ==
    /\ far[c] = "none"
    /\ using[c] # NoDelegation
    /\ received[using[c]] = "A"
    /\ \/ Backed(c) /\ far' = [far EXCEPT ![c] = "asking"]
       \/ ~Backed(c) /\ far' = [far EXCEPT ![c] = "denied"]
       \/ far' = [far EXCEPT ![c] = "bounced"]
    /\ UNCHANGED <<identity, issued, received, listed, agent, ask, book, using>>

\* Both dialogs are behind it, or either was refused or ran out of time: 403.
FarDecides(c) ==
    /\ far[c] = "asking"
    /\ \E s \in {"running", "denied"} : far' = [far EXCEPT ![c] = s]
    /\ UNCHANGED <<identity, issued, received, listed, agent, ask, book, using>>

\* The plugin answers, 200; or it fails, whatever it says of the reason, 500.
FarFinishes(c) ==
    /\ far[c] = "running"
    /\ \E s \in {"ran", "failed"} : far' = [far EXCEPT ![c] = s]
    /\ UNCHANGED <<identity, issued, received, listed, agent, ask, book, using>>

\* A's process ends: nobody will answer what it was serving.
FarCrash ==
    /\ \E c \in Asks : far[c] \in {"asking", "running"}
    /\ far' = [c \in Asks |-> IF far[c] \in {"asking", "running"} THEN "died" ELSE far[c]]
    /\ UNCHANGED <<identity, issued, received, listed, agent, ask, book, using>>

-----------------------------------------------------------------------------
(***************************************************************************)
(* The answer, back through B to the agent.                                *)
(***************************************************************************)

\* (Wrong on purpose: a plugin's failure is taken for a refusal, as the local
\* call's mapping of error codes would.)
ClassifyFailureAsDenied(s) ==
    CASE s = "ran" -> "federated_ok" [] s \in {"denied", "failed"} -> "federated_denied"
      [] OTHER -> "federated_error"

\* 2xx, 403, and the rest.
Classify(s) ==
    CASE s = "ran" -> "federated_ok" [] s = "denied" -> "federated_denied"
      [] OTHER -> "federated_error"

\* sendJson to the MCP server, which may have hung up.
Tell(c, outcome) ==
    agent' = [agent EXCEPT ![c] = IF @ = "waiting" THEN outcome ELSE @]

\* A's answer reaches B: a row by its status, and the status passed on.
AnswerReturns(c) ==
    /\ ask[c] = "sent"
    /\ far[c] \in FarAnswers
    /\ ask' = [ask EXCEPT ![c] = "answered"]
    /\ book' = [book EXCEPT ![c] = Classify(far[c])]
    /\ Tell(c, IF far[c] = "ran" THEN "ok" ELSE "refused")
    /\ UNCHANGED <<identity, issued, received, listed, using, far>>

\* The answer breaks off after its headers: body.text() throws outside of the
\* try block, and the call ends in a 500 without a row.
BodyBreaksOff(c) ==
    /\ ask[c] = "sent"
    /\ far[c] \in FarAnswers
    /\ ask' = [ask EXCEPT ![c] = "mute"]
    /\ Tell(c, "refused")
    /\ UNCHANGED <<identity, issued, received, listed, book, using, far>>

\* undiciRequest throws: A is not reached, the connection breaks, or 130 s are
\* over.  The request may have arrived, and may yet.
UpstreamFails(c) ==
    /\ ask[c] = "sent"
    /\ ask' = [ask EXCEPT ![c] = "answered"]
    /\ book' = [book EXCEPT ![c] = "federated_error"]
    /\ Tell(c, "refused")
    /\ UNCHANGED <<identity, issued, received, listed, using, far>>

\* hub-client.ts gives up; the hub's handler does not notice.
AgentGivesUp(c) ==
    /\ agent[c] = "waiting"
    /\ agent' = [agent EXCEPT ![c] = "gone"]
    /\ UNCHANGED <<identity, issued, received, listed, ask, book, using, far>>

\* B's process ends, with every handler that waits for A.
NearCrash ==
    /\ \E c \in Asks : ask[c] = "sent"
    /\ ask' = [c \in Asks |-> IF ask[c] = "sent" THEN "mute" ELSE ask[c]]
    /\ agent' = [c \in Asks |-> IF agent[c] = "waiting" THEN "refused" ELSE agent[c]]
    /\ UNCHANGED <<identity, issued, received, listed, book, using, far>>

PairNext ==
    \/ \E h \in Hubs, s \in {"sealed", "foreign"} : InitIdentity(h, s)
    \/ \E d \in DelegIds, p \in Subjects, n \in 1 .. DelegTTL, t \in Texts,
          v \in {"cli", "http"} : Issue(d, p, n, t, v)
    \/ \E d \in DelegIds : Accept(d) \/ RevokeIssued(d)
    \/ PairTick \/ McpStarts
    \/ \E c \in Asks : \/ InvokeRefuses(c) \/ InvokeSends(c)
                       \/ FarReceives(c) \/ FarDecides(c) \/ FarFinishes(c)
                       \/ AnswerReturns(c) \/ BodyBreaksOff(c) \/ UpstreamFails(c)
                       \/ AgentGivesUp(c)
    \/ FarCrash \/ NearCrash

PairSpec == PairInit /\ [][PairNext]_pairVars

-----------------------------------------------------------------------------
(***************************************************************************)
(* Properties.                                                             *)
(***************************************************************************)

\* docs/architecture.md: both hubs log a federated call.  The two logs, of two
\* processes that crash and time out on their own, never contradict each other:
\* B's federated_ok is a call that ran on A, and B's federated_denied one that
\* did not run there and never will, whatever arrives late.
BooksAgree ==
    \A c \in Asks :
        /\ book[c] = "federated_ok" => far[c] = "ran"
        /\ book[c] = "federated_denied" => far[c] \in {"none", "denied"}
        /\ far[c] \in {"asking", "running"} => book[c] \in {"none", "federated_error"}

\* The imported rows are written in the usual form, as the CLI writes them.
Canonical == \A d \in DOMAIN received : issued[d].text = issued[d].ttl

\* What call c goes out on, beside what is listed.
NotBefore(c) ==
    LET used == issued[using'[c]]
        shown == issued[listed]
    IN  used.text >= shown.text /\ (Canonical => used.ttl >= shown.ttl)

\* The list's choice among several delegations and the call's, made by different code
\* (byName.set, ORDER BY) at different times, do not cross: a call goes out on the
\* listed delegation or on one written later, and where expiries are written in the
\* usual form, on one that lasts at least as long.
CallsOnListed == [][\A c \in Asks : InvokeSends(c) => NotBefore(c)]_pairVars

\* server.ts:694-697 of several delegations for a tool: "pick the one with the latest
\* `expires_at`".  Of the delegations B holds, none lasts longer than the one a call
\* goes out on.
LatestExpiryWins ==
    [][\A c \in Asks : InvokeSends(c) =>
         \A e \in DOMAIN received : issued[e].ttl <= issued[using'[c]].ttl]_pairVars
=============================================================================
