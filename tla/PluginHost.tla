------------------------------- MODULE PluginHost -------------------------------
(***************************************************************************)
(* Plugin processes and their registry: PluginProcess and PluginRegistry   *)
(* (hub-core/src/plugin-process.ts), the starts of plugins in server.ts    *)
(* and, at the other end of the pipe, the serial loop of the plugin SDK    *)
(* (plugin-sdk/src/transport.ts, plugin.ts).                               *)
(*                                                                         *)
(* One element of Procs is one PluginProcess object with its child.  The   *)
(* registry knows plugins by the name of their manifest, not by object:    *)
(* a second start of a name replaces the first in the registry without     *)
(* ending it, and the exit of either drops the name.  Time is counted in   *)
(* heartbeat intervals, per process; request timers fire at any moment.    *)
(***************************************************************************)
EXTENDS Naturals, SequencesExt

CONSTANTS
    Procs,      \* PluginProcess objects
    Names,
    Tools,
    Offers,     \* what a process may answer to initialize:
                \* [Procs -> SUBSET [name : Names, tools : SUBSET Tools]]
    Asks,       \* requests to plugins: tool calls and lifecycle hooks
    PingKnown,  \* processes whose program answers ping with a result
    MaxOwed,    \* pings without an answer are counted up to here
    NoProc,
    NoName,
    NoManifest

Manifests == [name : Names, tools : SUBSET Tools]

ASSUME OffersAssumption == Offers \in [Procs -> SUBSET Manifests]
ASSUME ProcsAssumption == Procs \cap {NoProc, "idle", "over"} = {}
ASSUME AsksAssumption == "initialize" \notin Asks
ASSUME OwedAssumption == MaxOwed \in Nat

VARIABLES
    child,    \* the operating system's process
    start,    \* startPlugin of this object
    shut,     \* shutdown() of this object
    info,     \* its manifest, NoManifest while it is called "unknown"
    stdin,    \* lines written and not served yet
    stdout,   \* answers not read yet
    pending,  \* requests with an entry in the object's map, pings apart
    owed,     \* pings without an answer, kept apart from the other lines
    silent,   \* heartbeats since the last pong, 2 standing for more, or never
    plugins,  \* the registry: objects by name
    route,    \* the registry: names by tool
    ask,      \* callers of callTool and invokeLifecycleHook
    loading,  \* the start loadPluginsFromDir awaits, or "next", or "over"
    hubProcess \* the process of the hub

hostVars == <<child, start, shut, info, stdin, stdout, pending, owed, silent,
              plugins, route, ask, loading, hubProcess>>

Running == {"up", "leaving"}
\* A caller waits on an object, until it has an answer or an error.
AskStates == Procs \cup {"idle", "over"}
Methods == {"initialize", "shutdown", "tools/call", "plugin.lifecycle"}
Ids == Asks \cup {"initialize", "none"}
Lines == [method : Methods, id : Ids]
Replies == [to : Ids, manifest : Manifests \cup {NoManifest}]

HostTypeOK ==
    /\ child \in [Procs -> Running \cup {"none", "killed", "dead"}]
    /\ start \in [Procs -> {"none", "initializing", "registered", "failing", "failed"}]
    /\ shut \in [Procs -> {"no", "waiting", "done"}]
    /\ info \in [Procs -> Manifests \cup {NoManifest}]
    /\ stdin \in [Procs -> Seq(Lines)] /\ stdout \in [Procs -> Seq(Replies)]
    /\ pending \in [Procs -> SUBSET (Asks \cup {"initialize"})]
    /\ owed \in [Procs -> 0 .. MaxOwed]
    /\ silent \in [Procs -> 0 .. 2]
    /\ plugins \in [Names -> Procs \cup {NoProc}]
    /\ route \in [Tools -> Names \cup {NoName}]
    /\ ask \in [Asks -> AskStates]
    /\ \A a \in Asks : ask[a] \in Procs => a \in pending[ask[a]]
    /\ loading \in Procs \cup {"next", "over"}
    /\ hubProcess \in {"up", "stopping", "down"}

HostInit ==
    /\ child = [p \in Procs |-> "none"]
    /\ start = [p \in Procs |-> "none"]
    /\ shut = [p \in Procs |-> "no"]
    /\ info = [p \in Procs |-> NoManifest]
    /\ stdin = [p \in Procs |-> <<>>]
    /\ stdout = [p \in Procs |-> <<>>]
    /\ pending = [p \in Procs |-> {}]
    /\ owed = [p \in Procs |-> 0]
    /\ silent = [p \in Procs |-> 2]
    /\ plugins = [n \in Names |-> NoProc]
    /\ route = [t \in Tools |-> NoName]
    /\ ask = [a \in Asks |-> "idle"]
    /\ loading = "next"
    /\ hubProcess = "up"

-----------------------------------------------------------------------------
(* Helpers.                                                                *)

\* A line reaches the child only while it runs.
Line(method, id) == [method |-> method, id |-> id]

Write(p, line) ==
    stdin' = IF child[p] \in Running THEN [stdin EXCEPT ![p] = Append(@, line)] ELSE stdin

Register(p, m) ==
    /\ plugins' = [plugins EXCEPT ![m.name] = p]
    /\ route' = [t \in Tools |-> IF t \in m.tools THEN m.name ELSE route[t]]

\* (Wrong on purpose: the name is given back, its tools are not.)
UnregisterPluginsOnly(n) ==
    /\ plugins' = [plugins EXCEPT ![n] = NoProc]
    /\ UNCHANGED route

Unregister(n) ==
    /\ plugins' = [plugins EXCEPT ![n] = NoProc]
    /\ route' = IF plugins[n] = NoProc THEN route
                ELSE [t \in Tools |-> IF route[t] = n THEN NoName ELSE route[t]]

\* (Wrong on purpose: the map is emptied and its callers are left waiting.)
RejectForgets(p) ==
    /\ pending' = [pending EXCEPT ![p] = {}]
    /\ UNCHANGED ask

\* cleanup(): every caller still waiting on p is rejected.
Reject(p) ==
    /\ pending' = [pending EXCEPT ![p] = {}]
    /\ ask' = [a \in Asks |-> IF a \in pending[p] THEN "over" ELSE ask[a]]

\* The heartbeat runs until cleanup.
Beating(p) == child[p] \notin {"none", "dead"} /\ shut[p] # "done"

\* startPlugin of p returns or throws to whoever awaits it.
Returned(p, next) == loading' = IF loading = p THEN next ELSE loading

-----------------------------------------------------------------------------
(* Starting.                                                               *)

Spawn(p) ==
    /\ child[p] = "none"
    /\ child' = [child EXCEPT ![p] = "up"]
    /\ start' = [start EXCEPT ![p] = "initializing"]
    /\ stdin' = [stdin EXCEPT ![p] = <<Line("initialize", "initialize")>>]
    /\ pending' = [pending EXCEPT ![p] = {"initialize"}]
    /\ UNCHANGED <<shut, info, stdout, owed, silent, plugins, route, ask, hubProcess>>

\* loadPluginsFromDir awaits one start after the other, in whatever order the
\* directory has; the first that fails ends the loop.
LoadNext(p) ==
    /\ hubProcess = "up"
    /\ loading = "next"
    /\ Spawn(p)
    /\ loading' = p

LoadedAll ==
    /\ loading = "next"
    /\ loading' = "over"
    /\ UNCHANGED <<child, start, shut, info, stdin, stdout, pending, owed, silent, plugins,
                   route, ask, hubProcess>>

\* POST /v1/plugins: a start of any plugin, one of a running name included.
Install(p) ==
    /\ hubProcess # "down"
    /\ Spawn(p)
    /\ UNCHANGED loading

\* shutdown() after a failed initialize.
GiveUp(p) ==
    /\ start' = [start EXCEPT ![p] = "failing"]
    /\ shut' = [shut EXCEPT ![p] = "waiting"]

InitializeTimesOut(p) ==
    /\ "initialize" \in pending[p]
    /\ pending' = [pending EXCEPT ![p] = @ \ {"initialize"}]
    /\ GiveUp(p)
    /\ Write(p, Line("shutdown", "none"))
    /\ UNCHANGED <<child, info, stdout, owed, silent, plugins, route, ask, loading, hubProcess>>

-----------------------------------------------------------------------------
(* The plugin's side: one line after the other.                            *)

\* listen(): the next line, once the one before is done with.
Served(p, method) ==
    /\ child[p] \in Running
    /\ stdin[p] # <<>>
    /\ Head(stdin[p]).method = method
    /\ stdin' = [stdin EXCEPT ![p] = Tail(@)]
    /\ UNCHANGED <<start, shut, info, pending, owed, silent, plugins, route, ask, loading, hubProcess>>

\* A request is answered under its id, with a result or an error.
Answer(p, manifest) ==
    /\ stdout' = [stdout EXCEPT ![p] = Append(@, [to |-> Head(stdin[p]).id, manifest |-> manifest])]
    /\ UNCHANGED child

\* onStart() or the manifest may fail.
ServeInitialize(p) ==
    /\ Served(p, "initialize")
    /\ \E m \in Offers[p] \cup {NoManifest} : Answer(p, m)

ServeToolCall(p) ==
    /\ Served(p, "tools/call")
    /\ Answer(p, NoManifest)

\* A hook that runs out of its own time is answered with an error.
ServeLifecycle(p) ==
    /\ Served(p, "plugin.lifecycle")
    /\ Answer(p, NoManifest)

\* A notification: no answer, and the process leaves when the loop comes round.
ServeShutdown(p) ==
    /\ Served(p, "shutdown")
    /\ child' = [child EXCEPT ![p] = "leaving"]
    /\ UNCHANGED stdout

-----------------------------------------------------------------------------
(* handleLine.                                                             *)

Read(p) ==
    /\ stdout[p] # <<>>
    /\ stdout' = [stdout EXCEPT ![p] = Tail(@)]
    /\ UNCHANGED <<child, hubProcess>>

Initialized(p, m) ==
    /\ Head(stdout[p]) = m
    /\ m.to = "initialize" /\ m.manifest # NoManifest /\ "initialize" \in pending[p]
    /\ Read(p)
    /\ pending' = [pending EXCEPT ![p] = @ \ {"initialize"}]
    /\ info' = [info EXCEPT ![p] = m.manifest]
    /\ start' = [start EXCEPT ![p] = "registered"]
    /\ Register(p, m.manifest)
    /\ Returned(p, "next")
    /\ UNCHANGED <<shut, stdin, owed, silent, ask>>

InitializeFails(p, m) ==
    /\ Head(stdout[p]) = m
    /\ m.to = "initialize" /\ m.manifest = NoManifest /\ "initialize" \in pending[p]
    /\ Read(p)
    /\ pending' = [pending EXCEPT ![p] = @ \ {"initialize"}]
    /\ GiveUp(p)
    /\ Write(p, Line("shutdown", "none"))
    /\ UNCHANGED <<info, owed, silent, plugins, route, ask, loading>>

Answered(p, m) ==
    /\ Head(stdout[p]) = m
    /\ m.to \in Asks \cap pending[p]
    /\ Read(p)
    /\ pending' = [pending EXCEPT ![p] = @ \ {m.to}]
    /\ ask' = [ask EXCEPT ![m.to] = "over"]
    /\ UNCHANGED <<start, shut, info, stdin, owed, silent, plugins, route, loading>>

\* An answer whose request has timed out or was cut.
Unexpected(p, m) ==
    /\ Head(stdout[p]) = m
    /\ m.to \notin pending[p]
    /\ Read(p)
    /\ UNCHANGED <<start, shut, info, stdin, pending, owed, silent, plugins, route, ask, loading>>

HandleLine(p) ==
    \E m \in Range(stdout[p]) :
        \/ Initialized(p, m)
        \/ InitializeFails(p, m)
        \/ Answered(p, m)
        \/ Unexpected(p, m)

-----------------------------------------------------------------------------
(* Requests.                                                               *)

Send(a, p, method) ==
    /\ ask' = [ask EXCEPT ![a] = p]
    /\ pending' = [pending EXCEPT ![p] = @ \cup {a}]
    /\ Write(p, Line(method, a))
    /\ UNCHANGED <<child, start, shut, info, stdout, owed, silent, plugins, route, loading, hubProcess>>

\* getPlugin, then callTool on the object the registry holds now.
Call(a, t) ==
    /\ hubProcess # "down"
    /\ ask[a] = "idle"
    /\ IF route[t] = NoName \/ plugins[route[t]] = NoProc
       THEN /\ ask' = [ask EXCEPT ![a] = "over"]
            /\ UNCHANGED <<child, start, shut, info, stdin, stdout, pending, owed, silent,
                           plugins, route, loading, hubProcess>>
       ELSE Send(a, plugins[route[t]], "tools/call")

\* invokeLifecycleHook, on an object the caller already holds.
Hook(a, p) ==
    /\ hubProcess # "down"
    /\ ask[a] = "idle"
    /\ start[p] = "registered"
    /\ Send(a, p, "plugin.lifecycle")

\* The request's own timer; the child keeps working on it.
RequestTimesOut(a) ==
    /\ ask[a] \in Procs
    /\ a \in pending[ask[a]]
    /\ ask' = [ask EXCEPT ![a] = "over"]
    /\ pending' = [pending EXCEPT ![ask[a]] = @ \ {a}]
    /\ UNCHANGED <<child, start, shut, info, stdin, stdout, owed, silent, plugins, route, loading, hubProcess>>

-----------------------------------------------------------------------------
(* Heartbeat, exit, shutdown.                                              *)

\* (Wrong on purpose: only a plugin that knows the method is held to answer it.)
KillsAnswering(p) == owed[p] > 0 /\ silent[p] = 2 /\ p \in PingKnown

Kills(p) == owed[p] > 0 /\ silent[p] = 2

\* The interval fires: first the check of the ping before, then the next ping.
Beat(p) ==
    /\ Beating(p)
    /\ child[p] # "killed"
    /\ owed' = [owed EXCEPT ![p] = IF @ = MaxOwed THEN @ ELSE @ + 1]
    /\ child' = IF Kills(p) THEN [child EXCEPT ![p] = "killed"] ELSE child
    /\ silent' = [silent EXCEPT ![p] = IF @ = 2 THEN 2 ELSE @ + 1]
    /\ UNCHANGED <<start, shut, info, stdin, stdout, pending, plugins, route, ask, loading, hubProcess>>

\* The oldest ping that is owed is answered.  Only a result counts as a pong:
\* "Method not found", the SDK's answer, merely clears that ping's check.
Pong(p) ==
    /\ child[p] \in Running
    /\ owed[p] > 0
    /\ owed' = [owed EXCEPT ![p] = @ - 1]
    /\ silent' = [silent EXCEPT ![p] = IF p \in PingKnown /\ Beating(p) THEN 0 ELSE @]
    /\ UNCHANGED <<child, start, shut, info, stdin, stdout, pending, plugins, route, ask,
                   loading, hubProcess>>

\* The exit event, for whatever reason.  An initialize that waits is rejected
\* and shutdown() starts, too late to see this event; what was not read by now
\* finds no entry any more.
Exit(p) ==
    /\ child[p] \notin {"none", "dead"}
    /\ child' = [child EXCEPT ![p] = "dead"]
    /\ stdin' = [stdin EXCEPT ![p] = <<>>]
    /\ stdout' = [stdout EXCEPT ![p] = <<>>]
    /\ owed' = [owed EXCEPT ![p] = 0]
    /\ silent' = [silent EXCEPT ![p] = 2]
    /\ Reject(p)
    /\ IF info[p] = NoManifest THEN UNCHANGED <<plugins, route>> ELSE Unregister(info[p].name)
    /\ IF "initialize" \in pending[p] THEN GiveUp(p)
       ELSE /\ shut' = [shut EXCEPT ![p] = IF @ = "waiting" THEN "done" ELSE @]
            /\ start' = [start EXCEPT ![p] = IF @ = "failing" THEN "failed" ELSE @]
    /\ IF start[p] = "failing" THEN Returned(p, "over") ELSE UNCHANGED loading
    /\ UNCHANGED <<info, hubProcess>>

\* (Wrong on purpose: where there is nothing to kill, nothing is done.)
ShutdownTimesOutIfRunning(p) ==
    /\ shut[p] = "waiting"
    /\ child[p] \in Running
    /\ shut' = [shut EXCEPT ![p] = "done"]
    /\ child' = [child EXCEPT ![p] = "killed"]
    /\ start' = [start EXCEPT ![p] = IF @ = "failing" THEN "failed" ELSE @]
    /\ Reject(p)
    /\ IF start[p] = "failing" THEN Returned(p, "over") ELSE UNCHANGED loading
    /\ UNCHANGED <<info, stdin, stdout, owed, silent, plugins, route, hubProcess>>

\* Five seconds without an exit event.
ShutdownTimesOut(p) ==
    /\ shut[p] = "waiting"
    /\ shut' = [shut EXCEPT ![p] = "done"]
    /\ child' = [child EXCEPT ![p] = IF @ \in Running THEN "killed" ELSE @]
    /\ start' = [start EXCEPT ![p] = IF @ = "failing" THEN "failed" ELSE @]
    /\ Reject(p)
    /\ IF start[p] = "failing" THEN Returned(p, "over") ELSE UNCHANGED loading
    /\ UNCHANGED <<info, stdin, stdout, owed, silent, plugins, route, hubProcess>>

\* A signal, handled once loading is over: shutdownAll() on what the registry
\* holds.
Stop ==
    /\ hubProcess = "up"
    /\ loading = "over"
    /\ hubProcess' = "stopping"
    /\ LET going == {p \in Range(plugins) : p # NoProc}
       IN /\ shut' = [p \in Procs |-> IF p \in going THEN "waiting" ELSE shut[p]]
          /\ stdin' = [p \in Procs |-> IF p \in going /\ child[p] \in Running
                                       THEN Append(stdin[p], Line("shutdown", "none")) ELSE stdin[p]]
    /\ UNCHANGED <<child, start, info, stdout, pending, owed, silent, plugins, route, ask, loading>>

\* All of them are gone: the hub exits.  Children left over read end of file.
Down ==
    /\ hubProcess = "stopping"
    /\ \A p \in Procs : start[p] = "registered" => shut[p] # "waiting"
    /\ hubProcess' = "down"
    /\ child' = [p \in Procs |-> IF child[p] \in Running THEN "leaving" ELSE child[p]]
    /\ shut' = [p \in Procs |-> IF child[p] = "none" THEN shut[p] ELSE "done"]
    /\ start' = [p \in Procs |-> IF start[p] \in {"initializing", "failing"} THEN "failed"
                                 ELSE start[p]]
    /\ ask' = [a \in Asks |-> IF ask[a] \in Procs THEN "over" ELSE ask[a]]
    /\ pending' = [p \in Procs |-> {}]
    /\ stdin' = [p \in Procs |-> <<>>]
    /\ stdout' = [p \in Procs |-> <<>>]
    /\ owed' = [p \in Procs |-> 0]
    /\ silent' = [p \in Procs |-> 2]
    /\ UNCHANGED <<info, plugins, route, loading>>

-----------------------------------------------------------------------------
Ended(p) == child[p] \in {"killed", "leaving"} /\ Exit(p)

\* What the event loop and the system bring about in time.
Due ==
    \/ LoadedAll
    \/ Down
    \/ \E p \in Procs :
        InitializeTimesOut(p) \/ ShutdownTimesOut(p) \/ HandleLine(p) \/ Ended(p)
    \/ \E a \in Asks : RequestTimesOut(a)

HostNext ==
    \/ Due
    \/ \E p \in Procs : LoadNext(p) \/ Install(p) \/ Beat(p) \/ Pong(p) \/ Exit(p)
    \/ \E p \in Procs :
        ServeInitialize(p) \/ ServeToolCall(p) \/ ServeLifecycle(p) \/ ServeShutdown(p)
    \/ \E a \in Asks, t \in Tools : Call(a, t)
    \/ \E a \in Asks, p \in Procs : Hook(a, p)
    \/ Stop

HostSpec == HostInit /\ [][HostNext]_hostVars

\* Timers fire, lines are read and a child that was killed or has taken leave
\* ends; a plugin may stay silent for ever.  A start, a request and an exit
\* happen once, so that one condition serves for all that is due but the
\* heartbeat, which repeats.
HostFairness ==
    /\ WF_hostVars(Due)
    /\ \A p \in Procs : WF_hostVars(Beat(p))

HostFairSpec == HostSpec /\ HostFairness

-----------------------------------------------------------------------------
\* Whatever starts, replaces, crashes and is killed: a tool is never routed to
\* a name nobody holds, nor to an object whose child is known to have ended.
\* (unregister works by name while objects come and go.)
RoutesLeadToTheLiving ==
    \A t \in Tools : route[t] # NoName =>
        /\ plugins[route[t]] # NoProc
        /\ child[plugins[route[t]]] # "dead"

\* A start comes to an end, registered or failed, and with it the loop's wait
\* for it: a plugin that never answers initialize, or that has to be killed,
\* holds the plugins of the directory behind it up only for a time.  (A process
\* is started once: "again and again not" is "in the end no more".)
StartsEnd ==
    \A p \in Procs : []<>(start[p] \notin {"initializing", "failing"} /\ loading # p)

\* A plugin that has hung does not stay: again and again it has answered its
\* pings, or just sent a pong, or its process ends, whether or not its program
\* knows the method.
HungIsEnded ==
    \A p \in Procs : []<>(owed[p] = 0 \/ silent[p] = 0 \/ child[p] \in {"none", "dead"})
=============================================================================
