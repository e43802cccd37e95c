--------------------------- MODULE PluginHostProofs ---------------------------
(***************************************************************************)
(* Proofs about PluginHost, for any number of plugin processes, tools and  *)
(* requests.  RoutesLeadToTheLiving speaks of routes, which are dropped by *)
(* the name that the process is known by when it ends.  HostIInv adds what *)
(* makes that the right name: the registry holds an object only under the  *)
(* name of its own manifest (Held), the manifest is set once, by the       *)
(* answer to initialize (Unborn, Nameless), and nothing is read from a     *)
(* process that has ended (Unread).                                        *)
(***************************************************************************)
EXTENDS PluginHost, TLAPS

USE OffersAssumption, ProcsAssumption, AsksAssumption, OwedAssumption

Held ==
    \A n \in Names : plugins[n] # NoProc =>
        info[plugins[n]] # NoManifest /\ info[plugins[n]].name = n

Unborn ==
    \A p \in Procs : child[p] = "none" =>
        info[p] = NoManifest /\ pending[p] = {} /\ start[p] = "none"

Nameless == \A p \in Procs : "initialize" \in pending[p] => info[p] = NoManifest

Unread == \A p \in Procs : child[p] \in {"none", "dead"} => stdout[p] = <<>>

HostIInv == HostTypeOK /\ Held /\ Unborn /\ Nameless /\ Unread /\ RoutesLeadToTheLiving

-----------------------------------------------------------------------------

\* A line that is written, and one that is taken, leaves a list of lines.
LEMMA Written ==
    ASSUME HostTypeOK, NEW p \in Procs, NEW method \in Methods, NEW id \in Ids,
           Write(p, Line(method, id))
    PROVE  stdin' \in [Procs -> Seq(Lines)]
<1>1. Line(method, id) \in Lines
  BY DEF Line, Lines
<1> QED BY <1>1 DEF HostTypeOK, Write

LEMMA LineTaken ==
    ASSUME HostTypeOK, NEW p \in Procs, NEW method, Served(p, method)
    PROVE  /\ stdin' \in [Procs -> Seq(Lines)]
           /\ Head(stdin[p]) \in Lines
           /\ child[p] \in Running
BY DEF HostTypeOK, Served

LEMMA AnswerTyped ==
    ASSUME HostTypeOK, NEW p \in Procs, NEW method, Served(p, method),
           NEW m \in Manifests \cup {NoManifest}, Answer(p, m)
    PROVE  stdout' \in [Procs -> Seq(Replies)] /\ child' = child
<1>1. [to |-> Head(stdin[p]).id, manifest |-> m] \in Replies
  BY LineTaken DEF Lines, Replies
<1> QED BY <1>1 DEF HostTypeOK, Answer

LEMMA AnswerTaken ==
    ASSUME HostTypeOK, NEW p \in Procs, Read(p)
    PROVE  stdout' \in [Procs -> Seq(Replies)] /\ Head(stdout[p]) \in Replies
BY DEF HostTypeOK, Read

LEMMA HostTypeInit == HostInit => HostTypeOK
BY DEF HostInit, HostTypeOK, AskStates, Running

LEMMA RejectTyped ==
    ASSUME HostTypeOK, NEW p \in Procs, Reject(p)
    PROVE  /\ pending' \in [Procs -> SUBSET (Asks \cup {"initialize"})]
           /\ ask' \in [Asks -> AskStates]
           /\ \A a \in Asks : ask'[a] \in Procs => a \in pending'[ask'[a]]
BY DEF HostTypeOK, Reject, AskStates

\* The types are kept by every step.
LEMMA HostTypeStep == HostTypeOK /\ Unborn /\ [HostNext]_hostVars => HostTypeOK'
<1> SUFFICES ASSUME HostTypeOK, Unborn, [HostNext]_hostVars PROVE HostTypeOK'
  OBVIOUS
<1> USE DEF AskStates, Running
<1>1. ASSUME NEW p \in Procs, Spawn(p), loading' \in Procs \cup {"next", "over"}
      PROVE  HostTypeOK'
  <2>1. Line("initialize", "initialize") \in Lines
    BY DEF Line, Lines, Methods, Ids
  <2>2. stdin' \in [Procs -> Seq(Lines)]
    BY <1>1, <2>1 DEF Spawn, HostTypeOK
  <2>3. \A a \in Asks : ask[a] # p
    BY <1>1 DEF Spawn, HostTypeOK, Unborn
  <2> QED BY <1>1, <2>2, <2>3 DEF Spawn, HostTypeOK
<1>2. CASE LoadedAll
  BY <1>2 DEF LoadedAll, HostTypeOK
<1>3. ASSUME NEW p \in Procs, InitializeTimesOut(p) PROVE HostTypeOK'
  <2>1. stdin' \in [Procs -> Seq(Lines)]
    BY <1>3, Written DEF InitializeTimesOut, Methods, Ids
  <2> QED BY <1>3, <2>1 DEF InitializeTimesOut, GiveUp, HostTypeOK
<1>4. ASSUME NEW p \in Procs,
             ServeInitialize(p) \/ ServeToolCall(p) \/ ServeLifecycle(p)
      PROVE  HostTypeOK'
  <2>1. PICK method \in Methods : Served(p, method)
    BY <1>4 DEF ServeInitialize, ServeToolCall, ServeLifecycle, Methods
  <2>2. PICK m \in Manifests \cup {NoManifest} : Answer(p, m)
    BY <1>4 DEF ServeInitialize, ServeToolCall, ServeLifecycle
  <2>3. /\ stdin' \in [Procs -> Seq(Lines)] /\ stdout' \in [Procs -> Seq(Replies)]
        /\ child' = child
    BY <2>1, <2>2, LineTaken, AnswerTyped
  <2> QED BY <2>1, <2>3 DEF Served, HostTypeOK
<1>5. ASSUME NEW p \in Procs, ServeShutdown(p) PROVE HostTypeOK'
  <2>1. stdin' \in [Procs -> Seq(Lines)]
    BY <1>5, LineTaken DEF ServeShutdown
  <2> QED BY <1>5, <2>1 DEF ServeShutdown, Served, HostTypeOK
<1>6. ASSUME NEW p \in Procs, HandleLine(p) PROVE HostTypeOK'
  <2> PICK m \in Range(stdout[p]) :
        Initialized(p, m) \/ InitializeFails(p, m) \/ Answered(p, m) \/ Unexpected(p, m)
    BY <1>6 DEF HandleLine
  <2>1. Read(p) /\ m = Head(stdout[p])
    BY DEF Initialized, InitializeFails, Answered, Unexpected
  <2>2. stdout' \in [Procs -> Seq(Replies)] /\ m \in Replies
    BY <2>1, AnswerTaken
  <2>3. CASE Initialized(p, m)
    <3>1. m.manifest \in Manifests
      BY <2>2, <2>3 DEF Initialized, Replies
    <3>2. m.manifest.name \in Names
      BY <3>1 DEF Manifests
    <3> QED BY <2>1, <2>2, <2>3, <3>1, <3>2 DEF Initialized, Read, Register, Returned, HostTypeOK
  <2>4. CASE InitializeFails(p, m)
    <3>1. stdin' \in [Procs -> Seq(Lines)]
      BY <2>4, Written DEF InitializeFails, Methods, Ids
    <3> QED BY <2>1, <2>2, <2>4, <3>1 DEF InitializeFails, Read, GiveUp, HostTypeOK
  <2>5. CASE Answered(p, m)
    BY <2>1, <2>2, <2>5 DEF Answered, Read, HostTypeOK
  <2>6. CASE Unexpected(p, m)
    BY <2>1, <2>2, <2>6 DEF Unexpected, Read, HostTypeOK
  <2> QED BY <2>3, <2>4, <2>5, <2>6
<1>7. ASSUME NEW a \in Asks, NEW p \in Procs, NEW method \in Methods, Send(a, p, method)
      PROVE  HostTypeOK'
  <2>1. stdin' \in [Procs -> Seq(Lines)]
    BY <1>7, Written DEF Send, Ids
  <2> QED BY <1>7, <2>1 DEF Send, HostTypeOK
<1>8. ASSUME NEW a \in Asks, NEW t \in Tools, Call(a, t) PROVE HostTypeOK'
  <2>1. CASE route[t] = NoName \/ plugins[route[t]] = NoProc
    <3>1. /\ ask' = [ask EXCEPT ![a] = "over"]
          /\ UNCHANGED <<child, start, shut, info, stdin, stdout, pending, owed, silent,
                         plugins, route, loading, hubProcess>>
      BY <1>8, <2>1 DEF Call
    <3> QED BY <3>1 DEF HostTypeOK
  <2>2. CASE ~(route[t] = NoName \/ plugins[route[t]] = NoProc)
    <3>1. plugins[route[t]] \in Procs /\ Send(a, plugins[route[t]], "tools/call")
      BY <1>8, <2>2 DEF Call, HostTypeOK
    <3> QED BY <1>7, <3>1 DEF Methods
  <2> QED BY <2>1, <2>2
<1>9. ASSUME NEW a \in Asks, NEW p \in Procs, Hook(a, p) PROVE HostTypeOK'
  BY <1>7, <1>9 DEF Hook, Methods
<1>10. ASSUME NEW a \in Asks, RequestTimesOut(a) PROVE HostTypeOK'
  <2>1. PICK p \in Procs : ask[a] = p
    BY <1>10 DEF RequestTimesOut
  <2>2. \A b \in Asks : ask'[b] \in Procs => b # a /\ ask'[b] = ask[b] /\ b \in pending'[ask'[b]]
    BY <1>10, <2>1 DEF RequestTimesOut, HostTypeOK
  <2>3. pending' \in [Procs -> SUBSET (Asks \cup {"initialize"})] /\ ask' \in [Asks -> AskStates]
    BY <1>10, <2>1 DEF RequestTimesOut, HostTypeOK
  <2> QED BY <1>10, <2>2, <2>3 DEF RequestTimesOut, HostTypeOK
<1>11. ASSUME NEW p \in Procs, Beat(p) PROVE HostTypeOK'
  <2>a. owed[p] \in 0 .. MaxOwed /\ silent[p] \in 0 .. 2
    BY DEF HostTypeOK
  <2>b. /\ (IF owed[p] = MaxOwed THEN owed[p] ELSE owed[p] + 1) \in 0 .. MaxOwed
        /\ (IF silent[p] = 2 THEN 2 ELSE silent[p] + 1) \in 0 .. 2
    BY <2>a
  <2>c. child' \in [Procs -> Running \cup {"none", "killed", "dead"}]
    BY <1>11 DEF Beat, HostTypeOK
  <2>d. owed' \in [Procs -> 0 .. MaxOwed]
    BY <1>11, <2>b DEF Beat, HostTypeOK
  <2>e. silent' \in [Procs -> 0 .. 2]
    BY <1>11, <2>b DEF Beat, HostTypeOK
  <2>2. UNCHANGED <<start, shut, info, stdin, stdout, pending, plugins, route, ask, loading, hubProcess>>
    BY <1>11 DEF Beat
  <2> QED BY <2>2, <2>c, <2>d, <2>e DEF HostTypeOK
<1>12. ASSUME NEW p \in Procs, Pong(p) PROVE HostTypeOK'
  <2>1. owed[p] - 1 \in 0 .. MaxOwed
    BY <1>12 DEF Pong, HostTypeOK
  <2>2. owed' \in [Procs -> 0 .. MaxOwed] /\ silent' \in [Procs -> 0 .. 2]
    BY <1>12, <2>1 DEF Pong, HostTypeOK
  <2>3. UNCHANGED <<child, start, shut, info, stdin, stdout, pending, plugins, route, ask, loading,
                    hubProcess>>
    BY <1>12 DEF Pong
  <2> QED BY <2>2, <2>3 DEF HostTypeOK
<1>13. ASSUME NEW p \in Procs, Exit(p) PROVE HostTypeOK'
  <2>1. /\ plugins' \in [Names -> Procs \cup {NoProc}]
        /\ route' \in [Tools -> Names \cup {NoName}]
    <3>1. CASE info[p] = NoManifest
      BY <1>13, <3>1 DEF Exit, HostTypeOK
    <3>2. CASE info[p] # NoManifest
      <4>1. info[p].name \in Names /\ Unregister(info[p].name)
        BY <1>13, <3>2 DEF Exit, HostTypeOK, Manifests
      <4> QED BY <4>1 DEF Unregister, HostTypeOK
    <3> QED BY <3>1, <3>2
  <2>2. /\ start' \in [Procs -> {"none", "initializing", "registered", "failing", "failed"}]
        /\ shut' \in [Procs -> {"no", "waiting", "done"}]
    BY <1>13 DEF Exit, GiveUp, HostTypeOK
  <2>3. /\ pending' \in [Procs -> SUBSET (Asks \cup {"initialize"})]
        /\ ask' \in [Asks -> AskStates]
        /\ \A a \in Asks : ask'[a] \in Procs => a \in pending'[ask'[a]]
    BY <1>13, RejectTyped DEF Exit
  <2>4. loading' \in Procs \cup {"next", "over"}
    BY <1>13 DEF Exit, Returned, HostTypeOK
  <2>5. /\ stdin' \in [Procs -> Seq(Lines)] /\ stdout' \in [Procs -> Seq(Replies)]
        /\ child' \in [Procs -> Running \cup {"none", "killed", "dead"}]
        /\ owed' \in [Procs -> 0 .. MaxOwed] /\ silent' \in [Procs -> 0 .. 2]
        /\ UNCHANGED <<info, hubProcess>>
    BY <1>13 DEF Exit, HostTypeOK
  <2> QED BY <2>1, <2>2, <2>3, <2>4, <2>5 DEF HostTypeOK
<1>14. ASSUME NEW p \in Procs, ShutdownTimesOut(p) PROVE HostTypeOK'
  <2>1. /\ pending' \in [Procs -> SUBSET (Asks \cup {"initialize"})]
        /\ ask' \in [Asks -> AskStates]
        /\ \A a \in Asks : ask'[a] \in Procs => a \in pending'[ask'[a]]
    BY <1>14, RejectTyped DEF ShutdownTimesOut
  <2> QED BY <1>14, <2>1 DEF ShutdownTimesOut, Returned, HostTypeOK
<1>15. CASE Stop
  <2>1. Line("shutdown", "none") \in Lines
    BY DEF Line, Lines, Methods, Ids
  <2>2. stdin' \in [Procs -> Seq(Lines)]
    BY <1>15, <2>1 DEF Stop, HostTypeOK
  <2> QED BY <1>15, <2>2 DEF Stop, HostTypeOK
<1>16. CASE Down
  BY <1>16 DEF Down, HostTypeOK
<1>17. CASE UNCHANGED hostVars
  BY <1>17 DEF hostVars, HostTypeOK
<1>18. ASSUME NEW p \in Procs, LoadNext(p) \/ Install(p) PROVE HostTypeOK'
  BY <1>1, <1>18 DEF LoadNext, Install, HostTypeOK
<1>19. ASSUME NEW p \in Procs, Ended(p) PROVE HostTypeOK'
  BY <1>13, <1>19 DEF Ended
<1> QED BY <1>2, <1>3, <1>4, <1>5, <1>6, <1>8, <1>9, <1>10, <1>11, <1>12, <1>13, <1>14, <1>15,
           <1>16, <1>17, <1>18, <1>19 DEF HostNext, Due
-----------------------------------------------------------------------------

LEMMA HostInvInit == HostInit => HostIInv
BY HostTypeInit
DEF HostInit, HostIInv, Held, Unborn, Nameless, Unread, RoutesLeadToTheLiving

\* A step that starts, registers and ends nothing.
LEMMA NothingEnds ==
    ASSUME HostIInv, HostTypeOK', UNCHANGED <<info, plugins, route>>,
           \A p \in Procs :
               /\ child'[p] \in {"none", "dead"} <=> child[p] \in {"none", "dead"}
               /\ child'[p] = "none" <=> child[p] = "none"
               /\ child[p] = "none" => pending'[p] = {} /\ start'[p] = "none"
               /\ "initialize" \in pending'[p] => "initialize" \in pending[p]
               /\ child[p] \in {"none", "dead"} => stdout'[p] = <<>>
    PROVE  HostIInv'
<1>1. Held' /\ Unborn' /\ Nameless' /\ Unread'
  BY DEF HostIInv, Held, Unborn, Nameless, Unread
<1>2. RoutesLeadToTheLiving'
  <2> SUFFICES ASSUME NEW t \in Tools, route[t] # NoName
               PROVE  plugins[route[t]] # NoProc /\ child'[plugins[route[t]]] # "dead"
    BY DEF RoutesLeadToTheLiving
  <2>1. /\ plugins[route[t]] # NoProc /\ plugins[route[t]] \in Procs
        /\ child[plugins[route[t]]] # "dead"
    BY DEF HostIInv, HostTypeOK, RoutesLeadToTheLiving
  <2> QED BY <2>1
<1> QED BY <1>1, <1>2 DEF HostIInv

\* A new object is known by no name yet, and its child is another one.
LEMMA SpawnStep ==
    ASSUME HostIInv, HostTypeOK', NEW p \in Procs, Spawn(p)
    PROVE  HostIInv'
<1>1. /\ child[p] = "none" /\ info[p] = NoManifest /\ UNCHANGED <<info, plugins, route, stdout>>
      /\ child' = [child EXCEPT ![p] = "up"]
      /\ pending' = [pending EXCEPT ![p] = {"initialize"}]
      /\ start' = [start EXCEPT ![p] = "initializing"]
  BY DEF Spawn, HostIInv, Unborn
<1>2. /\ child'[p] = "up" /\ pending'[p] = {"initialize"}
      /\ \A q \in Procs \ {p} : child'[q] = child[q] /\ pending'[q] = pending[q] /\ start'[q] = start[q]
  BY <1>1 DEF HostIInv, HostTypeOK
<1>3. Held' /\ Unborn' /\ Nameless'
  BY <1>1, <1>2 DEF HostIInv, Held, Unborn, Nameless
<1>4. Unread'
  BY <1>1, <1>2 DEF HostIInv, Unread
<1>5. RoutesLeadToTheLiving'
  <2> SUFFICES ASSUME NEW t \in Tools, route[t] # NoName
               PROVE  plugins[route[t]] # NoProc /\ child'[plugins[route[t]]] # "dead"
    BY <1>1 DEF RoutesLeadToTheLiving
  <2>1. /\ plugins[route[t]] # NoProc /\ plugins[route[t]] \in Procs
        /\ child[plugins[route[t]]] # "dead"
    BY DEF HostIInv, HostTypeOK, RoutesLeadToTheLiving
  <2> QED BY <1>2, <2>1
<1> QED BY <1>3, <1>4, <1>5 DEF HostIInv

\* What is registered has just answered: its child was not dead when it did, and
\* it had no other name.
LEMMA InitializedStep ==
    ASSUME HostIInv, HostTypeOK', NEW p \in Procs, NEW m, Initialized(p, m)
    PROVE  HostIInv'
<1>1. /\ m.manifest \in Manifests /\ m.manifest # NoManifest /\ m.manifest.name \in Names
      /\ "initialize" \in pending[p] /\ stdout[p] # <<>>
      /\ Register(p, m.manifest)
      /\ child' = child
      /\ info' = [info EXCEPT ![p] = m.manifest]
      /\ start' = [start EXCEPT ![p] = "registered"]
      /\ pending' = [pending EXCEPT ![p] = @ \ {"initialize"}]
      /\ stdout' = [stdout EXCEPT ![p] = Tail(@)]
  <2>1. m \in Replies
    BY AnswerTaken DEF Initialized, HostIInv
  <2>2. m.manifest \in Manifests
    BY <2>1 DEF Initialized, Replies
  <2> QED BY <2>2 DEF Initialized, Read, Manifests
<1>2. /\ info[p] = NoManifest /\ child[p] \notin {"none", "dead"}
      /\ \A n \in Names : plugins[n] # p
  BY <1>1 DEF HostIInv, Nameless, Unread, Held
<1> DEFINE name == m.manifest.name
<1>3. /\ plugins' = [plugins EXCEPT ![name] = p]
      /\ \A t \in Tools : route'[t] = name \/ route'[t] = route[t]
      /\ info'[p] = m.manifest /\ \A q \in Procs \ {p} : info'[q] = info[q]
  BY <1>1 DEF Register, HostIInv, HostTypeOK
<1> HIDE DEF name
<1>4. Held'
  <2> SUFFICES ASSUME NEW n \in Names, plugins'[n] # NoProc
               PROVE  info'[plugins'[n]] # NoManifest /\ info'[plugins'[n]].name = n
    BY DEF Held
  <2>1. CASE n = name
    <3>1. plugins'[n] = p
      BY <1>3, <2>1 DEF HostIInv, HostTypeOK
    <3> QED BY <1>1, <1>3, <2>1, <3>1 DEF name
  <2>2. CASE n # name
    <3>1. plugins'[n] = plugins[n] /\ plugins[n] \in Procs /\ plugins[n] # p
      BY <1>2, <1>3, <2>2 DEF HostIInv, HostTypeOK
    <3> QED BY <1>3, <3>1 DEF HostIInv, Held
  <2> QED BY <2>1, <2>2
<1>5. Unborn' /\ Nameless' /\ Unread'
  BY <1>1, <1>2, <1>3 DEF HostIInv, HostTypeOK, Unborn, Nameless, Unread
<1>6. RoutesLeadToTheLiving'
  <2> SUFFICES ASSUME NEW t \in Tools, route'[t] # NoName
               PROVE  plugins'[route'[t]] # NoProc /\ child[plugins'[route'[t]]] # "dead"
    BY <1>1 DEF RoutesLeadToTheLiving
  <2>1. CASE route'[t] = name
    <3>1. plugins'[route'[t]] = p
      BY <1>1, <1>3, <2>1 DEF HostIInv, HostTypeOK, name
    <3> QED BY <1>2, <3>1
  <2>2. CASE route'[t] # name
    <3>1. route'[t] = route[t] /\ plugins'[route[t]] = plugins[route[t]]
      BY <1>3, <2>2 DEF HostIInv, HostTypeOK
    <3> QED BY <3>1 DEF HostIInv, RoutesLeadToTheLiving
  <2> QED BY <2>1, <2>2
<1> QED BY <1>4, <1>5, <1>6 DEF HostIInv

\* A process that ends is held under its own name at most, and that name goes,
\* with its routes, whoever holds it by now.
LEMMA ExitStep ==
    ASSUME HostIInv, HostTypeOK', NEW p \in Procs, Exit(p)
    PROVE  HostIInv'
<1>1. /\ child[p] \notin {"none", "dead"} /\ info' = info
      /\ child' = [child EXCEPT ![p] = "dead"]
      /\ stdout' = [stdout EXCEPT ![p] = <<>>]
      /\ pending' = [pending EXCEPT ![p] = {}]
      /\ \A q \in Procs \ {p} : start'[q] = start[q]
  BY DEF Exit, Reject, GiveUp, HostIInv, HostTypeOK
<1>2. \A n \in Names : plugins'[n] \in {plugins[n], NoProc} /\ plugins'[n] # p
  <2> SUFFICES ASSUME NEW n \in Names PROVE plugins'[n] \in {plugins[n], NoProc} /\ plugins'[n] # p
    OBVIOUS
  <2>1. CASE info[p] = NoManifest
    BY <2>1 DEF Exit, HostIInv, Held
  <2>2. CASE info[p] # NoManifest
    <3>1. Unregister(info[p].name)
      BY <2>2 DEF Exit
    <3>2. plugins[n] = p => n = info[p].name
      BY DEF HostIInv, Held
    <3>3. /\ n = info[p].name => plugins'[n] = NoProc
          /\ n # info[p].name => plugins'[n] = plugins[n]
      BY <3>1 DEF Unregister, HostIInv, HostTypeOK
    <3> QED BY <3>2, <3>3
  <2> QED BY <2>1, <2>2
<1>3. Held'
  BY <1>1, <1>2 DEF HostIInv, Held
<1>4. Unborn' /\ Nameless' /\ Unread'
  BY <1>1 DEF HostIInv, HostTypeOK, Unborn, Nameless, Unread
<1>5. \A t \in Tools : route'[t] # NoName => route'[t] = route[t] /\ plugins'[route[t]] = plugins[route[t]]
  <2> SUFFICES ASSUME NEW t \in Tools, route'[t] # NoName
               PROVE  route'[t] = route[t] /\ plugins'[route[t]] = plugins[route[t]]
    OBVIOUS
  <2>1. CASE info[p] = NoManifest
    BY <2>1 DEF Exit
  <2>2. CASE info[p] # NoManifest
    <3>1. Unregister(info[p].name)
      BY <2>2 DEF Exit
    <3>2. CASE plugins[info[p].name] = NoProc
      <4>1. route' = route /\ plugins' = [plugins EXCEPT ![info[p].name] = NoProc]
        BY <3>1, <3>2 DEF Unregister
      <4>2. route[t] # info[p].name
        BY <3>2, <4>1 DEF HostIInv, RoutesLeadToTheLiving
      <4> QED BY <4>1, <4>2 DEF HostIInv, HostTypeOK
    <3>3. CASE plugins[info[p].name] # NoProc
      <4>1. /\ route' = [u \in Tools |-> IF route[u] = info[p].name THEN NoName ELSE route[u]]
            /\ plugins' = [plugins EXCEPT ![info[p].name] = NoProc]
        BY <3>1, <3>3 DEF Unregister
      <4>2. route'[t] = route[t] /\ route[t] # info[p].name
        BY <4>1
      <4> QED BY <4>1, <4>2 DEF HostIInv, HostTypeOK
    <3> QED BY <3>2, <3>3
  <2> QED BY <2>1, <2>2
<1>6. RoutesLeadToTheLiving'
  <2> SUFFICES ASSUME NEW t \in Tools, route'[t] # NoName
               PROVE  plugins'[route'[t]] # NoProc /\ child'[plugins'[route'[t]]] # "dead"
    BY DEF RoutesLeadToTheLiving
  <2>1. /\ route'[t] = route[t] /\ plugins'[route[t]] = plugins[route[t]] /\ route[t] \in Names
        /\ plugins[route[t]] # NoProc /\ child[plugins[route[t]]] # "dead"
        /\ plugins[route[t]] \in Procs
    BY <1>5 DEF HostIInv, HostTypeOK, RoutesLeadToTheLiving
  <2>2. plugins[route[t]] # p
    BY <1>2, <2>1
  <2> QED BY <1>1, <2>1, <2>2 DEF HostIInv, HostTypeOK
<1> QED BY <1>3, <1>4, <1>6 DEF HostIInv

LEMMA HostInvStep == HostIInv /\ [HostNext]_hostVars => HostIInv'
<1> SUFFICES ASSUME HostIInv, [HostNext]_hostVars PROVE HostIInv'
  OBVIOUS
<1>a. HostTypeOK /\ HostTypeOK' /\ Unborn
  BY HostTypeStep DEF HostIInv
<1>u. \A p \in Procs : child[p] = "none" => pending[p] = {} /\ start[p] = "none"
  BY <1>a DEF Unborn
<1>r. \A p \in Procs : child[p] \in {"none", "dead"} => stdout[p] = <<>>
  BY DEF HostIInv, Unread
<1>1. ASSUME NEW p \in Procs, LoadNext(p) \/ Install(p) PROVE HostIInv'
  BY <1>a, <1>1, SpawnStep DEF LoadNext, Install
<1>2. CASE LoadedAll
  BY <1>2, <1>a, <1>u, <1>r, NothingEnds DEF LoadedAll
<1>3. ASSUME NEW p \in Procs, InitializeTimesOut(p) PROVE HostIInv'
  <2>1. /\ UNCHANGED <<child, stdout, info, plugins, route>> /\ child[p] # "none"
        /\ \A q \in Procs : pending'[q] \subseteq pending[q]
        /\ \A q \in Procs \ {p} : start'[q] = start[q]
    BY <1>3, <1>a, <1>u DEF InitializeTimesOut, GiveUp, HostTypeOK
  <2> QED BY <1>a, <1>u, <1>r, <2>1, NothingEnds
<1>4. ASSUME NEW p \in Procs, ServeInitialize(p) \/ ServeToolCall(p) \/ ServeLifecycle(p)
      PROVE  HostIInv'
  <2>1. /\ UNCHANGED <<child, pending, start, info, plugins, route>> /\ child[p] \in Running
        /\ \A q \in Procs \ {p} : stdout'[q] = stdout[q]
    BY <1>4, <1>a DEF ServeInitialize, ServeToolCall, ServeLifecycle, Served, Answer, HostTypeOK
  <2> QED BY <1>a, <1>u, <1>r, <2>1, NothingEnds DEF Running
<1>5. ASSUME NEW p \in Procs, ServeShutdown(p) PROVE HostIInv'
  <2>1. /\ UNCHANGED <<pending, start, info, plugins, route, stdout>> /\ child[p] \in Running
        /\ child'[p] = "leaving" /\ \A q \in Procs \ {p} : child'[q] = child[q]
    BY <1>5, <1>a DEF ServeShutdown, Served, HostTypeOK
  <2> QED BY <1>a, <1>u, <1>r, <2>1, NothingEnds DEF Running
<1>6. ASSUME NEW p \in Procs, HandleLine(p) PROVE HostIInv'
  <2> PICK m \in Range(stdout[p]) :
        Initialized(p, m) \/ InitializeFails(p, m) \/ Answered(p, m) \/ Unexpected(p, m)
    BY <1>6 DEF HandleLine
  <2>1. CASE Initialized(p, m)
    BY <1>a, <2>1, InitializedStep
  <2>2. CASE InitializeFails(p, m) \/ Answered(p, m) \/ Unexpected(p, m)
    <3>1. Read(p) /\ UNCHANGED <<info, plugins, route>>
      BY <2>2 DEF InitializeFails, Answered, Unexpected
    <3>2. child[p] \notin {"none", "dead"} /\ UNCHANGED child
          /\ \A q \in Procs \ {p} : stdout'[q] = stdout[q]
      BY <1>a, <1>r, <3>1 DEF Read, HostTypeOK
    <3>3. \A q \in Procs : pending'[q] \subseteq pending[q]
      <4>1. CASE Unexpected(p, m)
        BY <4>1 DEF Unexpected
      <4>2. CASE InitializeFails(p, m) \/ Answered(p, m)
        <5>1. \E x : pending' = [pending EXCEPT ![p] = @ \ {x}]
          BY <4>2 DEF InitializeFails, Answered
        <5> QED BY <1>a, <5>1 DEF HostTypeOK
      <4> QED BY <2>2, <4>1, <4>2
    <3>4. \A q \in Procs \ {p} : start'[q] = start[q]
      BY <1>a, <2>2 DEF InitializeFails, GiveUp, Answered, Unexpected, HostTypeOK
    <3> QED BY <1>a, <1>u, <1>r, <3>1, <3>2, <3>3, <3>4, NothingEnds
  <2> QED BY <2>1, <2>2
<1>7. ASSUME NEW a \in Asks, NEW p \in Procs, NEW method, Send(a, p, method), child[p] # "none"
      PROVE  HostIInv'
  <2>1. /\ UNCHANGED <<child, start, info, plugins, route, stdout>>
        /\ pending'[p] = pending[p] \cup {a} /\ a # "initialize"
        /\ \A q \in Procs \ {p} : pending'[q] = pending[q]
    BY <1>7, <1>a DEF Send, HostTypeOK
  <2> QED BY <1>7, <1>a, <1>u, <1>r, <2>1, NothingEnds
<1>8. ASSUME NEW a \in Asks, NEW t \in Tools, Call(a, t) PROVE HostIInv'
  <2>1. CASE route[t] = NoName \/ plugins[route[t]] = NoProc
    <3>1. UNCHANGED <<child, start, info, plugins, route, stdout, pending>>
      BY <1>8, <2>1 DEF Call
    <3> QED BY <1>a, <1>u, <1>r, <3>1, NothingEnds
  <2>2. CASE ~(route[t] = NoName \/ plugins[route[t]] = NoProc)
    <3>1. /\ plugins[route[t]] \in Procs /\ info[plugins[route[t]]] # NoManifest
          /\ Send(a, plugins[route[t]], "tools/call")
      BY <1>8, <1>a, <2>2 DEF Call, HostTypeOK, HostIInv, Held
    <3>2. child[plugins[route[t]]] # "none"
      BY <1>a, <3>1 DEF Unborn
    <3> QED BY <1>7, <3>1, <3>2
  <2> QED BY <2>1, <2>2
<1>9. ASSUME NEW a \in Asks, NEW p \in Procs, Hook(a, p) PROVE HostIInv'
  <2>1. child[p] # "none"
    BY <1>9, <1>u DEF Hook
  <2> QED BY <1>7, <1>9, <2>1 DEF Hook
<1>10. ASSUME NEW a \in Asks, RequestTimesOut(a) PROVE HostIInv'
  <2>1. /\ UNCHANGED <<child, start, info, plugins, route, stdout>>
        /\ \A q \in Procs : pending'[q] \subseteq pending[q]
    BY <1>10, <1>a DEF RequestTimesOut, HostTypeOK
  <2> QED BY <1>a, <1>u, <1>r, <2>1, NothingEnds
<1>11. ASSUME NEW p \in Procs, Beat(p) PROVE HostIInv'
  <2>1. /\ UNCHANGED <<start, pending, info, plugins, route, stdout>>
        /\ child[p] \notin {"none", "dead"} /\ child'[p] \in {child[p], "killed"}
        /\ \A q \in Procs \ {p} : child'[q] = child[q]
    BY <1>11, <1>a DEF Beat, Beating, HostTypeOK
  <2> QED BY <1>a, <1>u, <1>r, <2>1, NothingEnds
<1>12. ASSUME NEW p \in Procs, Pong(p) PROVE HostIInv'
  <2>1. UNCHANGED <<child, start, pending, info, plugins, route, stdout>>
    BY <1>12 DEF Pong
  <2> QED BY <1>a, <1>u, <1>r, <2>1, NothingEnds
<1>13. ASSUME NEW p \in Procs, Exit(p) PROVE HostIInv'
  BY <1>a, <1>13, ExitStep
<1>14. ASSUME NEW p \in Procs, ShutdownTimesOut(p) PROVE HostIInv'
  <2>1. /\ UNCHANGED <<info, plugins, route, stdout>>
        /\ \A q \in Procs : pending'[q] \subseteq pending[q]
        /\ \A q \in Procs : start'[q] = start[q] \/ (start[q] = "failing" /\ start'[q] = "failed")
        /\ \A q \in Procs : child'[q] = child[q] \/ (child[q] \in Running /\ child'[q] = "killed")
    BY <1>14, <1>a DEF ShutdownTimesOut, Reject, HostTypeOK
  <2>2. \A q \in Procs : child'[q] \in {"none", "dead"} <=> child[q] \in {"none", "dead"}
    BY <2>1 DEF Running
  <2>3. \A q \in Procs : child'[q] = "none" <=> child[q] = "none"
    BY <2>1 DEF Running
  <2>4. \A q \in Procs : child[q] = "none" => pending'[q] = {} /\ start'[q] = "none"
    BY <1>u, <2>1
  <2> QED BY <1>a, <1>r, <2>1, <2>2, <2>3, <2>4, NothingEnds
<1>15. CASE Stop
  BY <1>15, <1>a, <1>u, <1>r, NothingEnds DEF Stop
<1>16. CASE Down
  <2>1. /\ UNCHANGED <<info, plugins, route>>
        /\ \A q \in Procs : /\ child'[q] = child[q] \/ (child[q] \in Running /\ child'[q] = "leaving")
                            /\ start[q] = "none" => start'[q] = "none"
                            /\ pending'[q] = {} /\ stdout'[q] = <<>>
    BY <1>16 DEF Down
  <2>2. \A q \in Procs : child'[q] \in {"none", "dead"} <=> child[q] \in {"none", "dead"}
    BY <2>1 DEF Running
  <2>3. \A q \in Procs : child'[q] = "none" <=> child[q] = "none"
    BY <2>1 DEF Running
  <2>4. \A q \in Procs : child[q] = "none" => pending'[q] = {} /\ start'[q] = "none"
    BY <1>u, <2>1
  <2>5. \A q \in Procs : stdout'[q] = <<>> /\ ~("initialize" \in pending'[q])
    BY <2>1
  <2> QED BY <1>a, <2>1, <2>2, <2>3, <2>4, <2>5, NothingEnds
<1>17. CASE UNCHANGED hostVars
  BY <1>17, <1>a, <1>u, <1>r, NothingEnds DEF hostVars
<1>18. ASSUME NEW p \in Procs, Ended(p) PROVE HostIInv'
  BY <1>13, <1>18 DEF Ended
<1> QED BY <1>1, <1>2, <1>3, <1>4, <1>5, <1>6, <1>8, <1>9, <1>10, <1>11, <1>12, <1>13, <1>14, <1>15,
           <1>16, <1>17, <1>18 DEF HostNext, Due

-----------------------------------------------------------------------------

\* The registry and its objects know each other by one name.
THEOREM HostInductive == HostSpec => []HostIInv
BY HostInvInit, HostInvStep, PTL DEF HostSpec

\* Lines, answers, timers and callers are what they are taken for: above all, a
\* caller that waits has its entry in the map of the object it waits on.
THEOREM HostTypes == HostSpec => []HostTypeOK
<1>1. HostIInv => HostTypeOK
  BY DEF HostIInv
<1> QED BY <1>1, HostInductive, PTL

\* A tool is never routed to a name nobody holds, nor to an object whose child is
\* known to have ended (PluginRegistry.register and unregister, which go by name
\* while objects come and go).
THEOREM RoutesTheorem == HostSpec => []RoutesLeadToTheLiving
<1>1. HostIInv => RoutesLeadToTheLiving
  BY DEF HostIInv
<1> QED BY <1>1, HostInductive, PTL
===============================================================================
