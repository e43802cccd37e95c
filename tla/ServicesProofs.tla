---------------------------- MODULE ServicesProofs ----------------------------
(***************************************************************************)
(* Proofs about RateLimits, Installer, Relay and Provision, for any        *)
(* numbers of connections, messages, installs, parts and calls.  The four  *)
(* share nothing; each has a part of its own below.  The last part takes   *)
(* them together with the components of StorageProofs, as MCRecords does.  *)
(***************************************************************************)
EXTENDS MCRecords, StorageProofs, FiniteSetTheorems, SequenceTheorems, TLAPS

-----------------------------------------------------------------------------
(***************************************************************************)
(* Installs of plugins, for any archives and any number of installs that   *)
(* overlap.  InstalledIsWhole is not inductive: it says nothing of a copy   *)
(* under way.  CopyInv follows it file by file, and OneCopy is what the     *)
(* synchronous copy gives: nobody else writes meanwhile.                    *)
(***************************************************************************)

OneCopy ==
    \A i, j \in Installs : install[i] = "copying" /\ install[j] = "copying" => i = j

CopyInv ==
    \A i \in Installs : install[i] = "copying" =>
        /\ holder[Plugin[i]] = i
        /\ \A f \in Contents[i] \ left[i] : live[Plugin[i]][f] = i

InstallerIInv == InstallerTypeOK /\ OneCopy /\ CopyInv /\ InstalledIsWhole

LEMMA InstallerInvInit == InstallerInit => InstallerIInv
BY DEF InstallerInit, InstallerIInv, InstallerTypeOK, InstallStages, OneCopy, CopyInv,
   InstalledIsWhole, TempDirs

\* An archive's files are files, its plugin has a directory.
LEMMA Archive ==
    ASSUME NEW i \in Installs
    PROVE  Contents[i] \subseteq Files /\ Plugin[i] \in LivePlugins
BY ArchivesAssumption DEF LivePlugins

\* A stage changes for one install only, and by itself moves no file.
LEMMA StageStep ==
    ASSUME InstallerIInv, NEW i \in Installs, NEW from \in InstallStages \ {"installed"},
           NEW to \in {"downloading", "extracting", "failed"}, Stage(i, from, to),
           left' \in [Installs -> SUBSET Files], temp' \subseteq TempDirs,
           \A j \in Installs \ {i} : left'[j] = left[j], UNCHANGED <<live, holder>>
    PROVE  InstallerIInv'
<1>1. install' \in [Installs -> InstallStages] /\ install'[i] = to
      /\ \A j \in Installs \ {i} : install'[j] = install[j]
  BY DEF Stage, InstallerIInv, InstallerTypeOK, InstallStages
<1>2. InstallerTypeOK'
  BY <1>1 DEF InstallerIInv, InstallerTypeOK
<1>3. OneCopy' /\ CopyInv' /\ InstalledIsWhole'
  BY <1>1 DEF InstallerIInv, OneCopy, CopyInv, InstalledIsWhole
<1> QED BY <1>2, <1>3 DEF InstallerIInv

\* A rename puts the whole archive where nothing was, while no copy is under way.
LEMMA RenameStep == ASSUME InstallerIInv, NEW i \in Installs, Renames(i) PROVE InstallerIInv'
<1> DEFINE n == Plugin[i]
<1>1. n \in LivePlugins /\ Contents[i] \subseteq Files
  BY Archive
<1>2. /\ live' \in [LivePlugins -> [Files -> Installs \cup {Absent}]]
      /\ \A f \in Contents[i] : live'[n][f] = i
      /\ \A m \in LivePlugins \ {n} : live'[m] = live[m]
      /\ holder' \in [LivePlugins -> Installs \cup {Absent}] /\ holder'[n] = i
      /\ \A m \in LivePlugins \ {n} : holder'[m] = holder[m]
  BY <1>1 DEF Renames, InstallerIInv, InstallerTypeOK
<1>3. /\ install' \in [Installs -> InstallStages]
      /\ \A j \in Installs : install'[j] # "copying"
      /\ \A j \in Installs \ {i} : install'[j] = install[j]
  BY DEF Renames, Turn, Stage, Verdict, InstallerIInv, InstallerTypeOK, InstallStages
<1>4. InstallerTypeOK'
  BY <1>2, <1>3 DEF Renames, InstallerIInv, InstallerTypeOK, TempDirs
<1>5. ASSUME NEW j \in Installs, install'[j] = "installed", holder'[Plugin[j]] = j
      PROVE  \A f \in Contents[j] : live'[Plugin[j]][f] = j
  <2>1. CASE j = i
    BY <1>2, <2>1
  <2>2. CASE j # i
    <3>1. Plugin[j] \in LivePlugins \ {n}
      BY <1>2, <1>5, <2>2, Archive
    <3> QED BY <1>2, <1>3, <1>5, <2>2, <3>1 DEF InstallerIInv, InstalledIsWhole
  <2> QED BY <2>1, <2>2
<1> QED BY <1>3, <1>4, <1>5 DEF InstallerIInv, OneCopy, CopyInv, InstalledIsWhole

\* A copy begins while there is none, and takes the directory over.
LEMMA BeginCopyStep == ASSUME InstallerIInv, NEW i \in Installs, BeginCopy(i) PROVE InstallerIInv'
<1>1. Plugin[i] \in LivePlugins /\ Contents[i] \subseteq Files
  BY Archive
<1>2. /\ holder' \in [LivePlugins -> Installs \cup {Absent}] /\ holder'[Plugin[i]] = i
      /\ \A m \in LivePlugins \ {Plugin[i]} : holder'[m] = holder[m]
      /\ left' \in [Installs -> SUBSET Files] /\ left'[i] = Contents[i]
  BY <1>1 DEF BeginCopy, InstallerIInv, InstallerTypeOK
<1>3. /\ install' \in [Installs -> InstallStages] /\ install'[i] = "copying"
      /\ \A j \in Installs \ {i} : install'[j] = install[j] /\ install[j] # "copying"
  BY DEF BeginCopy, Turn, Stage, InstallerIInv, InstallerTypeOK, InstallStages
<1>4. InstallerTypeOK'
  BY <1>2, <1>3 DEF BeginCopy, InstallerIInv, InstallerTypeOK
<1>5. OneCopy' /\ CopyInv'
  BY <1>2, <1>3 DEF OneCopy, CopyInv
<1>6. ASSUME NEW j \in Installs, install'[j] = "installed", holder'[Plugin[j]] = j
      PROVE  \A f \in Contents[j] : live'[Plugin[j]][f] = j
  <2>1. j # i /\ Plugin[j] \in LivePlugins
    BY <1>3, <1>6, Archive
  <2>2. holder[Plugin[j]] = j
    BY <1>2, <1>6, <2>1
  <2> QED BY <1>3, <1>6, <2>1, <2>2 DEF BeginCopy, InstallerIInv, InstalledIsWhole
<1> QED BY <1>4, <1>5, <1>6 DEF InstallerIInv, InstalledIsWhole

\* One file more, in a directory that no finished install holds.
LEMMA CopyFileStep ==
    ASSUME InstallerIInv, NEW i \in Installs, NEW f \in Files, CopyFile(i, f)
    PROVE  InstallerIInv'
<1>1. Plugin[i] \in LivePlugins /\ holder[Plugin[i]] = i /\ install[i] = "copying"
  BY Archive DEF CopyFile, InstallerIInv, CopyInv
<1>2. /\ live' \in [LivePlugins -> [Files -> Installs \cup {Absent}]]
      /\ live'[Plugin[i]][f] = i
      /\ \A g \in Files \ {f} : live'[Plugin[i]][g] = live[Plugin[i]][g]
      /\ \A m \in LivePlugins \ {Plugin[i]} : live'[m] = live[m]
      /\ left' \in [Installs -> SUBSET Files] /\ left'[i] = left[i] \ {f}
  BY <1>1 DEF CopyFile, InstallerIInv, InstallerTypeOK
<1>3. InstallerTypeOK' /\ OneCopy'
  BY <1>2 DEF CopyFile, InstallerIInv, InstallerTypeOK, OneCopy
<1>4. ASSUME NEW j \in Installs, install'[j] = "copying"
      PROVE  /\ holder'[Plugin[j]] = j
             /\ \A g \in Contents[j] \ left'[j] : live'[Plugin[j]][g] = j
  <2>1. j = i
    BY <1>1, <1>4 DEF CopyFile, InstallerIInv, OneCopy
  <2> QED BY <1>1, <1>2, <2>1, Archive DEF CopyFile, InstallerIInv, CopyInv
<1>5. ASSUME NEW j \in Installs, install'[j] = "installed", holder'[Plugin[j]] = j
      PROVE  \A g \in Contents[j] : live'[Plugin[j]][g] = j
  <2>1. j # i /\ Plugin[j] \in LivePlugins \ {Plugin[i]}
    BY <1>1, <1>5, Archive DEF CopyFile
  <2> QED BY <1>2, <1>5, <2>1 DEF CopyFile, InstallerIInv, InstalledIsWhole
<1> QED BY <1>3, <1>4, <1>5 DEF InstallerIInv, CopyInv, InstalledIsWhole

\* A copy is through when every file of the archive has been written.
LEMMA CopiedStep == ASSUME InstallerIInv, NEW i \in Installs, Copied(i) PROVE InstallerIInv'
<1>1. \A f \in Contents[i] : live[Plugin[i]][f] = i
  BY DEF Copied, Stage, InstallerIInv, CopyInv
<1>2. /\ install' \in [Installs -> InstallStages]
      /\ \A j \in Installs : install'[j] # "copying"
      /\ \A j \in Installs \ {i} : install'[j] = install[j]
  BY DEF Copied, Stage, Verdict, InstallerIInv, InstallerTypeOK, InstallStages, OneCopy
<1>3. InstallerTypeOK'
  BY <1>2 DEF Copied, InstallerIInv, InstallerTypeOK, TempDirs
<1> QED BY <1>1, <1>2, <1>3 DEF Copied, InstallerIInv, OneCopy, CopyInv, InstalledIsWhole

LEMMA InstallerStep == InstallerIInv /\ [InstallerNext]_installVars => InstallerIInv'
<1> SUFFICES ASSUME InstallerIInv, [InstallerNext]_installVars PROVE InstallerIInv'
  OBVIOUS
<1>1. CASE Dies
  BY <1>1 DEF Dies, InstallerIInv, InstallerTypeOK, InstallStages, OneCopy, CopyInv, InstalledIsWhole
<1>2. ASSUME NEW i \in Installs, BeginDownload(i) \/ DownloadFails(i) \/ Downloaded(i) \/ ExtractFails(i)
      PROVE  InstallerIInv'
  <2>1. left' \in [Installs -> SUBSET Files] /\ temp' \subseteq TempDirs
    BY <1>2 DEF BeginDownload, DownloadFails, Downloaded, ExtractFails, InstallerIInv,
       InstallerTypeOK, TempDirs
  <2> QED BY <1>2, <2>1, StageStep DEF BeginDownload, DownloadFails, Downloaded, ExtractFails,
             InstallStages
<1>3. ASSUME NEW i \in Installs, CopyFails(i) PROVE InstallerIInv'
  <2>1. left' \in [Installs -> SUBSET Files] /\ temp' \subseteq TempDirs
        /\ \A j \in Installs \ {i} : left'[j] = left[j]
    BY <1>3 DEF CopyFails, InstallerIInv, InstallerTypeOK, TempDirs
  <2> QED BY <1>3, <2>1, StageStep DEF CopyFails, InstallStages
<1>4. ASSUME NEW i \in Installs, Renames(i) PROVE InstallerIInv'
  BY <1>4, RenameStep
<1>5. ASSUME NEW i \in Installs, BeginCopy(i) PROVE InstallerIInv'
  BY <1>5, BeginCopyStep
<1>6. ASSUME NEW i \in Installs, NEW f \in Files, CopyFile(i, f) PROVE InstallerIInv'
  BY <1>6, CopyFileStep
<1>7. ASSUME NEW i \in Installs, Copied(i) PROVE InstallerIInv'
  BY <1>7, CopiedStep
<1>8. CASE UNCHANGED installVars
  BY <1>8 DEF installVars, InstallerIInv, InstallerTypeOK, OneCopy, CopyInv, InstalledIsWhole
<1> QED BY <1>1, <1>2, <1>3, <1>4, <1>5, <1>6, <1>7, <1>8 DEF InstallerNext

\* A copy under way holds its plugin's directory and has written what it has passed.
THEOREM InstallerInductive == InstallerSpec => []InstallerIInv
BY InstallerInvInit, InstallerStep, PTL DEF InstallerSpec

\* An install that was answered as done has all its files in place until another
\* install of the plugin begins to write (installPluginFromUrl: rename or cpSync).
THEOREM WholeTheorem == InstallerSpec => []InstalledIsWhole
<1>1. InstallerIInv => InstalledIsWhole
  BY DEF InstallerIInv
<1> QED BY <1>1, InstallerInductive, PTL

-----------------------------------------------------------------------------
(***************************************************************************)
(* The relay, for any number of connections.  HeardOnce speaks of what has *)
(* arrived; RelayIInv follows a message from its sender over the session to *)
(* the connection it is forwarded on: what has left lies before what has not. *)
(***************************************************************************)

\* What is in a queue, as pure facts about sequences of numbers.
Rising(q) == \A i, j \in DOMAIN q : i < j => q[i] < q[j]
Before(q, r) == \A m \in Range(q), n \in Range(r) : m < n

LEMMA Added ==
    ASSUME NEW T \in SUBSET Nat, NEW q \in Seq(T), NEW m \in T
    PROVE  /\ Append(q, m) \in Seq(T)
           /\ Range(Append(q, m)) = Range(q) \cup {m}
           /\ Rising(q) /\ (\A n \in Range(q) : n < m) => Rising(Append(q, m))
<1> DEFINE r == Append(q, m)
<1>1. /\ DOMAIN q = 1 .. Len(q) /\ DOMAIN r = 1 .. Len(q) + 1 /\ Len(q) \in Nat
      /\ \A i \in 1 .. Len(q) : r[i] = q[i]
      /\ r[Len(q) + 1] = m
      /\ r \in Seq(T)
  OBVIOUS
<1> HIDE DEF r
<1>2. Range(r) = Range(q) \cup {m}
  <2>1. \A x \in Range(r) : x \in Range(q) \cup {m}
    BY <1>1 DEF Range
  <2>2. \A x \in Range(q) : x \in Range(r)
    BY <1>1 DEF Range
  <2>3. m \in Range(r)
    BY <1>1 DEF Range
  <2> QED BY <2>1, <2>2, <2>3
<1>3. ASSUME Rising(q), \A n \in Range(q) : n < m PROVE Rising(r)
  <2> SUFFICES ASSUME NEW i \in 1 .. Len(q) + 1, NEW j \in 1 .. Len(q) + 1, i < j
               PROVE  r[i] < r[j]
    BY <1>1 DEF Rising
  <2>a. i \in 1 .. Len(q)
    BY <1>1
  <2>1. i \in 1 .. Len(q) /\ r[i] = q[i] /\ q[i] \in Range(q)
    BY <1>1, <2>a DEF Range
  <2>2. CASE j \in 1 .. Len(q)
    BY <1>1, <1>3, <2>1, <2>2 DEF Rising
  <2>3. CASE j = Len(q) + 1
    BY <1>1, <1>3, <2>1, <2>3
  <2> QED BY <1>1, <2>2, <2>3
<1> QED BY <1>1, <1>2, <1>3 DEF r

LEMMA Taken ==
    ASSUME NEW T \in SUBSET Nat, NEW q \in Seq(T), q # <<>>
    PROVE  /\ Tail(q) \in Seq(T) /\ Head(q) \in Range(q) /\ Head(q) \in T
           /\ Range(Tail(q)) \subseteq Range(q)
           /\ Rising(q) => Rising(Tail(q)) /\ \A n \in Range(Tail(q)) : Head(q) < n
<1> DEFINE r == Tail(q)
<1>1. /\ Len(q) \in Nat /\ Len(q) > 0 /\ DOMAIN q = 1 .. Len(q) /\ DOMAIN r = 1 .. Len(q) - 1
      /\ \A i \in 1 .. Len(q) - 1 : r[i] = q[i + 1]
      /\ Head(q) = q[1] /\ q[1] \in T
      /\ r \in Seq(T)
  OBVIOUS
<1> HIDE DEF r
<1>a. \A i \in DOMAIN r : i \in Nat /\ i + 1 \in DOMAIN q /\ 1 < i + 1 /\ r[i] = q[i + 1]
  BY <1>1
<1>b. 1 \in DOMAIN q
  BY <1>1
<1>2. Range(r) \subseteq Range(q)
  BY <1>a DEF Range
<1>3. ASSUME Rising(q) PROVE Rising(r)
  <2> SUFFICES ASSUME NEW i \in DOMAIN r, NEW j \in DOMAIN r, i < j PROVE r[i] < r[j]
    BY DEF Rising
  <2>1. i + 1 < j + 1
    BY <1>a
  <2> QED BY <1>a, <1>3, <2>1 DEF Rising
<1>4. ASSUME Rising(q), NEW n \in Range(r) PROVE Head(q) < n
  <2>1. PICK i \in DOMAIN r : n = r[i]
    BY DEF Range
  <2> QED BY <1>1, <1>a, <1>b, <1>4, <2>1 DEF Rising
<1>5. Head(q) \in Range(q)
  BY <1>1 DEF Range
<1> QED BY <1>1, <1>2, <1>3, <1>4, <1>5 DEF r

LEMMA NothingQueued == Range(<<>>) = {} /\ Rising(<<>>)
BY DEF Range, Rising

Numbers == 1 .. MaxSent

OneHeld ==
    \A s, t \in Sockets :
        socket[s] = "held" /\ socket[t] = "held" /\ RoleOf(s) = RoleOf(t) => s = t

\* What a connection has brought or will bring to its client.
Got(s) == Range(heard[s]) \cup Range(down[s])

\* What is on its way to the session, on the one connection its sender has.
UpInv(s) ==
    /\ socket[s] # "held" => up[s] = <<>>
    /\ Rising(up[s])
    /\ \A m \in Range(up[s]) : m <= said[RoleOf(s)]

\* What has left the session lies before whatever is still on its way to it.
DownInv(t) ==
    /\ Rising(heard[t]) /\ Rising(down[t]) /\ Before(heard[t], down[t])
    /\ \A m \in Got(t) : m <= said[Peer(RoleOf(t))]
    /\ \A s \in Sockets : RoleOf(s) = Peer(RoleOf(t)) =>
         \A m \in Got(t), n \in Range(up[s]) : m < n

Apart == \A s, t \in Sockets : s # t /\ RoleOf(s) = RoleOf(t) => Got(s) \cap Got(t) = {}

RelayIInv ==
    /\ RelayTypeOK /\ OneHeld /\ Apart
    /\ \A s \in Sockets : UpInv(s) /\ DownInv(s)

\* Queues are lists of numbers, and the two roles are each other's peer.
LEMMA RelayShapes ==
    ASSUME RelayTypeOK
    PROVE  /\ Numbers \in SUBSET Nat
           /\ up \in [Sockets -> Seq(Numbers)] /\ down \in [Sockets -> Seq(Numbers)]
           /\ heard \in [Sockets -> Seq(Numbers)]
           /\ \A s \in Sockets : /\ Range(up[s]) \subseteq Nat /\ Got(s) \subseteq Nat
                                 /\ RoleOf(s) \in Roles /\ said[RoleOf(s)] \in Nat
                                 /\ said[Peer(RoleOf(s))] \in Nat
                                 /\ Peer(Peer(RoleOf(s))) = RoleOf(s)
                                 /\ Peer(RoleOf(s)) # RoleOf(s)
<1>1. /\ Numbers \in SUBSET Nat
      /\ up \in [Sockets -> Seq(Numbers)] /\ down \in [Sockets -> Seq(Numbers)]
      /\ heard \in [Sockets -> Seq(Numbers)]
  BY SentAssumption DEF RelayTypeOK, Numbers
<1>2. ASSUME NEW q \in Seq(Numbers) PROVE Range(q) \subseteq Nat
  <2>1. \A i \in DOMAIN q : q[i] \in Numbers
    OBVIOUS
  <2> QED BY <1>1, <2>1 DEF Range
<1>3. \A s \in Sockets : Range(up[s]) \subseteq Nat /\ Got(s) \subseteq Nat
  BY <1>1, <1>2 DEF Got
<1> QED BY <1>1, <1>3, SentAssumption DEF RelayTypeOK, RoleOf, Peer, Roles

LEMMA RelayInvInit == RelayInit => RelayIInv
<1> SUFFICES ASSUME RelayInit PROVE RelayIInv
  OBVIOUS
<1>1. RelayTypeOK
  BY SentAssumption DEF RelayInit, RelayTypeOK, SocketStates, Roles
<1>2. \A s \in Sockets : up[s] = <<>> /\ down[s] = <<>> /\ heard[s] = <<>> /\ socket[s] = "unused"
  BY DEF RelayInit
<1> QED BY <1>1, <1>2, NothingQueued
        DEF RelayIInv, OneHeld, Apart, UpInv, DownInv, Got, Before

\* The queues are as they were and no connection is newly held.
LEMMA QuietRelay ==
    ASSUME RelayIInv, RelayTypeOK', UNCHANGED <<up, down, heard, said>>,
           \A s \in Sockets : socket'[s] = "held" <=> socket[s] = "held"
    PROVE  RelayIInv'
BY DEF RelayIInv, OneHeld, Apart, UpInv, DownInv, Got

LEMMA UpgradeStep ==
    ASSUME RelayIInv, NEW s \in Sockets, Upgrade(s)
    PROVE  RelayIInv'
<1>1. RelayTypeOK'
  BY DEF RelayIInv, RelayTypeOK, Upgrade, SocketStates, appVariables
<1>2. /\ UNCHANGED <<up, down, heard, said>>
      /\ \A t \in Sockets \ {s} : socket'[t] = socket[t]
      /\ socket[s] # "held"
      /\ socket'[s] = "held" => Held(RoleOf(s)) = {}
  BY DEF Upgrade, RelayIInv, RelayTypeOK
<1>3. OneHeld'
  BY <1>2 DEF OneHeld, RelayIInv, Held
<1> QED BY <1>1, <1>2, <1>3 DEF RelayIInv, Apart, UpInv, DownInv, Got

LEMMA LosesStep ==
    ASSUME RelayIInv, NEW s \in Sockets, SessionLoses(s)
    PROVE  RelayIInv'
<1>1. RelayTypeOK'
  BY DEF RelayIInv, RelayTypeOK, SessionLoses, SocketStates, appVariables
<1>2. /\ UNCHANGED <<down, heard, said>>
      /\ up'[s] = <<>> /\ socket'[s] = "closed"
      /\ \A t \in Sockets \ {s} : socket'[t] = socket[t] /\ up'[t] = up[t]
  BY DEF SessionLoses, RelayIInv, RelayTypeOK
<1>3. \A t \in Sockets : Range(up'[t]) \subseteq Range(up[t])
  BY <1>2, NothingQueued
<1> QED BY <1>1, <1>2, <1>3, NothingQueued DEF RelayIInv, OneHeld, Apart, UpInv, DownInv, Got

LEMMA SendsStep ==
    ASSUME RelayIInv, NEW s \in Sockets, Sends(s)
    PROVE  RelayIInv'
<1> DEFINE r == RoleOf(s)
           n == said[r] + 1
<1>0. /\ Numbers \in SUBSET Nat /\ up[s] \in Seq(Numbers) /\ r \in Roles
      /\ said[r] \in Nat /\ said[r] < MaxSent /\ n \in Numbers
  BY RelayShapes, SentAssumption DEF RelayIInv, Sends, Numbers
<1>1. /\ UNCHANGED <<socket, down, heard>>
      /\ said'[r] = n /\ \A q \in Roles \ {r} : said'[q] = said[q]
      /\ up'[s] = Append(up[s], n)
      /\ \A t \in Sockets \ {s} : up'[t] = up[t]
  BY <1>0 DEF Sends, RelayIInv, RelayTypeOK
<1>2. RelayTypeOK'
  <2>1. Append(up[s], n) \in Seq(1 .. MaxSent)
    BY <1>0 DEF Numbers
  <2>2. up' \in [Sockets -> Seq(1 .. MaxSent)]
    BY <1>1, <2>1 DEF Sends, RelayIInv, RelayTypeOK
  <2>3. said' \in [Roles -> 0 .. MaxSent]
    BY <1>0 DEF Sends, RelayIInv, RelayTypeOK, Numbers
  <2> QED BY <2>2, <2>3 DEF Sends, RelayIInv, RelayTypeOK, appVariables
<1>3. \A q \in Roles : said[q] \in Nat /\ said'[q] \in Nat /\ said[q] <= said'[q]
  <2>1. \A q \in Roles : said[q] \in 0 .. MaxSent /\ said'[q] \in 0 .. MaxSent
    BY <1>2 DEF RelayIInv, RelayTypeOK
  <2>2. \A q \in Roles : said'[q] = said[q] \/ (q = r /\ said'[q] = said[q] + 1)
    BY <1>1
  <2> QED BY <2>1, <2>2, SentAssumption
<1>4. /\ Range(up'[s]) = Range(up[s]) \cup {n}
      /\ Rising(up'[s])
  <2>1. \A m \in Range(up[s]) : m < n
    BY <1>0, RelayShapes DEF RelayIInv, UpInv
  <2> QED BY <1>0, <1>1, <2>1, Added DEF RelayIInv, UpInv
<1>5. ASSUME NEW t \in Sockets PROVE UpInv(t)'
  <2>1. CASE t = s
    <3>1. \A m \in Range(up[s]) : m <= said[r] /\ m \in Nat
      BY RelayShapes DEF RelayIInv, UpInv
    <3>2. \A m \in Range(up'[s]) : m <= said'[r]
      BY <1>0, <1>1, <1>4, <3>1
    <3> QED BY <1>1, <1>4, <2>1, <3>2 DEF UpInv, Sends
  <2>2. CASE t # s
    <3>1. \A m \in Range(up[t]) : m <= said[RoleOf(t)] /\ m \in Nat
      BY RelayShapes DEF RelayIInv, UpInv
    <3>2. RoleOf(t) \in Roles
      BY RelayShapes DEF RelayIInv
    <3>3. \A m \in Range(up[t]) : m <= said'[RoleOf(t)]
      BY <1>3, <3>1, <3>2
    <3> QED BY <1>1, <2>2, <3>3 DEF RelayIInv, UpInv
  <2> QED BY <2>1, <2>2
<1>6. ASSUME NEW t \in Sockets PROVE DownInv(t)'
  <2>0. /\ Peer(RoleOf(t)) \in Roles
        /\ \A m \in Got(t) : m \in Nat /\ m <= said[Peer(RoleOf(t))]
    BY RelayShapes DEF RelayIInv, DownInv, Peer, Roles
  <2>1. \A m \in Got(t) : m <= said'[Peer(RoleOf(t))]
    BY <1>3, <2>0
  <2>2. ASSUME NEW u \in Sockets, RoleOf(u) = Peer(RoleOf(t)), NEW m \in Got(t),
               NEW k \in Range(up'[u])
        PROVE  m < k
    <3>1. CASE k \in Range(up[u])
      BY <2>2, <3>1 DEF RelayIInv, DownInv
    <3>2. CASE u = s /\ k = n
      <4>1. m \in Nat /\ m <= said[r]
        BY <2>0, <2>2, <3>2
      <4>2. said[r] \in Nat /\ k = said[r] + 1
        BY <1>0, <3>2
      <4> HIDE DEF n, r
      <4> QED BY <4>1, <4>2
    <3>3. CASE u # s
      <4>1. k \in Range(up[u])
        BY <1>1, <3>3
      <4> QED BY <3>1, <4>1
    <3>4. CASE u = s
      <4>1. k \in Range(up[u]) \cup {n}
        BY <1>4, <3>4
      <4> QED BY <3>1, <3>2, <3>4, <4>1
    <3> QED BY <3>3, <3>4
  <2>3. Got(t)' = Got(t)
    BY <1>1 DEF Got
  <2> QED BY <1>1, <2>1, <2>2, <2>3 DEF RelayIInv, DownInv
<1>7. OneHeld' /\ Apart'
  BY <1>1 DEF RelayIInv, OneHeld, Apart, Got
<1> QED BY <1>2, <1>5, <1>6, <1>7 DEF RelayIInv

LEMMA ReceivesStep ==
    ASSUME RelayIInv, NEW s \in Sockets, Receives(s)
    PROVE  RelayIInv'
<1> DEFINE m == Head(down[s])
<1>0. /\ Numbers \in SUBSET Nat /\ down[s] \in Seq(Numbers) /\ heard[s] \in Seq(Numbers)
      /\ down[s] # <<>>
  BY RelayShapes DEF RelayIInv, Receives
<1>1. /\ UNCHANGED <<socket, up, said>>
      /\ heard'[s] = Append(heard[s], m) /\ down'[s] = Tail(down[s])
      /\ \A t \in Sockets \ {s} : heard'[t] = heard[t] /\ down'[t] = down[t]
  BY DEF Receives, RelayIInv, RelayTypeOK
<1>a. /\ m \in Numbers /\ m \in Range(down[s]) /\ Tail(down[s]) \in Seq(Numbers)
      /\ Range(Tail(down[s])) \subseteq Range(down[s])
      /\ Rising(Tail(down[s])) /\ \A k \in Range(Tail(down[s])) : m < k
  BY <1>0, Taken DEF RelayIInv, DownInv
<1>b. /\ Append(heard[s], m) \in Seq(Numbers)
      /\ Range(Append(heard[s], m)) = Range(heard[s]) \cup {m}
      /\ Rising(Append(heard[s], m))
  <2>1. \A k \in Range(heard[s]) : k < m
    BY <1>a DEF RelayIInv, DownInv, Before
  <2> QED BY <1>0, <1>a, <2>1, Added DEF RelayIInv, DownInv
<1>2. RelayTypeOK'
  BY <1>a, <1>b DEF Receives, RelayIInv, RelayTypeOK, Numbers, appVariables
<1>3. \A t \in Sockets : Got(t)' \subseteq Got(t)
  BY <1>1, <1>a, <1>b DEF Got
<1>4. ASSUME NEW t \in Sockets PROVE DownInv(t)'
  <2>1. CASE t = s
    <3>1. Before(heard'[s], down'[s])
      BY <1>1, <1>a, <1>b DEF Before, RelayIInv, DownInv
    <3> QED BY <1>1, <1>a, <1>b, <1>3, <2>1, <3>1 DEF RelayIInv, DownInv
  <2>2. CASE t # s
    BY <1>1, <1>3, <2>2 DEF RelayIInv, DownInv
  <2> QED BY <2>1, <2>2
<1>5. OneHeld' /\ (\A t \in Sockets : UpInv(t)')
  BY <1>1 DEF RelayIInv, OneHeld, UpInv
<1>6. Apart'
  BY <1>3 DEF RelayIInv, Apart
<1> QED BY <1>2, <1>4, <1>5, <1>6 DEF RelayIInv

LEMMA ForwardStep ==
    ASSUME RelayIInv, NEW s \in Sockets, Forward(s)
    PROVE  RelayIInv'
<1> DEFINE m == Head(up[s])
           there == Held(Peer(RoleOf(s)))
<1>0. /\ Numbers \in SUBSET Nat /\ up[s] \in Seq(Numbers) /\ up[s] # <<>> /\ socket[s] = "held"
      /\ down \in [Sockets -> Seq(Numbers)]
  BY RelayShapes DEF RelayIInv, Forward
<1>1. /\ UNCHANGED <<socket, heard, said>>
      /\ up'[s] = Tail(up[s])
      /\ \A t \in Sockets \ {s} : up'[t] = up[t]
      /\ \A t \in there : down'[t] = Append(down[t], m)
      /\ \A t \in Sockets \ there : down'[t] = down[t]
      /\ there \subseteq Sockets
  BY DEF Forward, RelayIInv, RelayTypeOK, Held
<1>a. /\ m \in Numbers /\ m \in Range(up[s]) /\ Tail(up[s]) \in Seq(Numbers)
      /\ Range(Tail(up[s])) \subseteq Range(up[s])
      /\ Rising(Tail(up[s])) /\ \A k \in Range(Tail(up[s])) : m < k
  BY <1>0, Taken DEF RelayIInv, UpInv
\* Whoever listens on the other side has so far got less than m.
<1>b. ASSUME NEW t \in Sockets, RoleOf(t) = Peer(RoleOf(s))
      PROVE  /\ RoleOf(s) = Peer(RoleOf(t))
             /\ \A k \in Got(t) : k < m
  BY <1>a, <1>b, RelayShapes DEF RelayIInv, DownInv
<1>c. ASSUME NEW t \in there
      PROVE  /\ t \in Sockets /\ RoleOf(t) = Peer(RoleOf(s))
             /\ down'[t] \in Seq(Numbers)
             /\ Range(down'[t]) = Range(down[t]) \cup {m}
             /\ Rising(down'[t])
             /\ Got(t)' = Got(t) \cup {m}
  <2>1. t \in Sockets /\ RoleOf(t) = Peer(RoleOf(s))
    BY DEF Held
  <2>2. \A k \in Range(down[t]) : k < m
    BY <1>b, <2>1 DEF Got
  <2>3. /\ down'[t] \in Seq(Numbers)
        /\ Range(down'[t]) = Range(down[t]) \cup {m}
        /\ Rising(down'[t])
    <3>1. down'[t] = Append(down[t], m) /\ down[t] \in Seq(Numbers) /\ Rising(down[t])
      BY <1>0, <1>1, <2>1 DEF RelayIInv, DownInv
    <3> HIDE DEF m
    <3> QED BY <1>0, <1>a, <2>2, <3>1, Added
  <2> QED BY <1>1, <2>1, <2>3 DEF Got
<1>d. \A t \in Sockets \ there : Got(t)' = Got(t)
  BY <1>1 DEF Got
<1>e. \A t \in Sockets : Range(up'[t]) \subseteq Range(up[t])
  BY <1>1, <1>a
<1>2. RelayTypeOK'
  <2>1. up' \in [Sockets -> Seq(1 .. MaxSent)]
    BY <1>a DEF Forward, RelayIInv, RelayTypeOK, Numbers
  <2>2. \A t \in Sockets : down'[t] \in Seq(1 .. MaxSent)
    BY <1>0, <1>1, <1>c DEF Numbers
  <2>3. down' \in [Sockets -> Seq(1 .. MaxSent)]
    BY <2>2 DEF Forward
  <2> QED BY <2>1, <2>3 DEF Forward, RelayIInv, RelayTypeOK, appVariables
<1>3. ASSUME NEW t \in Sockets PROVE UpInv(t)'
  <2>1. CASE t = s
    BY <1>0, <1>1, <1>a, <2>1 DEF RelayIInv, UpInv
  <2>2. CASE t # s
    BY <1>1, <2>2 DEF RelayIInv, UpInv
  <2> QED BY <2>1, <2>2
<1>4. ASSUME NEW t \in Sockets PROVE DownInv(t)'
  <2>1. CASE t \in there
    <3>1. RoleOf(s) = Peer(RoleOf(t)) /\ \A k \in Got(t) : k < m
      BY <1>b, <1>c, <2>1
    <3>2. Before(heard'[t], down'[t])
      BY <1>1, <1>c, <2>1, <3>1 DEF RelayIInv, DownInv, Before, Got
    <3>3. \A k \in Got(t)' : k <= said'[Peer(RoleOf(t))]
      BY <1>1, <1>a, <1>c, <2>1, <3>1 DEF RelayIInv, DownInv, UpInv
    <3>4. ASSUME NEW u \in Sockets, RoleOf(u) = Peer(RoleOf(t)), NEW k \in Got(t)',
                 NEW n \in Range(up'[u])
          PROVE  k < n
      <4>1. CASE k \in Got(t)
        BY <1>e, <3>4, <4>1 DEF RelayIInv, DownInv
      <4>2. CASE k = m /\ u = s
        BY <1>1, <1>a, <3>4, <4>2
      <4>3. CASE u # s
        <5>1. up[u] = <<>>
          BY <1>0, <3>1, <3>4, <4>3 DEF RelayIInv, OneHeld, UpInv
        <5> QED BY <1>e, <3>4, <5>1, NothingQueued
      <4> QED BY <1>c, <2>1, <3>4, <4>1, <4>2, <4>3
    <3> QED BY <1>1, <1>c, <2>1, <3>2, <3>3, <3>4 DEF RelayIInv, DownInv
  <2>2. CASE t \notin there
    <3>1. Got(t)' = Got(t)
      BY <1>d, <2>2
    <3> QED BY <1>1, <1>e, <2>2, <3>1 DEF RelayIInv, DownInv
  <2> QED BY <2>1, <2>2
<1>5. ASSUME NEW t \in Sockets, NEW u \in Sockets, t # u, RoleOf(t) = RoleOf(u)
      PROVE  Got(t)' \cap Got(u)' = {}
  <2>0. Got(t) \cap Got(u) = {}
    BY <1>5 DEF RelayIInv, Apart
  <2>1. ASSUME t \in there, u \in there PROVE FALSE
    BY <1>5, <2>1 DEF RelayIInv, OneHeld, Held
  <2>2. ASSUME RoleOf(t) = Peer(RoleOf(s)) PROVE m \notin Got(t) /\ m \notin Got(u)
    <3>1. m \in Nat
      BY <1>0, <1>a
    <3>2. (\A k \in Got(t) : k < m) /\ (\A k \in Got(u) : k < m)
      BY <1>5, <1>b, <2>2
    <3>3. ~(m < m)
      BY <3>1
    <3> QED BY <3>2, <3>3
  <2>3. CASE t \in there /\ u \notin there
    BY <1>c, <1>d, <2>0, <2>2, <2>3
  <2>4. CASE t \notin there /\ u \in there
    BY <1>5, <1>c, <1>d, <2>0, <2>2, <2>4
  <2>5. CASE t \notin there /\ u \notin there
    BY <1>d, <2>0, <2>5
  <2> QED BY <2>1, <2>3, <2>4, <2>5
<1>6. OneHeld'
  BY <1>1 DEF RelayIInv, OneHeld
<1> QED BY <1>2, <1>3, <1>4, <1>5, <1>6 DEF RelayIInv, Apart

LEMMA RelayInvStep == RelayIInv /\ [RelayNext]_relayVars => RelayIInv'
<1> SUFFICES ASSUME RelayIInv, [RelayNext]_relayVars PROVE RelayIInv'
  OBVIOUS
<1>1. ASSUME NEW r \in Roles, StoreToken(r) PROVE RelayIInv'
  <2>1. RelayTypeOK'
    BY <1>1 DEF StoreToken, RelayIInv, RelayTypeOK, appVariables
  <2> QED BY <1>1, <2>1, QuietRelay DEF StoreToken
<1>2. ASSUME NEW s \in Sockets,
             Upgrade(s) \/ Forward(s) \/ SessionLoses(s) \/ Sends(s) \/ Receives(s)
      PROVE  RelayIInv'
  BY <1>2, UpgradeStep, ForwardStep, LosesStep, SendsStep, ReceivesStep
<1>3. ASSUME NEW s \in Sockets, LaptopDials(s) \/ AppDials(s) PROVE RelayIInv'
  <2>1. RelayTypeOK'
    BY <1>3 DEF LaptopDials, AppDials, Dialled, RelayIInv, RelayTypeOK, SocketStates, appVariables
  <2>2. \A t \in Sockets : socket'[t] = "held" <=> socket[t] = "held"
    BY <1>3 DEF LaptopDials, AppDials, Dialled, RelayIInv, RelayTypeOK
  <2> QED BY <1>3, <2>1, <2>2, QuietRelay DEF LaptopDials, AppDials, Dialled
<1>4. ASSUME NEW s \in Sockets, LaptopLeaves(s) \/ AppOpens(s) \/ AppLoses(s) PROVE RelayIInv'
  <2>1. RelayTypeOK'
    BY <1>4 DEF LaptopLeaves, AppOpens, AppLoses, RelayIInv, RelayTypeOK, appVariables
  <2> QED BY <1>4, <2>1, QuietRelay DEF LaptopLeaves, AppOpens, AppLoses
<1>5. CASE AppDisconnects
  <2>1. RelayTypeOK'
    BY <1>5 DEF AppDisconnects, RelayIInv, RelayTypeOK
  <2> QED BY <1>5, <2>1, QuietRelay DEF AppDisconnects
<1>6. CASE UNCHANGED relayVars
  <2>1. RelayTypeOK'
    BY <1>6 DEF relayVars, RelayIInv, RelayTypeOK
  <2> QED BY <1>6, <2>1, QuietRelay DEF relayVars
<1> QED BY <1>1, <1>2, <1>3, <1>4, <1>5, <1>6 DEF RelayNext, Sockets

\* What is under way stays in order and apart, whatever connections come and go.
THEOREM RelayInductive == RelaySpec => []RelayIInv
BY RelayInvInit, RelayInvStep, PTL DEF RelaySpec

\* No connection hears its peer out of order, and no two connections of one role
\* hear the same message (doHandleWebSocket, doForward).
THEOREM HeardTheorem == RelaySpec => []HeardOnce
<1>1. RelayIInv => HeardOnce
  BY DEF RelayIInv, DownInv, Rising, Apart, Got, HeardOnce
<1> QED BY <1>1, RelayInductive, PTL

-----------------------------------------------------------------------------
(***************************************************************************)
(* Upgrades of the VM, by script and by plan.  A run is followed by the step *)
(* it is at (ScriptAt, PlanAt), since what it has behind it is what the files *)
(* and the service are by then.                                            *)
(***************************************************************************)

From(steps, i) == SubSeq(steps, i, Len(steps))

\* A run that has reached step i has the later ones ahead of it.
LEMMA StepsAhead ==
    ASSUME NEW S, NEW steps \in Seq(S), NEW i \in 1 .. Len(steps)
    PROVE  /\ Head(From(steps, i)) = steps[i]
           /\ From(steps, i) \in Seq(S)
           /\ From(steps, i) # <<>>
           /\ Tail(From(steps, i)) = From(steps, i + 1)
           /\ From(steps, i + 1) = <<>> <=> i = Len(steps)
<1> DEFINE n == Len(steps)
<1>1. /\ n \in Nat /\ i \in 1 .. n /\ n \in i .. n
      /\ Len(From(steps, i)) = n - i + 1 /\ Len(From(steps, i + 1)) = n - i
      /\ From(steps, i) \in Seq(S) /\ From(steps, i + 1) \in Seq(S)
  BY DEF From
<1>2. Head(From(steps, i)) = steps[i] /\ Tail(From(steps, i)) = From(steps, i + 1)
  BY <1>1, HeadTailOfSubSeq DEF From
<1>3. \A q \in Seq(S) : q = <<>> <=> Len(q) = 0
  BY EmptySeq
<1>4. n - i + 1 # 0 /\ (n - i = 0 <=> i = n)
  BY <1>1
<1> QED BY <1>1, <1>2, <1>3, <1>4

\* The two lists of steps, by name.
LEMMA TheSteps ==
    /\ Script \in Seq(RunSteps) /\ Len(Script) = 8 /\ Plan \in Seq(RunSteps) /\ Len(Plan) = 7
    /\ Script[1] = "prepare" /\ Script[2] = "folder" /\ Script[3] = "guard" /\ Script[4] = "fetch"
    /\ Script[5] = "extract" /\ Script[6] = "stamp" /\ Script[7] = "restart" /\ Script[8] = "wait"
    /\ Plan[1] = "prepare" /\ Plan[2] = "fetch" /\ Plan[3] = "extract" /\ Plan[4] = "stamp"
    /\ Plan[5] = "units" /\ Plan[6] = "enable" /\ Plan[7] = "health"
    /\ <<"restart", "wait">> = From(Script, 7)
    /\ Script = From(Script, 1) /\ Plan = From(Plan, 1)
<1>1. RunSteps = {"prepare", "folder", "guard", "fetch", "extract", "stamp", "restart", "wait",
                  "units", "enable", "health"}
  BY DEF RunSteps, Range, Script, Plan
<1> QED BY <1>1 DEF Script, Plan, From

LEMMA ScriptAhead ==
    ASSUME NEW i \in 1 .. 8
    PROVE  /\ Head(From(Script, i)) = Script[i]
           /\ From(Script, i) \in Seq(RunSteps) /\ From(Script, i) # <<>>
           /\ Tail(From(Script, i)) = From(Script, i + 1)
           /\ From(Script, i + 1) = <<>> <=> i = 8
<1>1. Script \in Seq(RunSteps) /\ Len(Script) = 8 /\ i \in 1 .. Len(Script)
  BY TheSteps
<1> QED BY <1>1, StepsAhead

LEMMA PlanAhead ==
    ASSUME NEW i \in 1 .. 7
    PROVE  /\ Head(From(Plan, i)) = Plan[i]
           /\ From(Plan, i) \in Seq(RunSteps) /\ From(Plan, i) # <<>>
           /\ Tail(From(Plan, i)) = From(Plan, i + 1)
           /\ From(Plan, i + 1) = <<>> <=> i = 7
<1>1. Plan \in Seq(RunSteps) /\ Len(Plan) = 7 /\ i \in 1 .. Len(Plan)
  BY TheSteps
<1> QED BY <1>1, StepsAhead

\* A script past step i: what it has unpacked is there, and it has unpacked all
\* before it stamps, unless it skipped; what it restarted runs.  A plan past "enable"
\* has started what it unpacked, or has spared what ran.
ScriptAt(i) ==
    /\ run.todo = From(Script, i)
    /\ ~run.installs => i > 6
    /\ run.installs /\ i > 5 => run.left = {}
    /\ run.installs /\ i > 7 => service = Whole(run.version)

PlanAt(i) ==
    /\ run.todo = From(Plan, i)
    /\ run.installs
    /\ i > 3 => run.left = {}
    /\ i > 6 /\ ~run.spares => service = Whole(run.version)

RunInv ==
    run # NoRun =>
        /\ run.installs => \A p \in Parts \ run.left : files[p] = run.version
        /\ (\E i \in 1 .. 8 : ScriptAt(i)) \/ (\E i \in 1 .. 7 : PlanAt(i))

\* Nothing changes the files between two runs.
LeftInv ==
    finished # NoRun =>
        /\ run = NoRun
        /\ finished.installs => files = Whole(finished.version) /\ (service = files \/ finished.spares)

VmIInv == VmTypeOK /\ RunInv /\ LeftInv

LEMMA VmInvInit == VmInit => VmIInv
BY DEF VmInit, VmIInv, VmTypeOK, RunInv, LeftInv, Holdings, Off, Whole

\* Where a run is, from the step it is at.
LEMMA WhereAt ==
    ASSUME VmIInv, NEW step, At(step)
    PROVE  /\ run # NoRun /\ run \in Runs /\ finished = NoRun
           /\ \/ \E i \in 1 .. 8 : ScriptAt(i) /\ Script[i] = step
              \/ \E i \in 1 .. 7 : PlanAt(i) /\ Plan[i] = step
<1>1. run # NoRun /\ run \in Runs /\ finished = NoRun /\ Head(run.todo) = step
  BY DEF At, VmIInv, VmTypeOK, LeftInv
<1>2. ASSUME NEW i \in 1 .. 8, ScriptAt(i) PROVE Script[i] = step
  BY <1>1, <1>2, ScriptAhead DEF ScriptAt
<1>3. ASSUME NEW i \in 1 .. 7, PlanAt(i) PROVE Plan[i] = step
  BY <1>1, <1>3, PlanAhead DEF PlanAt
<1> QED BY <1>1, <1>2, <1>3 DEF VmIInv, RunInv

\* A run that has a step ahead of it is not over.
LEMMA StillOn ==
    ASSUME NEW r \in Runs, r.todo # <<>> PROVE r # NoRun
BY DEF NoRun

\* What advancing does to a script and to a plan.
LEMMA ScriptAdvances ==
    ASSUME NEW i \in 1 .. 8, run \in Runs, run.todo = From(Script, i), Advances
    PROVE  /\ i = 8 => run' = NoRun /\ finished' = run
           /\ i < 8 => /\ finished' = finished
                       /\ run' = [run EXCEPT !.todo = From(Script, i + 1)]
                       /\ run' \in Runs /\ run' # NoRun /\ i + 1 \in 1 .. 8
<1>1. Tail(run.todo) = From(Script, i + 1) /\ (Tail(run.todo) = <<>> <=> i = 8)
  BY ScriptAhead
<1>2. CASE i = 8
  BY <1>1, <1>2 DEF Advances, AdvancesAs
<1>3. CASE i < 8
  <2>1. i + 1 \in 1 .. 8
    BY <1>3
  <2>2. From(Script, i + 1) \in Seq(RunSteps) /\ From(Script, i + 1) # <<>>
    BY <2>1, ScriptAhead
  <2>3. run' = [run EXCEPT !.todo = From(Script, i + 1)] /\ finished' = finished
    BY <1>1, <1>3 DEF Advances, AdvancesAs
  <2>4. run' \in Runs /\ run'.todo = From(Script, i + 1)
    BY <2>2, <2>3 DEF Runs
  <2>5. run' # NoRun
    BY <2>2, <2>4, StillOn
  <2> QED BY <1>3, <2>1, <2>3, <2>4, <2>5
<1> QED BY <1>2, <1>3

LEMMA PlanAdvances ==
    ASSUME NEW i \in 1 .. 7, NEW r \in Runs, r.todo = From(Plan, i), AdvancesAs(r)
    PROVE  /\ i = 7 => run' = NoRun /\ finished' = r
           /\ i < 7 => /\ finished' = finished
                       /\ run' = [r EXCEPT !.todo = From(Plan, i + 1)]
                       /\ run' \in Runs /\ run' # NoRun /\ i + 1 \in 1 .. 7
<1>1. Tail(r.todo) = From(Plan, i + 1) /\ (Tail(r.todo) = <<>> <=> i = 7)
  BY PlanAhead
<1>2. CASE i = 7
  BY <1>1, <1>2 DEF AdvancesAs
<1>3. CASE i < 7
  <2>1. i + 1 \in 1 .. 7
    BY <1>3
  <2>2. From(Plan, i + 1) \in Seq(RunSteps) /\ From(Plan, i + 1) # <<>>
    BY <2>1, PlanAhead
  <2>3. run' = [r EXCEPT !.todo = From(Plan, i + 1)] /\ finished' = finished
    BY <1>1, <1>3 DEF AdvancesAs
  <2>4. run' \in Runs /\ run'.todo = From(Plan, i + 1)
    BY <2>2, <2>3 DEF Runs
  <2>5. run' # NoRun
    BY <2>2, <2>4, StillOn
  <2> QED BY <1>3, <2>1, <2>3, <2>4, <2>5
<1> QED BY <1>2, <1>3

\* At a stamp everything has been unpacked.
LEMMA WholeAtStamp ==
    ASSUME VmIInv, At("stamp") PROVE files = Whole(run.version)
<1>1. run.installs /\ run.left = {}
  <2>1. ASSUME NEW i \in 1 .. 8, ScriptAt(i), Script[i] = "stamp" PROVE i = 6
    BY <2>1, TheSteps
  <2>2. ASSUME NEW i \in 1 .. 7, PlanAt(i), Plan[i] = "stamp" PROVE i = 4
    BY <2>2, TheSteps
  <2> QED BY <2>1, <2>2, WhereAt DEF ScriptAt, PlanAt
<1>2. \A p \in Parts : files[p] = run.version
  BY <1>1, WhereAt DEF VmIInv, RunInv
<1> QED BY <1>2 DEF VmIInv, VmTypeOK, Holdings, Whole

\* A step that goes on, and changes neither the files nor what is left to unpack:
\* the script's restart must have started what lies there.
LEMMA GoesOn ==
    ASSUME VmIInv, NEW step, At(step), Advances, UNCHANGED files,
           folder' \in {"missing", "there"}, stamp' \in Releases \cup {NoVersion}, service' \in Holdings,
           step \notin {"guard", "enable"},
           step = "extract" => run.left = {},
           step = "restart" => service' = files,
           step # "restart" => UNCHANGED service
    PROVE  VmIInv'
<1>1. run # NoRun /\ run \in Runs /\ finished = NoRun
  BY WhereAt
<1>a. run.installs => \A p \in Parts \ run.left : files[p] = run.version
  BY <1>1 DEF VmIInv, RunInv
<1>2. ASSUME NEW i \in 1 .. 8, ScriptAt(i), Script[i] = step PROVE VmIInv'
  <2>1. /\ (i = 3 => step = "guard") /\ (i = 5 => step = "extract") /\ (i = 7 => step = "restart")
        /\ (step = "restart" => i = 7) /\ step # "enable"
    BY <1>2, TheSteps
  <2>2. CASE i = 8
    <3>1. run' = NoRun /\ finished' = run
      BY <1>1, <1>2, <2>2, ScriptAdvances DEF ScriptAt
    <3>2. run.installs => files = Whole(run.version) /\ service = files
      <4>1. run.installs => \A p \in Parts : files[p] = run.version
        BY <1>2, <1>a, <2>2 DEF ScriptAt
      <4>2. run.installs => files = Whole(run.version)
        BY <4>1 DEF VmIInv, VmTypeOK, Holdings, Whole
      <4> QED BY <1>2, <2>2, <4>2 DEF ScriptAt
    <3>3. service' = service
      BY <2>1, <2>2
    <3> QED BY <1>1, <3>1, <3>2, <3>3 DEF VmIInv, VmTypeOK, RunInv, LeftInv
  <2>3. CASE i < 8
    <3>1. /\ finished' = NoRun
          /\ run' = [run EXCEPT !.todo = From(Script, i + 1)]
          /\ run' \in Runs /\ run' # NoRun /\ i + 1 \in 1 .. 8
      BY <1>1, <1>2, <2>3, ScriptAdvances DEF ScriptAt
    <3>2. /\ run'.todo = From(Script, i + 1) /\ run'.installs = run.installs
          /\ run'.left = run.left /\ run'.version = run.version
      BY <1>1, <3>1 DEF Runs
    <3>3. ~run.installs => i + 1 > 6
      BY <1>2 DEF ScriptAt
    <3>4. run.installs /\ i + 1 > 5 => run.left = {}
      BY <1>2, <2>1 DEF ScriptAt
    <3>5. run.installs /\ i + 1 > 7 => service' = Whole(run.version)
      <4>1. CASE i = 7 /\ run.installs
        <5>1. \A p \in Parts : files[p] = run.version
          BY <1>2, <1>a, <4>1 DEF ScriptAt
        <5>2. files = Whole(run.version)
          BY <5>1 DEF VmIInv, VmTypeOK, Holdings, Whole
        <5> QED BY <2>1, <4>1, <5>2
      <4> QED BY <2>3, <4>1
    <3>6. ScriptAt(i + 1)'
      BY <3>2, <3>3, <3>4, <3>5 DEF ScriptAt, Whole
    <3>7. RunInv'
      BY <1>a, <3>1, <3>2, <3>6 DEF RunInv
    <3> QED BY <3>1, <3>7 DEF VmIInv, VmTypeOK, LeftInv
  <2> QED BY <2>2, <2>3
<1>3. ASSUME NEW i \in 1 .. 7, PlanAt(i), Plan[i] = step PROVE VmIInv'
  <2>1. (i = 3 => step = "extract") /\ i # 6 /\ step # "restart"
    BY <1>3, TheSteps
  <2>2. /\ i = 7 => run' = NoRun /\ finished' = run
        /\ i < 7 => /\ finished' = finished
                    /\ run' = [run EXCEPT !.todo = From(Plan, i + 1)]
                    /\ run' \in Runs /\ run' # NoRun /\ i + 1 \in 1 .. 7
    BY <1>1, <1>3, PlanAdvances DEF PlanAt, Advances
  <2>3. CASE i = 7
    <3>1. \A p \in Parts : files[p] = run.version
      BY <1>3, <1>a, <2>3 DEF PlanAt
    <3>2. files = Whole(run.version)
      BY <3>1 DEF VmIInv, VmTypeOK, Holdings, Whole
    <3>3. service' = files \/ run.spares
      BY <1>3, <2>1, <2>3, <3>2 DEF PlanAt
    <3> QED BY <1>1, <2>2, <2>3, <3>2, <3>3 DEF VmIInv, VmTypeOK, RunInv, LeftInv
  <2>4. CASE i < 7
    <3>1. /\ run'.todo = From(Plan, i + 1) /\ run'.installs = run.installs
          /\ run'.left = run.left /\ run'.version = run.version
      BY <1>1, <2>2, <2>4 DEF Runs
    <3>2. PlanAt(i + 1)'
      BY <1>3, <2>1, <2>4, <3>1 DEF PlanAt
    <3>3. RunInv'
      BY <1>a, <2>2, <2>4, <3>1, <3>2 DEF RunInv
    <3> QED BY <1>1, <2>2, <2>4, <3>3 DEF VmIInv, VmTypeOK, LeftInv
  <2> QED BY <2>3, <2>4
<1> QED BY <1>2, <1>3, WhereAt

\* enable --now starts what was unpacked, or spares what runs.
LEMMA EnableStep == ASSUME VmIInv, Enables PROVE VmIInv'
<1> DEFINE r == IF service = Off THEN run ELSE [run EXCEPT !.spares = TRUE]
<1>1. run # NoRun /\ run \in Runs /\ finished = NoRun
  BY WhereAt DEF Enables
<1>2. PICK i \in 1 .. 7 : PlanAt(i) /\ i = 6
  <2>1. ASSUME NEW i \in 1 .. 8 PROVE Script[i] # "enable"
    BY <2>1, TheSteps
  <2>2. ASSUME NEW i \in 1 .. 7, Plan[i] = "enable" PROVE i = 6
    BY <2>2, TheSteps
  <2> QED BY <2>1, <2>2, WhereAt DEF Enables
<1>3. /\ r \in Runs /\ r.todo = From(Plan, i) /\ r.installs /\ r.left = {}
      /\ r.version = run.version /\ (~r.spares => service = Off)
  <2>1. CASE service = Off
    BY <1>1, <1>2, <2>1 DEF PlanAt
  <2>2. CASE service # Off
    <3>1. r = [run EXCEPT !.spares = TRUE]
      BY <2>2
    <3>2. r \in Runs /\ r.todo = run.todo /\ r.installs = run.installs /\ r.left = run.left
          /\ r.version = run.version /\ r.spares = TRUE
      BY <1>1, <3>1 DEF Runs
    <3> QED BY <1>2, <3>2 DEF PlanAt
  <2> QED BY <2>1, <2>2
<1>4. AdvancesAs(r)
  BY DEF Enables
<1> HIDE DEF r
<1>5. /\ finished' = finished
      /\ run' = [r EXCEPT !.todo = From(Plan, i + 1)]
      /\ run' \in Runs /\ run' # NoRun
  BY <1>2, <1>3, <1>4, PlanAdvances
<1>6. /\ run'.todo = From(Plan, i + 1) /\ (~run'.spares => service = Off)
      /\ run'.installs /\ run'.left = {} /\ run'.version = run.version
  BY <1>3, <1>5 DEF Runs
<1>7. \A p \in Parts : files[p] = run.version
  BY <1>1, <1>2 DEF PlanAt, VmIInv, RunInv
<1>8. files = Whole(run.version)
  BY <1>7 DEF VmIInv, VmTypeOK, Holdings, Whole
<1>9. i + 1 \in 1 .. 7 /\ PlanAt(i + 1)'
  BY <1>2, <1>6, <1>8 DEF PlanAt, Enables, Whole
<1>10. RunInv'
  BY <1>6, <1>7, <1>9 DEF RunInv, Enables
<1> QED BY <1>1, <1>5, <1>10 DEF VmIInv, VmTypeOK, LeftInv, Enables

\* The guard goes on, or skips to the restart.
LEMMA GuardStep == ASSUME VmIInv, Guards PROVE VmIInv'
<1>1. run # NoRun /\ run \in Runs /\ finished = NoRun
  BY WhereAt DEF Guards
<1>2. PICK i \in 1 .. 8 : ScriptAt(i) /\ i = 3
  <2>1. ASSUME NEW i \in 1 .. 8, Script[i] = "guard" PROVE i = 3
    BY <2>1, TheSteps
  <2>2. ASSUME NEW i \in 1 .. 7 PROVE Plan[i] # "guard"
    BY <2>2, TheSteps
  <2> QED BY <2>1, <2>2, WhereAt DEF Guards
<1>3. run.installs /\ \A p \in Parts \ run.left : files[p] = run.version
  BY <1>1, <1>2 DEF ScriptAt, VmIInv, RunInv
<1>a. /\ From(Script, 4) \in Seq(RunSteps) /\ From(Script, 4) # <<>>
      /\ From(Script, 7) \in Seq(RunSteps) /\ From(Script, 7) # <<>>
      /\ 4 \in 1 .. 8 /\ 7 \in 1 .. 8
  BY ScriptAhead
<1>4. CASE stamp = run.version
  <2>1. run' = [run EXCEPT !.todo = From(Script, 7), !.installs = FALSE]
    BY <1>4, TheSteps DEF Guards
  <2>2. run' \in Runs /\ run'.todo = From(Script, 7) /\ ~run'.installs
    BY <1>1, <1>a, <2>1 DEF Runs
  <2>3. run' # NoRun
    BY <1>a, <2>2, StillOn
  <2>4. ScriptAt(7)'
    BY <2>2 DEF ScriptAt
  <2> QED BY <1>1, <1>a, <2>2, <2>3, <2>4 DEF VmIInv, VmTypeOK, RunInv, LeftInv, Guards
<1>5. CASE stamp # run.version
  <2>1. Tail(run.todo) = From(Script, 4)
    BY <1>2, ScriptAhead DEF ScriptAt
  <2>2. run' = [run EXCEPT !.todo = From(Script, 4)]
    BY <1>5, <2>1 DEF Guards
  <2>3. /\ run' \in Runs /\ run'.todo = From(Script, 4) /\ run'.installs = run.installs
        /\ run'.left = run.left /\ run'.version = run.version
    BY <1>1, <1>a, <2>2 DEF Runs
  <2>4. run' # NoRun
    BY <1>a, <2>3, StillOn
  <2>5. ScriptAt(4)'
    BY <1>3, <2>3 DEF ScriptAt
  <2>6. RunInv'
    BY <1>3, <1>a, <2>3, <2>5 DEF RunInv, Guards
  <2> QED BY <1>1, <2>3, <2>4, <2>6 DEF VmIInv, VmTypeOK, LeftInv, Guards
<1> QED BY <1>4, <1>5

\* tar writes one file more.
LEMMA ExtractStep == ASSUME VmIInv, NEW p \in Parts, Extracts(p) PROVE VmIInv'
<1>1. run # NoRun /\ run \in Runs /\ finished = NoRun /\ finished' = NoRun
  BY WhereAt DEF Extracts
<1>2. /\ run' = [run EXCEPT !.left = @ \ {p}]
      /\ run' \in Runs /\ run'.todo = run.todo /\ run'.installs = run.installs
      /\ run'.left = run.left \ {p} /\ run'.version = run.version /\ run'.spares = run.spares
  BY <1>1 DEF Extracts, Runs
<1>3. files' \in Holdings /\ files'[p] = run.version /\ \A q \in Parts \ {p} : files'[q] = files[q]
  BY <1>1 DEF Extracts, VmIInv, VmTypeOK, Holdings, Runs
<1>4. run.installs
  <2>1. ASSUME NEW i \in 1 .. 8, Script[i] = "extract" PROVE i = 5
    BY <2>1, TheSteps
  <2> QED BY <2>1, WhereAt DEF Extracts, ScriptAt, PlanAt
<1>5. \A q \in Parts \ run'.left : files'[q] = run'.version
  BY <1>1, <1>2, <1>3, <1>4 DEF VmIInv, RunInv
<1>6. \/ \E i \in 1 .. 8 : ScriptAt(i) /\ i = 5
      \/ \E i \in 1 .. 7 : PlanAt(i)
  <2>1. ASSUME NEW i \in 1 .. 8, Script[i] = "extract" PROVE i = 5
    BY <2>1, TheSteps
  <2> QED BY <2>1, WhereAt DEF Extracts
<1>7. RunInv'
  <2>1. ASSUME NEW i \in 1 .. 8, ScriptAt(i), i = 5 PROVE ScriptAt(i)'
    BY <1>2, <1>4, <2>1 DEF ScriptAt
  <2>2. ASSUME NEW i \in 1 .. 7, PlanAt(i) PROVE PlanAt(i)'
    BY <1>2, <2>2 DEF PlanAt, Extracts
  <2> QED BY <1>5, <1>6, <2>1, <2>2 DEF RunInv
<1> QED BY <1>1, <1>2, <1>3, <1>7 DEF VmIInv, VmTypeOK, LeftInv, Extracts

LEMMA VmInvStep == VmIInv /\ [VmNext]_vmVars => VmIInv'
<1> SUFFICES ASSUME VmIInv, [VmNext]_vmVars PROVE VmIInv'
  OBVIOUS
<1>1. ASSUME NEW v \in Releases, ScriptBegins(v) \/ PlanBegins(v) PROVE VmIInv'
  <2>1. PICK steps \in {Script, Plan} : Begins(v, steps)
    BY <1>1 DEF ScriptBegins, PlanBegins
  <2>2. steps \in Seq(RunSteps) /\ steps # <<>> /\ steps \in {From(Script, 1), From(Plan, 1)}
    <3>1. /\ Script = From(Script, 1) /\ From(Script, 1) # <<>>
          /\ Plan = From(Plan, 1) /\ From(Plan, 1) # <<>>
      <4>1. 1 \in 1 .. 8 /\ 1 \in 1 .. 7
        OBVIOUS
      <4> QED BY <4>1, TheSteps, ScriptAhead, PlanAhead
    <3> QED BY <3>1, TheSteps
  <2>3. /\ run' = [version |-> v, todo |-> steps, left |-> Parts, installs |-> TRUE,
                  spares |-> FALSE]
        /\ finished' = NoRun /\ UNCHANGED <<folder, files, stamp, service>>
    BY <2>1 DEF Begins
  <2>4. run' \in Runs /\ run'.todo = steps /\ run'.left = Parts /\ run'.installs
    BY <2>2, <2>3 DEF Runs
  <2>5. ScriptAt(1)' \/ PlanAt(1)'
    BY <2>2, <2>4 DEF ScriptAt, PlanAt
  <2>6. RunInv'
    BY <2>4, <2>5 DEF RunInv
  <2> QED BY <2>3, <2>4, <2>6 DEF VmIInv, VmTypeOK, LeftInv
<1>2. CASE Prepares
  <2>1. PICK step \in {"prepare", "fetch", "units"} : At(step)
    BY <1>2 DEF Prepares
  <2> QED BY <1>2, <2>1, GoesOn DEF Prepares, VmIInv, VmTypeOK
<1>3. CASE MakesFolder
  BY <1>3, GoesOn DEF MakesFolder, VmIInv, VmTypeOK
<1>4. CASE Guards
  BY <1>4, GuardStep
<1>5. CASE Extracted
  BY <1>5, GoesOn DEF Extracted, VmIInv, VmTypeOK
<1>6. CASE Stamps
  <2>1. run.version \in Releases
    BY <1>6, WhereAt DEF Stamps, Runs
  <2> QED BY <1>6, <2>1, GoesOn DEF Stamps, VmIInv, VmTypeOK
<1>7. ASSUME NEW p \in Parts, Extracts(p) PROVE VmIInv'
  BY <1>7, ExtractStep
<1>8. CASE Restarts
  BY <1>8, GoesOn DEF Restarts, VmIInv, VmTypeOK
<1>9. CASE Enables
  BY <1>9, EnableStep
<1>10. CASE Waits
  BY <1>10, GoesOn DEF Waits, VmIInv, VmTypeOK
<1>a. CASE Healthy
  BY <1>a, GoesOn DEF Healthy, VmIInv, VmTypeOK
<1>11. CASE RunFails
  BY <1>11 DEF RunFails, VmIInv, VmTypeOK, RunInv, LeftInv
\* A restart by systemd starts what lies there: for a run that has restarted the
\* service itself, the same.
<1>12. CASE ServiceRestarts
  <2>1. ASSUME NEW i \in 1 .. 8, ScriptAt(i), run # NoRun PROVE ScriptAt(i)'
    <3>1. run.installs /\ i > 7 => files = Whole(run.version)
      BY <2>1 DEF ScriptAt, VmIInv, VmTypeOK, RunInv, Holdings, Whole
    <3> QED BY <1>12, <2>1, <3>1 DEF ServiceRestarts, ScriptAt, Whole
  <2>2. ASSUME NEW i \in 1 .. 7, PlanAt(i), run # NoRun PROVE PlanAt(i)'
    <3>1. i > 6 => files = Whole(run.version)
      BY <2>2 DEF PlanAt, VmIInv, VmTypeOK, RunInv, Holdings, Whole
    <3> QED BY <1>12, <2>2, <3>1 DEF ServiceRestarts, PlanAt, Whole
  <2>3. RunInv'
    BY <1>12, <2>1, <2>2 DEF ServiceRestarts, RunInv, VmIInv
  <2> QED BY <1>12, <2>3 DEF ServiceRestarts, VmIInv, VmTypeOK, LeftInv
<1>13. CASE UNCHANGED vmVars
  <2>1. \A i \in 1 .. 8 : ScriptAt(i) => ScriptAt(i)'
    BY <1>13 DEF vmVars, ScriptAt
  <2>2. \A i \in 1 .. 7 : PlanAt(i) => PlanAt(i)'
    BY <1>13 DEF vmVars, PlanAt
  <2>3. RunInv'
    BY <1>13, <2>1, <2>2 DEF vmVars, RunInv, VmIInv
  <2> QED BY <1>13, <2>3 DEF vmVars, VmIInv, VmTypeOK, LeftInv
<1> QED BY <1>1, <1>2, <1>3, <1>4, <1>5, <1>6, <1>7, <1>8, <1>9, <1>10, <1>11, <1>12, <1>13,
           <1>a DEF VmNext

\* A run knows what it has unpacked; what it left behind stays until the next.
THEOREM VmInductive == VmSpec => []VmIInv
BY VmInvInit, VmInvStep, PTL DEF VmSpec

\* A run that installed ends with the files of its version and nothing else, and with
\* the service on them, whatever failed or was restarted before (script.go, deploy.go);
\* only a plan that came upon a running service leaves that to its next restart.
THEOREM UpgradeTheorem == VmSpec => []UpgradeTakesEffect
<1>1. VmIInv => UpgradeTakesEffect
  BY DEF VmIInv, LeftInv, UpgradeTakesEffect
<1> QED BY <1>1, VmInductive, PTL

\* No version is stamped before all of it lies there, by a script or by a plan.
THEOREM StampTheorem == VmSpec => StampFollowsFiles
<1>1. VmIInv /\ [VmNext]_vmVars => [stamp' # stamp => files' = Whole(stamp')]_vmVars
  <2> SUFFICES ASSUME VmIInv, VmNext, stamp' # stamp PROVE files' = Whole(stamp')
    BY DEF vmVars
  <2>1. Stamps
    BY DEF VmNext, ScriptBegins, PlanBegins, Begins, Prepares, MakesFolder, Guards, Extracted,
       Extracts, Restarts, Enables, Waits, Healthy, RunFails, ServiceRestarts
  <2> QED BY <2>1, WholeAtStamp DEF Stamps, Whole
<1> QED BY <1>1, VmInductive, PTL DEF VmSpec, StampFollowsFiles

-----------------------------------------------------------------------------
(***************************************************************************)
(* The token bucket keeps its rate, for every capacity, refill time, idle  *)
(* time, steps of the clock and interval.                                  *)
(*                                                                         *)
(* WithinRate is not inductive: it says nothing of what the bucket still   *)
(* holds.  RateIInv adds it, and the eviction of an idle bucket keeps it   *)
(* because IdleTTL is at least the time that fills a bucket.               *)
(***************************************************************************)

USE RefillAssumption, EvictionAssumption, ClockAssumption, PeerWindowAssumption

\* What a bucket could give lies between nothing and a full burst.
LEMMA AvailableBounds ==
    ASSUME RateTypeOK
    PROVE  Available \in 0 .. Capacity /\ RefillTime \in Nat
BY DEF RateTypeOK, Available, Refilled, AtMost, RefillTime

\* The types hold at first and are kept by every step.
LEMMA RateTypeInit == RateInit => RateTypeOK
BY DEF RateInit, RateTypeOK, Slots

LEMMA RateTypeStep == RateTypeOK /\ [RateNext]_rateVars => RateTypeOK'
<1> SUFFICES ASSUME RateTypeOK, [RateNext]_rateVars PROVE RateTypeOK'
  OBVIOUS
<1>1. CASE ConsumeAllowed
  BY <1>1, AvailableBounds DEF ConsumeAllowed, RateTypeOK
<1>2. CASE ConsumeRefused
  BY <1>2, AvailableBounds DEF ConsumeRefused, RateTypeOK
<1>3. CASE EvictIdle
  BY <1>3 DEF EvictIdle, RateTypeOK
<1>4. CASE PeerCallAllowed \/ PeerCallRefused
  BY <1>4 DEF PeerCallAllowed, PeerCallRefused, bucket, RateTypeOK, Slots, Fresh
<1>5. ASSUME NEW k \in ClockSteps, Advance(k) PROVE RateTypeOK'
  BY <1>5 DEF Advance, bucket, RateTypeOK
<1>6. ASSUME NEW k \in ClockSteps, StepBack(k) PROVE RateTypeOK'
  BY <1>6 DEF StepBack, bucket, RateTypeOK
<1>7. CASE Mark \/ RateRestart
  BY <1>7 DEF Mark, RateRestart, RateTypeOK
<1>8. CASE UNCHANGED rateVars
  BY <1>8 DEF rateVars, RateTypeOK
<1> QED BY <1>1, <1>2, <1>3, <1>4, <1>5, <1>6, <1>7, <1>8 DEF RateNext

\* The bucket is full, or absent, when nothing has been spent.
LEMMA RateInvInit == RateInit => RateIInv
BY RateTypeInit DEF RateInit, RateIInv, Available

\* Room that grows no slower than what is claimed of it still suffices.
LEMMA StillWithin ==
    ASSUME NEW s \in Int, NEW m \in Int, NEW a \in Int, NEW b \in Int, NEW c \in Int,
           NEW k \in Int, s + a <= c + m, b <= a + k
    PROVE  s + b <= c + (m + k)
OBVIOUS

\* Every step keeps what is spent and what is left within burst and time.
LEMMA RateInvStep == RateIInv /\ [RateNext]_rateVars => RateIInv'
<1> SUFFICES ASSUME RateIInv, [RateNext]_rateVars PROVE RateIInv'
  OBVIOUS
<1> USE DEF RateIInv
<1>0. RateTypeOK' /\ RateTypeOK
  BY RateTypeStep
<1>a. Available \in 0 .. Capacity
  BY AvailableBounds
<1>b. /\ spent \in Int /\ moved \in Int /\ Available \in Int /\ Capacity \in Int
      /\ spent + Available <= Capacity + moved
  BY <1>0, <1>a DEF RateTypeOK
\* A refilled bucket holds what was available, and cannot be refilled again
\* before the clock moves on.
<1>1. CASE ConsumeAllowed
  <2>1. Available' = tokens'
    BY <1>0, <1>1 DEF ConsumeAllowed, Available, Refilled, RefillTime, RateTypeOK
  <2> QED BY <1>0, <1>1, <1>a, <2>1 DEF ConsumeAllowed, RateTypeOK
<1>2. CASE ConsumeRefused
  <2>1. Available' = tokens'
    BY <1>0, <1>2 DEF ConsumeRefused, Available, Refilled, RefillTime, RateTypeOK
  <2> QED BY <1>0, <1>2, <2>1 DEF ConsumeRefused, RateTypeOK
\* An evicted bucket had been idle long enough to be full.
<1>3. CASE EvictIdle
  <2>1. Available = Capacity /\ Available' = Capacity
    BY <1>0, <1>3 DEF EvictIdle, Available, Refilled, AtMost, RateTypeOK
  <2> QED BY <1>0, <1>3, <2>1 DEF EvictIdle, RateTypeOK
<1>4. CASE PeerCallAllowed \/ PeerCallRefused
  <2>1. Available' = Available /\ spent' = spent /\ moved' = moved
    BY <1>4 DEF PeerCallAllowed, PeerCallRefused, bucket, Available, Refilled, AtMost
  <2> QED BY <1>0, <2>1
\* Time refills no faster than it passes.
<1>5. ASSUME NEW k \in ClockSteps, Advance(k) PROVE RateIInv'
  <2>1. Available' <= Available + k
    BY <1>0, <1>5 DEF Advance, bucket, Available, Refilled, AtMost, RateTypeOK
  <2>2. Available' \in 0 .. Capacity
    BY <1>0, <1>5 DEF Advance, bucket, Available, Refilled, AtMost, RateTypeOK
  <2>3. spent' = spent /\ moved' = moved + k /\ k \in Nat /\ spent \in Nat /\ moved \in Nat
    BY <1>0, <1>5 DEF Advance, bucket, RateTypeOK
  <2>4. Available \in Int /\ Available' \in Int
    BY <1>a, <2>2
  <2>5. k \in Int
    BY <2>3
  <2>6. spent + Available' <= Capacity + (moved + k)
    BY <2>1, <2>3, <2>4, <1>b, <2>5, StillWithin, Zenon
  <2>7. spent' + Available' <= Capacity + moved'
    BY <2>3, <2>6
  <2> QED BY <1>0, <2>7
<1>6. ASSUME NEW k \in ClockSteps, StepBack(k) PROVE RateIInv'
  <2>1. Available' <= Available
    BY <1>0, <1>6 DEF StepBack, bucket, Available, Refilled, AtMost, RateTypeOK
  <2>2. Available' \in 0 .. Capacity
    BY <1>0, <1>6 DEF StepBack, bucket, Available, Refilled, AtMost, RateTypeOK
  <2>3. spent' = spent /\ moved' = moved /\ spent \in Nat /\ moved \in Nat
    BY <1>0, <1>6 DEF StepBack, bucket, RateTypeOK
  <2>4. Available \in Int /\ Available' \in Int
    BY <1>a, <2>2
  <2>5. 0 \in Int /\ Available' <= Available + 0
    BY <1>a, <2>1, <2>2
  <2>6. spent + Available' <= Capacity + (moved + 0)
    BY <2>1, <2>3, <2>4, <1>b, <2>5, StillWithin, Zenon
  <2>7. spent' + Available' <= Capacity + moved'
    BY <2>3, <2>6
  <2> QED BY <1>0, <2>7
<1>7. CASE Mark
  <2>1. Available' = Available
    BY <1>7 DEF Mark, Available, Refilled, AtMost
  <2>2. spent' = 0 /\ moved' = 0
    BY <1>7 DEF Mark
  <2> QED BY <1>0, <1>a, <2>1, <2>2
<1>8. CASE RateRestart
  <2>1. Available' = Capacity /\ spent' = 0 /\ moved' = 0
    BY <1>8 DEF RateRestart, Available
  <2> QED BY <1>0, <2>1
<1>9. CASE UNCHANGED rateVars
  <2>1. Available' = Available /\ spent' = spent /\ moved' = moved
    BY <1>9 DEF rateVars, Available, Refilled, AtMost
  <2> QED BY <1>0, <2>1
<1> QED BY <1>1, <1>2, <1>3, <1>4, <1>5, <1>6, <1>7, <1>8, <1>9 DEF RateNext

\* What is spent and what could be spent at once stay within burst and time.
THEOREM RateInductive == RateSpec => []RateIInv
BY RateInvInit, RateInvStep, PTL DEF RateSpec

\* In every interval a caller gets at most one burst and what time refills,
\* whatever the clock, the eviction timer and other callers do.
THEOREM RateTheorem == RateSpec => []WithinRate
<1>1. RateIInv => WithinRate
  <2> SUFFICES ASSUME RateIInv PROVE WithinRate
    OBVIOUS
  <2>1. Available \in 0 .. Capacity
    BY AvailableBounds DEF RateIInv
  <2> QED BY <2>1 DEF RateIInv, RateTypeOK, WithinRate
<1> QED BY <1>1, RateInductive, PTL

-----------------------------------------------------------------------------
(***************************************************************************)
(* The window of a peer's calls.  A call let through since the mark was    *)
(* stamped no earlier than the clock less what it moved forward since:     *)
(* in an interval shorter than the window its slot stays taken.            *)
(***************************************************************************)

SinceMark(slots) == \A n \in slots : stamps[n] # NoStamp /\ stamps[n] >= clock - moved

WindowInv ==
    /\ RateTypeOK
    /\ moved < PeerWindow =>
         \E slots \in SUBSET Slots : Cardinality(slots) = peerCalls /\ SinceMark(slots)

LEMMA WindowInvInit == RateInit => WindowInv
<1> SUFFICES ASSUME RateInit PROVE WindowInv
  OBVIOUS
<1>1. Cardinality({}) = 0 /\ {} \in SUBSET Slots
  BY FS_EmptySet
<1> QED BY <1>1, RateTypeInit DEF RateInit, WindowInv, SinceMark

\* As long as the interval is short, who was let through holds a slot of his own.
LEMMA WindowInvStep == WindowInv /\ [RateNext]_rateVars => WindowInv'
<1> SUFFICES ASSUME WindowInv, [RateNext]_rateVars, (moved < PeerWindow)'
             PROVE  \E slots \in SUBSET Slots :
                      Cardinality(slots) = peerCalls' /\ SinceMark(slots)'
  BY RateTypeStep DEF WindowInv
<1>0. RateTypeOK /\ RateTypeOK'
  BY RateTypeStep DEF WindowInv
\* A new interval starts with nobody in it.
<1>1. CASE Mark \/ RateRestart
  <2>1. Cardinality({}) = 0 /\ {} \in SUBSET Slots
    BY FS_EmptySet
  <2> QED BY <1>1, <2>1 DEF Mark, RateRestart, SinceMark
<1>2. CASE PeerCallAllowed
  <2>1. moved < PeerWindow
    BY <1>2 DEF PeerCallAllowed
  <2>2. PICK slots \in SUBSET Slots : Cardinality(slots) = peerCalls /\ SinceMark(slots)
    BY <2>1 DEF WindowInv
  <2>3. PICK n \in Slots :
          /\ ~Fresh(n)
          /\ stamps' = [m \in Slots |-> IF m = n THEN clock
                                        ELSE IF Fresh(m) THEN stamps[m] ELSE NoStamp]
    BY <1>2 DEF PeerCallAllowed
  <2>4. \A m \in slots : Fresh(m) /\ stamps[m] \in Nat
    BY <1>0, <2>1, <2>2 DEF Fresh, SinceMark, RateTypeOK
  <2>5. n \notin slots
    BY <2>3, <2>4
  <2>a. IsFiniteSet(Slots)
    BY FS_Interval DEF Slots
  <2>6. IsFiniteSet(slots)
    BY <2>2, <2>a, FS_Subset
  <2>7. Cardinality(slots \cup {n}) = peerCalls'
    BY <1>2, <2>2, <2>5, <2>6, FS_AddElement DEF PeerCallAllowed
  <2>8. clock' = clock /\ moved' = moved /\ clock \in Nat /\ moved \in Nat
    BY <1>0, <1>2 DEF PeerCallAllowed, RateTypeOK
  <2>9. ASSUME NEW m \in slots \cup {n} PROVE stamps'[m] # NoStamp /\ stamps'[m] >= clock' - moved'
    BY <2>2, <2>3, <2>4, <2>8 DEF SinceMark, NoStamp
  <2> QED BY <2>7, <2>9 DEF SinceMark
<1>3. ASSUME NEW k \in ClockSteps, Advance(k) \/ StepBack(k)
      PROVE  \E slots \in SUBSET Slots :
               Cardinality(slots) = peerCalls' /\ SinceMark(slots)'
  <2>1. k \in Nat /\ clock \in Nat /\ moved \in Nat /\ stamps' = stamps /\ peerCalls' = peerCalls
    BY <1>0, <1>3, ClockAssumption DEF Advance, StepBack, RateTypeOK
  <2>2. clock' \in Nat /\ moved' \in Nat /\ moved <= moved' /\ clock' - moved' <= clock - moved
    BY <1>3, <2>1 DEF Advance, StepBack
  <2>3. PICK slots \in SUBSET Slots : Cardinality(slots) = peerCalls /\ SinceMark(slots)
    BY <2>1, <2>2 DEF WindowInv
  <2>4. \A m \in slots : stamps[m] # NoStamp /\ stamps[m] \in Nat
    BY <1>0, <2>3 DEF SinceMark, RateTypeOK
  <2>5. ASSUME NEW m \in slots PROVE stamps'[m] # NoStamp /\ stamps'[m] >= clock' - moved'
    <3>1. stamps[m] >= clock - moved
      BY <2>3 DEF SinceMark
    <3>2. stamps[m] \in Int /\ clock - moved \in Int /\ clock' - moved' \in Int
      BY <2>1, <2>2, <2>4
    <3>3. stamps[m] >= clock' - moved'
      BY <2>2, <3>1, <3>2
    <3> QED BY <2>1, <2>4, <3>3
  <2> QED BY <2>1, <2>3, <2>5 DEF SinceMark
<1>4. ASSUME UNCHANGED <<clock, moved, stamps, peerCalls>>
      PROVE  \E slots \in SUBSET Slots :
               Cardinality(slots) = peerCalls' /\ SinceMark(slots)'
  BY <1>4 DEF WindowInv, SinceMark
<1>5. CASE ConsumeAllowed \/ ConsumeRefused \/ EvictIdle \/ PeerCallRefused \/ UNCHANGED rateVars
  BY <1>4, <1>5 DEF ConsumeAllowed, ConsumeRefused, EvictIdle, PeerCallRefused, rateVars
<1> QED BY <1>1, <1>2, <1>3, <1>5 DEF RateNext

THEOREM WindowInductive == RateSpec => []WindowInv
BY WindowInvInit, WindowInvStep, PTL DEF RateSpec

\* A peer's agent gets no more than PeerLimit calls through in any interval that
\* is shorter than the window (checkFederatedRateLimit), also when the clock is
\* set back in between.
THEOREM WindowTheorem == RateSpec => []WithinWindow
<1>1. WindowInv => WithinWindow
  <2> SUFFICES ASSUME WindowInv, moved < PeerWindow PROVE peerCalls <= PeerLimit
    BY DEF WithinWindow
  <2>1. PICK slots \in SUBSET Slots : Cardinality(slots) = peerCalls
    BY DEF WindowInv
  <2>2. PeerLimit \in Nat /\ IsFiniteSet(Slots) /\ Cardinality(Slots) = PeerLimit
    BY PeerWindowAssumption, FS_Interval DEF Slots
  <2> QED BY <2>1, <2>2, FS_Subset
<1> QED BY <1>1, WindowInductive, PTL

-----------------------------------------------------------------------------
(***************************************************************************)
(* The eight components of what is written down, side by side as MCRecords *)
(* puts them: each keeps its invariant in its own steps and while another  *)
(* is at work.                                                             *)
(***************************************************************************)

RecordsIInv ==
    /\ FilesIInv /\ KeysIInv /\ AuditIInv
    /\ InstallerIInv /\ RateTypeOK /\ RelayIInv /\ VmIInv

LEMMA RecordsInvInit == MCInit => RecordsIInv
BY FilesInvInit, KeysInvInit, AuditInvInit, InstallerInvInit, RateTypeInit, RelayInvInit, VmInvInit
   DEF MCInit, RecordsIInv

LEMMA RecordsInvStep == RecordsIInv /\ [MCNext]_MCVars => RecordsIInv'
<1> SUFFICES ASSUME RecordsIInv, [MCNext]_MCVars PROVE RecordsIInv'
  OBVIOUS
<1>1. /\ [FilesNext]_fileVars /\ [KeysNext]_keyVars /\ [AuditNext]_auditVars
      /\ [InstallerNext]_installVars /\ [RateNext]_rateVars
      /\ [RelayNext]_relayVars /\ [VmNext]_vmVars
  BY DEF MCNext, MCVars
<1>2. FilesIInv' /\ KeysIInv' /\ AuditIInv'
  BY <1>1, FilesInvStep, KeysInvStep, AuditInvStep DEF RecordsIInv
<1>3. InstallerIInv' /\ RateTypeOK' /\ RelayIInv' /\ VmIInv'
  BY <1>1, InstallerStep, RateTypeStep, RelayInvStep, VmInvStep DEF RecordsIInv
<1> QED BY <1>2, <1>3 DEF RecordsIInv

\* The types of the database file and its backup, the keys, the audit log, the
\* plugins directory, the limits' books, the relay and the VM hold throughout.
THEOREM RecordsTypes == MCSpec => []TypesOK
<1>1. RecordsIInv => TypesOK
  BY DEF RecordsIInv, FilesIInv, KeysIInv, AuditIInv, InstallerIInv, RelayIInv, VmIInv, TypesOK
<1> QED BY <1>1, RecordsInvInit, RecordsInvStep, PTL DEF MCSpec
=============================================================================
