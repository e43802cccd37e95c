------------------------------- MODULE Installer -------------------------------
(***************************************************************************)
(* Installing a plugin from a URL (hub-core/src/plugin-installer.ts):      *)
(* download to one temporary directory, extract to a second, move the      *)
(* second to the plugins directory, by rename or, when that is refused, by *)
(* copying file by file over what is there.  Several installs, also of one *)
(* plugin, may wait for the network and for tar at once; a copy (cpSync)   *)
(* holds the hub's only thread from its first file to its last.            *)
(***************************************************************************)
CONSTANTS
    Installs,     \* requests to install
    Plugin,       \* [Installs -> names]: the name in the archive's package.json
    Files,        \* what archives consist of
    Contents,     \* [Installs -> SUBSET Files]
    EntryOf,      \* [Installs -> Files]: "main" of the archive, which it may lack
    Absent

ASSUME ArchivesAssumption ==
    Contents \in [Installs -> SUBSET Files] /\ EntryOf \in [Installs -> Files]

VARIABLES
    install,  \* [Installs -> ...]: stages of installPluginFromUrl
    left,     \* [Installs -> SUBSET Files]: what a copy has still to write
    live,     \* the plugins directory: for each plugin and file, whose it is
    temp,     \* temporary directories on disk
    holder    \* history: the install that last began to write a plugin's directory

installVars == <<install, left, live, temp, holder>>

LivePlugins == {Plugin[i] : i \in Installs}
TempDirs == Installs \X {"tarball", "staging"}
InstallStages == {"idle", "downloading", "extracting", "copying", "installed", "failed"}

InstallerTypeOK ==
    /\ install \in [Installs -> InstallStages]
    /\ left \in [Installs -> SUBSET Files]
    /\ live \in [LivePlugins -> [Files -> Installs \cup {Absent}]]
    /\ temp \subseteq TempDirs
    /\ holder \in [LivePlugins -> Installs \cup {Absent}]

InstallerInit ==
    /\ install = [i \in Installs |-> "idle"]
    /\ left = [i \in Installs |-> {}]
    /\ live = [n \in LivePlugins |-> [f \in Files |-> Absent]]
    /\ temp = {}
    /\ holder = [n \in LivePlugins |-> Absent]

\* (Wrong on purpose: the copy is awaited, and the hub does other things meanwhile.)
AnyTurn == TRUE

\* The hub's thread is not inside a copy.
Turn == \A i \in Installs : install[i] # "copying"

Stage(i, from, to) ==
    /\ install[i] = from
    /\ install' = [install EXCEPT ![i] = to]

BeginDownload(i) ==
    /\ Turn
    /\ Stage(i, "idle", "downloading")
    /\ temp' = temp \cup {<<i, "tarball">>}
    /\ UNCHANGED <<left, live, holder>>

\* Not https, a status of 400 or more, too large, or the connection failed.
DownloadFails(i) ==
    /\ Turn
    /\ Stage(i, "downloading", "failed")
    /\ temp' = temp \ {<<i, "tarball">>}
    /\ UNCHANGED <<left, live, holder>>

Downloaded(i) ==
    /\ Turn
    /\ Stage(i, "downloading", "extracting")
    /\ temp' = temp \cup {<<i, "staging">>}
    /\ UNCHANGED <<left, live, holder>>

\* tar fails, or neither the manifest nor a conventional path names an entry:
\* the finally clause removes the tarball's directory, not the staging one.
ExtractFails(i) ==
    /\ Turn
    /\ Stage(i, "extracting", "failed")
    /\ temp' = temp \ {<<i, "tarball">>}
    /\ UNCHANGED <<left, live, holder>>

\* In the end the entry must be there, whichever archive it is from.
Verdict(i) == IF live'[Plugin[i]][EntryOf[i]] = Absent THEN "failed" ELSE "installed"

\* A directory that is not there yet gets the staging directory by one rename.
Renames(i) ==
    /\ Turn
    /\ \A f \in Files : live[Plugin[i]][f] = Absent
    /\ live' = [live EXCEPT ![Plugin[i]] =
                    [f \in Files |-> IF f \in Contents[i] THEN i ELSE Absent]]
    /\ holder' = [holder EXCEPT ![Plugin[i]] = i]
    /\ Stage(i, "extracting", Verdict(i))
    /\ temp' = temp \ {<<i, "tarball">>, <<i, "staging">>}
    /\ UNCHANGED left

\* The rename is refused: there is an older version, or another file system.
BeginCopy(i) ==
    /\ Turn
    /\ Stage(i, "extracting", "copying")
    /\ left' = [left EXCEPT ![i] = Contents[i]]
    /\ holder' = [holder EXCEPT ![Plugin[i]] = i]
    /\ UNCHANGED <<live, temp>>

\* What an older version had under the name is overwritten; what only it had stays.
CopyFile(i, f) ==
    /\ install[i] = "copying"
    /\ f \in left[i]
    /\ left' = [left EXCEPT ![i] = @ \ {f}]
    /\ live' = [live EXCEPT ![Plugin[i]] = [@ EXCEPT ![f] = i]]
    /\ UNCHANGED <<install, temp, holder>>

Copied(i) ==
    /\ left[i] = {}
    /\ UNCHANGED <<left, live, holder>>
    /\ Stage(i, "copying", Verdict(i))
    /\ temp' = temp \ {<<i, "tarball">>, <<i, "staging">>}

\* cpSync throws half-way; what it has copied stays.
CopyFails(i) ==
    /\ Stage(i, "copying", "failed")
    /\ left' = [left EXCEPT ![i] = {}]
    /\ temp' = temp \ {<<i, "tarball">>}
    /\ UNCHANGED <<live, holder>>

\* The hub dies: at an await, or in the middle of a copy.
Dies ==
    /\ install' = [i \in Installs |->
                     IF install[i] \in {"downloading", "extracting", "copying"}
                     THEN "failed" ELSE install[i]]
    /\ left' = [i \in Installs |-> {}]
    /\ UNCHANGED <<live, temp, holder>>

InstallerNext ==
    \/ Dies
    \/ \E i \in Installs :
        \/ BeginDownload(i) \/ DownloadFails(i) \/ Downloaded(i) \/ ExtractFails(i)
        \/ Renames(i) \/ BeginCopy(i) \/ Copied(i) \/ CopyFails(i)
        \/ \E f \in Files : CopyFile(i, f)

InstallerSpec == InstallerInit /\ [][InstallerNext]_installVars

\* An install that was answered as done, and is the last to have touched the plugin's
\* directory, has every file of its archive there, its own, whatever other installs of
\* the plugin overlapped with it, failed or were cut short: a report of success never
\* covers a mixture.  (Files of an older version that this one lacks may lie besides.)
InstalledIsWhole ==
    \A i \in Installs :
        install[i] = "installed" /\ holder[Plugin[i]] = i
        => \A f \in Contents[i] : live[Plugin[i]][f] = i
=============================================================================
