------------------------------- MODULE Provision -------------------------------
(***************************************************************************)
(* What the runner prepares for a VM and what comes of it there: the       *)
(* cloud-init script (runner/internal/cloudinit/script.go), which runs     *)
(* under `set -e` and may be run again, and the deployment plan            *)
(* (runner/internal/hubcore/deploy.go), whose steps an executor is to run  *)
(* in order up to the first that fails.  There is no executor yet: what    *)
(* the plan does is read off its steps.                                    *)
(*                                                                         *)
(* A step may fail, and the VM may stop, at any point of a run; the        *)
(* service is restarted by systemd whenever it fails.                      *)
(***************************************************************************)
EXTENDS Naturals, SequencesExt

CONSTANTS
    Releases,   \* versions of hub-core
    Parts,      \* files of a release
    NoVersion

VARIABLES
    folder,     \* InstallDir: "missing" or "there"
    files,      \* [Parts -> Releases \cup {NoVersion}]: what lies in it
    stamp,      \* .installed-version
    service,    \* the files the running service was started from, or Off
    run,        \* the run under way, or NoRun
    finished    \* history: the run that ended last, if it came to its end

vmVars == <<folder, files, stamp, service, run, finished>>

\* The steps that matter to the files and the service; "fetch" stands for the
\* download and, in the plan, for the checks around it.
Script == <<"prepare", "folder", "guard", "fetch", "extract", "stamp", "restart", "wait">>
Plan == <<"prepare", "fetch", "extract", "stamp", "units", "enable", "health">>

RunSteps == Range(Script) \cup Range(Plan)
Holdings == [Parts -> Releases \cup {NoVersion}]
Whole(v) == [p \in Parts |-> v]
Off == Whole(NoVersion)

\* A run has its version, the steps still to do, the files still to unpack, whether
\* it installs or skips that, and whether it came upon a service and left it to run.
NoRun == [version |-> NoVersion, todo |-> <<>>, left |-> {}, installs |-> FALSE,
          spares |-> FALSE]
Runs == [version : Releases, todo : Seq(RunSteps), left : SUBSET Parts,
         installs : BOOLEAN, spares : BOOLEAN]

VmTypeOK ==
    /\ folder \in {"missing", "there"}
    /\ files \in Holdings
    /\ stamp \in Releases \cup {NoVersion}
    /\ service \in Holdings
    /\ run \in Runs \cup {NoRun}
    /\ finished \in Runs \cup {NoRun}

VmInit ==
    /\ folder = "missing"
    /\ files = [p \in Parts |-> NoVersion]
    /\ stamp = NoVersion
    /\ service = Off
    /\ run = NoRun /\ finished = NoRun

-----------------------------------------------------------------------------
Begins(v, steps) ==
    /\ run = NoRun
    /\ run' = [version |-> v, todo |-> steps, left |-> Parts, installs |-> TRUE,
               spares |-> FALSE]
    /\ finished' = NoRun
    /\ UNCHANGED <<folder, files, stamp, service>>

ScriptBegins(v) == Begins(v, Script)
PlanBegins(v) == Begins(v, Plan)

At(step) == run # NoRun /\ Head(run.todo) = step

\* The step has succeeded: the next one, or the end of the run.
AdvancesAs(r) ==
    IF Tail(r.todo) = <<>>
    THEN run' = NoRun /\ finished' = r
    ELSE run' = [r EXCEPT !.todo = Tail(@)] /\ UNCHANGED finished

Advances == AdvancesAs(run)

\* apt-get, tailscale, downloads, checksums, files under /etc, daemon-reload.
Prepares ==
    /\ At("prepare") \/ At("fetch") \/ At("units")
    /\ Advances
    /\ UNCHANGED <<folder, files, stamp, service>>

MakesFolder ==
    /\ At("folder")
    /\ folder' = "there"
    /\ Advances
    /\ UNCHANGED <<files, stamp, service>>

\* "Skip if version matches": nothing but the stamp is looked at.
Guards ==
    /\ At("guard")
    /\ run' = IF stamp = run.version
              THEN [run EXCEPT !.todo = <<"restart", "wait">>, !.installs = FALSE]
              ELSE [run EXCEPT !.todo = Tail(@)]
    /\ UNCHANGED <<folder, files, stamp, service, finished>>

\* tar, file by file over what is there; it fails where there is no directory.
Extracts(p) ==
    /\ At("extract")
    /\ folder = "there"
    /\ p \in run.left
    /\ files' = [files EXCEPT ![p] = run.version]
    /\ run' = [run EXCEPT !.left = @ \ {p}]
    /\ UNCHANGED <<folder, stamp, service, finished>>

Extracted ==
    /\ At("extract")
    /\ run.left = {}
    /\ Advances
    /\ UNCHANGED <<folder, files, stamp, service>>

\* (Wrong on purpose: the version is stamped before the archive is unpacked.)
StampsFirst ==
    /\ At("stamp") \/ At("fetch")
    /\ folder' = "there"
    /\ stamp' = run.version
    /\ Advances
    /\ UNCHANGED <<files, service>>

Stamps ==
    /\ At("stamp")
    /\ folder' = "there"
    /\ stamp' = run.version
    /\ Advances
    /\ UNCHANGED <<files, service>>

\* (Wrong on purpose: a service that runs is left to run, as by enable --now.)
RestartsIfOff ==
    /\ At("restart")
    /\ service' = IF service = Off THEN files ELSE service
    /\ Advances
    /\ UNCHANGED <<folder, files, stamp>>

\* systemctl restart.
Restarts ==
    /\ At("restart")
    /\ service' = files
    /\ Advances
    /\ UNCHANGED <<folder, files, stamp>>

\* systemctl enable --now: a service that runs already is left to run.
Enables ==
    /\ At("enable")
    /\ service' = IF service = Off THEN files ELSE service
    /\ AdvancesAs(IF service = Off THEN run ELSE [run EXCEPT !.spares = TRUE])
    /\ UNCHANGED <<folder, files, stamp>>

\* GET /v1/identity needs no token: 200 where there is an identity, else 503.  The
\* script ends either way, with a warning if nothing answered.
Waits ==
    /\ At("wait")
    /\ Advances
    /\ UNCHANGED <<folder, files, stamp, service>>

\* The plan fails if nothing answered.  It asks any hub that runs, not the one that
\* it has unpacked.
Healthy ==
    /\ At("health")
    /\ service # Off
    /\ Advances
    /\ UNCHANGED <<folder, files, stamp, service>>

\* The step fails, or the VM stops: the run is over, what it did stays.
RunFails ==
    /\ run # NoRun
    /\ run' = NoRun
    /\ UNCHANGED <<folder, files, stamp, service, finished>>

\* Restart=on-failure, or a boot: started from what lies there now.
ServiceRestarts ==
    /\ service # Off
    /\ service' = files
    /\ UNCHANGED <<folder, files, stamp, run, finished>>

VmNext ==
    \/ \E v \in Releases : ScriptBegins(v) \/ PlanBegins(v)
    \/ Prepares \/ MakesFolder \/ Guards \/ Extracted \/ Stamps
    \/ \E p \in Parts : Extracts(p)
    \/ Restarts \/ Enables \/ Waits \/ Healthy \/ RunFails \/ ServiceRestarts

VmSpec == VmInit /\ [][VmNext]_vmVars

-----------------------------------------------------------------------------
\* Whatever failed before and wherever: a version is stamped when all of it has
\* been unpacked, by either kind of run.  (The next script takes the stamp for the
\* version.)
StampFollowsFiles ==
    [][stamp' # stamp => files' = Whole(stamp')]_vmVars

\* An upgrade takes effect: once a run that installed has ended, the files are those
\* of its version and no other, and the service runs them, whatever it ran before,
\* whatever failed and whatever was restarted meanwhile; only a plan that came upon a
\* running service has left that as it was, until its next restart.
UpgradeTakesEffect ==
    finished # NoRun /\ finished.installs =>
        /\ files = Whole(finished.version)
        /\ service = files \/ finished.spares
=============================================================================
