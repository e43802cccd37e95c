------------------------------- MODULE MCRecords -------------------------------
(***************************************************************************)
(* For TLC: eight components that share nothing, each a matter of what is  *)
(* written down (the database, its backup, its keys, the audit log, the    *)
(* plugins directory, the limits' books, the relay's session and the VM),  *)
(* in one run.  A behaviour is one of any of them, chosen at first.        *)
(***************************************************************************)
EXTENDS Migrations, HubFiles, MasterKeys, AuditLog, Installer, RateLimits, Relay,
        Provision, TLC

CONSTANTS i1, i2, i3, n1

VARIABLE active

\* The migrations of the repository: a statement per table created (with its
\* indexes) and per column added.
MCSteps == <<3, 1, 2, 4, 1, 2, 3, 1>>
MCAlters == {4, 6, 7}

\* Three installs of one plugin; the third archive lacks its entry.
MCPlugin == [i \in Installs |-> n1]
MCContents == i1 :> {"package.json", "a.js"} @@ i2 :> {"package.json", "b.js"}
              @@ i3 :> {"package.json"}
MCEntryOf == i1 :> "a.js" @@ i2 :> "b.js" @@ i3 :> "b.js"

MCInit ==
    /\ active \in {"migrations", "files", "keys", "audit", "installer", "rate",
                   "relay", "vm"}
    /\ Init /\ FilesInit /\ KeysInit /\ AuditInit
    /\ InstallerInit /\ RateInit /\ RelayInit /\ VmInit
    /\ active # "keys" => /\ flags = [s \in Sources |-> NoKey]
                          /\ account = DefaultAccount
                          /\ keyring = [a \in Accounts |-> NoKey]

MCNext ==
    /\ UNCHANGED active
    /\ IF active = "migrations" THEN Next ELSE UNCHANGED vars
    /\ IF active = "files" THEN FilesNext ELSE UNCHANGED fileVars
    /\ IF active = "keys" THEN KeysNext ELSE UNCHANGED keyVars
    /\ IF active = "audit" THEN AuditNext ELSE UNCHANGED auditVars
    /\ IF active = "installer" THEN InstallerNext ELSE UNCHANGED installVars
    /\ IF active = "rate" THEN RateNext ELSE UNCHANGED rateVars
    /\ IF active = "relay" THEN RelayNext ELSE UNCHANGED relayVars
    /\ IF active = "vm" THEN VmNext ELSE UNCHANGED vmVars

MCVars == <<active, vars, fileVars, keyVars, auditVars, installVars, rateVars,
            relayVars, vmVars>>

MCSpec == MCInit /\ [][MCNext]_MCVars

TypesOK ==
    /\ FilesTypeOK /\ KeysTypeOK /\ AuditTypeOK /\ InstallerTypeOK
    /\ RateTypeOK /\ RelayTypeOK /\ VmTypeOK
=============================================================================
