------------------------------- MODULE HubFiles -------------------------------
(***************************************************************************)
(* The database file of a hub and what happens to it: a hub that commits,  *)
(* stops and crashes (hub-core/src/index.ts main), subcommands that open   *)
(* the same file (audit purge, init, delegate ...), and the backup and     *)
(* restore commands, which read and write it as bytes                      *)
(* (hub-core/src/backup/backup.ts).                                        *)
(*                                                                         *)
(* The file is in WAL mode.  A commit goes to the -wal file beside it and  *)
(* reaches the file itself page by page when SQLite checkpoints; only the  *)
(* last connection to close finishes that and removes the -wal file.       *)
(* backup and restore know the file and not the -wal file.                 *)
(***************************************************************************)
EXTENDS Naturals, Sequences

CONSTANTS
    Pages,        \* the pages of the database
    MaxCommits,   \* bound on the commits
    NoBackup      \* no backup has been written

ASSUME PagesAssumption == Pages # {} /\ MaxCommits \in Nat \ {0}

VARIABLES
    process,   \* the hub: "up" or "down"
    main,      \* [Pages -> Nat]: the file; a page is named by the commit that wrote it
    wal,       \* [Pages -> Nat]: the newest frame of the page in the -wal file
    commits,   \* history: Seq([Pages -> Nat]), the database after each commit or restore
    command,   \* the backup or restore command that is running
    backup,    \* the backup file
    image      \* history: "own", or "mixed" once a restore was not alone with the file

fileVars == <<process, main, wal, commits, command, backup, image>>

\* A page that is in no -wal file, or not (yet) in the database file.
Nothing == 0

Images == [Pages -> 0 .. MaxCommits]

Empty == [p \in Pages |-> Nothing]

\* What a connection to the database reads.
Seen == [p \in Pages |-> IF wal[p] # Nothing THEN wal[p] ELSE main[p]]

Idle == [kind |-> "none", left |-> {}, bytes |-> Empty, calm |-> FALSE, at |-> 0]

Commands == [kind : {"none", "backup", "restore"}, left : SUBSET Pages,
             bytes : Images, calm : BOOLEAN, at : 0 .. MaxCommits]

Backups == [bytes : Images, calm : BOOLEAN, at : 1 .. MaxCommits]

FilesTypeOK ==
    /\ process \in {"up", "down"}
    /\ main \in Images /\ wal \in Images
    /\ commits \in Seq(Images)
    /\ command \in Commands
    /\ backup \in Backups \cup {NoBackup}
    /\ image \in {"own", "mixed"}

\* The first start has created the schema and the hub has been stopped.
FilesInit ==
    /\ process = "down"
    /\ main = [p \in Pages |-> 1]
    /\ wal = Empty
    /\ commits = <<[p \in Pages |-> 1]>>
    /\ command = Idle
    /\ backup = NoBackup
    /\ image = "own"

-----------------------------------------------------------------------------
(***************************************************************************)
(* SQLite.                                                                 *)
(***************************************************************************)

\* The command that runs is no longer alone with a file at rest.
Disturb == command' = [command EXCEPT !.calm = FALSE]

\* A transaction that writes the pages ps.
Writes(ps) ==
    /\ Len(commits) < MaxCommits
    /\ LET n == Len(commits) + 1 IN
       /\ wal' = [p \in Pages |-> IF p \in ps THEN n ELSE wal[p]]
       /\ commits' = Append(commits, [p \in Pages |-> IF p \in ps THEN n ELSE Seen[p]])

\* (Wrong on purpose: the log is thrown away with what it holds.)
ClosesUnread ==
    /\ UNCHANGED main
    /\ wal' = Empty

\* db.close() of the last connection: what is left of the -wal file goes into
\* the database and the -wal file is removed.
Closes ==
    /\ main' = Seen
    /\ wal' = Empty

\* A database some page of which is missing cannot be opened.
Readable == \A p \in Pages : Seen[p] # Nothing

-----------------------------------------------------------------------------
(***************************************************************************)
(* The hub.                                                                *)
(***************************************************************************)

\* main(): opens the database, as it finds it.
HubOpens ==
    /\ process = "down"
    /\ Readable
    /\ process' = "up"
    /\ Disturb
    /\ UNCHANGED <<main, wal, commits, backup, image>>

HubCommits(ps) ==
    /\ process = "up"
    /\ Readable
    /\ Writes(ps)
    /\ UNCHANGED <<process, main, command, backup, image>>

\* A checkpoint copies one page; the frame stays until the log starts over.
Checkpoints(p) ==
    /\ process = "up"
    /\ wal[p] \notin {Nothing, main[p]}
    /\ main' = [main EXCEPT ![p] = wal[p]]
    /\ UNCHANGED <<process, wal, commits, command, backup, image>>

\* A log all of which has been copied starts over.
LogStartsOver ==
    /\ process = "up"
    /\ wal # Empty
    /\ main = Seen
    /\ wal' = Empty
    /\ UNCHANGED <<process, main, commits, command, backup, image>>

\* SIGINT or SIGTERM: registry, server, db.close(), exit.
HubCloses ==
    /\ process = "up"
    /\ process' = "down"
    /\ Closes
    /\ Disturb
    /\ UNCHANGED <<commits, backup, image>>

HubCrashes ==
    /\ process = "up"
    /\ process' = "down"
    /\ Disturb
    /\ UNCHANGED <<main, wal, commits, backup, image>>

-----------------------------------------------------------------------------
(***************************************************************************)
(* The other commands.                                                     *)
(***************************************************************************)

\* audit purge, init, delegate, accept, revoke: a connection of their own, a
\* transaction, and close.  The -wal file survives if the hub is still there.
CommandWrites(ps) ==
    /\ Readable
    /\ Len(commits) < MaxCommits
    /\ LET n == Len(commits) + 1
           after == [p \in Pages |-> IF p \in ps THEN n ELSE Seen[p]]
       IN /\ commits' = Append(commits, after)
          /\ IF process = "up"
             THEN /\ wal' = [p \in Pages |-> IF p \in ps THEN n ELSE wal[p]]
                  /\ UNCHANGED main
             ELSE main' = after /\ wal' = Empty
    /\ Disturb
    /\ UNCHANGED <<process, backup, image>>

\* identity show, delegation list, a purge without --yes: the same without a
\* transaction.
CommandReads ==
    /\ Readable
    /\ process = "down"
    /\ Closes
    /\ Disturb
    /\ UNCHANGED <<process, commits, backup, image>>

\* backup(): readFileSync on the database file.
BackupBegins ==
    /\ command = Idle
    /\ command' = [kind |-> "backup", left |-> Pages, bytes |-> Empty,
                   calm |-> process = "down" /\ wal = Empty /\ image = "own",
                   at |-> Len(commits)]
    /\ UNCHANGED <<process, main, wal, commits, backup, image>>

BackupReads(p) ==
    /\ command.kind = "backup"
    /\ p \in command.left
    /\ command' = [command EXCEPT !.left = @ \ {p}, !.bytes[p] = main[p]]
    /\ UNCHANGED <<process, main, wal, commits, backup, image>>

\* The payload is encrypted and written over the previous backup.
BackupWrites ==
    /\ command.kind = "backup"
    /\ command.left = {}
    /\ backup' = [bytes |-> command.bytes, calm |-> command.calm, at |-> command.at]
    /\ command' = Idle
    /\ UNCHANGED <<process, main, wal, commits, image>>

\* restore(): decrypts, then writeFileSync truncates the database file ...
RestoreBegins ==
    /\ command = Idle
    /\ backup # NoBackup
    /\ Len(commits) < MaxCommits
    /\ main' = Empty
    /\ command' = [kind |-> "restore", left |-> Pages, bytes |-> backup.bytes,
                   calm |-> process = "down" /\ wal = Empty, at |-> backup.at]
    /\ image' = "mixed"
    /\ UNCHANGED <<process, wal, commits, backup>>

\* ... and writes it,
RestoreWrites(p) ==
    /\ command.kind = "restore"
    /\ p \in command.left
    /\ main' = [main EXCEPT ![p] = command.bytes[p]]
    /\ command' = [command EXCEPT !.left = @ \ {p}]
    /\ UNCHANGED <<process, wal, commits, backup, image>>

\* and says so.  Alone with the file, it has put back what was backed up.
RestoreEnds ==
    /\ command.kind = "restore"
    /\ command.left = {}
    /\ command' = Idle
    /\ IF command.calm /\ backup.calm
       THEN image' = "own" /\ commits' = Append(commits, commits[backup.at])
       ELSE UNCHANGED <<image, commits>>
    /\ UNCHANGED <<process, main, wal, backup>>

\* The command is killed: a backup leaves no file, a restore half a database.
CommandDies ==
    /\ command # Idle
    /\ command' = Idle
    /\ UNCHANGED <<process, main, wal, commits, backup, image>>

FilesNext ==
    \/ HubOpens \/ HubCloses \/ HubCrashes \/ LogStartsOver
    \/ \E p \in Pages : Checkpoints(p)
    \/ \E ps \in SUBSET Pages \ {{}} : HubCommits(ps) \/ CommandWrites(ps)
    \/ CommandReads
    \/ BackupBegins \/ BackupWrites \/ RestoreBegins \/ RestoreEnds \/ CommandDies
    \/ \E p \in Pages : BackupReads(p) \/ RestoreWrites(p)

FilesSpec == FilesInit /\ [][FilesNext]_fileVars

-----------------------------------------------------------------------------
(***************************************************************************)
(* Properties.                                                             *)
(***************************************************************************)

LastCommit == commits[Len(commits)]

\* The next connection sees the last commit and nothing else: however the hub
\* ended, wherever a checkpoint was when it did, whichever other command came
\* first, and after a restore that was alone with a database at rest.
LastCommitStands == image = "own" => Seen = LastCommit

\* docs/cli-reference.md: restore is the inverse of backup, for a stopped hub.
\* A backup of a hub that was stopped, and stayed stopped, holds what that hub
\* had committed, whole and up to date.
BackupIsLatest ==
    backup # NoBackup /\ backup.calm => backup.bytes = commits[backup.at]
=============================================================================
