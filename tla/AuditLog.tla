------------------------------- MODULE AuditLog -------------------------------
(***************************************************************************)
(* The rows a call of an OAuth plugin leaves in the audit log, and the     *)
(* purge (hub-core/src/audit-log.ts, TokenVault.getAccessToken, and        *)
(* `audit purge` in index.ts, a process of its own on the same file).      *)
(*                                                                         *)
(* A refresh and the end of a call write their rows in their own turn.     *)
(* The row of a vault read is written in a setImmediate callback, some     *)
(* turns after the read, with the time of the callback.                    *)
(***************************************************************************)
EXTENDS Naturals, SequencesExt

CONSTANTS
    Reads,      \* calls of OAuth plugins
    Retention,  \* --older-than
    MaxMoment   \* bound on the clock

ASSUME RetentionAssumption == Retention \in Nat \ {0} /\ MaxMoment \in Nat

VARIABLES
    moment,   \* the clock of the machine
    rows,     \* audit_log
    due,      \* setImmediate callbacks, oldest first
    story,    \* [Reads -> where the call is]
    purge,    \* the purge that runs: [cutoff, matching], or NoPurge
    purged,   \* history: rows that were deleted
    missing   \* history: reads whose row could not be written

auditVars == <<moment, rows, due, story, purge, purged, missing>>

\* What a call writes, in the order in which it does things.
Kinds == <<"token_rotation", "vault_access", "approved">>
LogRows == [call : Reads, kind : Range(Kinds), at : 0 .. MaxMoment]
NoPurge == [cutoff |-> 0, matching |-> 0]

AuditTypeOK ==
    /\ moment \in 0 .. MaxMoment
    /\ rows \subseteq LogRows /\ purged \subseteq LogRows
    /\ due \in Seq(Reads)
    /\ story \in [Reads -> {"idle", "refreshed", "running", "over", "failed", "cut"}]
    /\ purge \in [cutoff : 0 .. MaxMoment, matching : Nat]
    /\ missing \subseteq Reads

AuditInit ==
    /\ moment = 0 /\ rows = {} /\ purged = {} /\ due = <<>>
    /\ story = [c \in Reads |-> "idle"]
    /\ purge = NoPurge
    /\ missing = {}

-----------------------------------------------------------------------------

\* append: the row has the time at which it is written.
Appended(c, kind) == rows \cup {[call |-> c, kind |-> kind, at |-> moment]}

\* recordTokenRotation, after a refresh: in the refresh's own turn.
RecordsRotation(c) ==
    /\ story[c] = "idle"
    /\ story' = [story EXCEPT ![c] = "refreshed"]
    /\ rows' = Appended(c, "token_rotation")
    /\ UNCHANGED <<moment, due, purge, purged, missing>>

\* getAccessToken: with a token the plugin is called next; without one, or with
\* one that cannot be decrypted, it throws and the call ends without a row of
\* its own.  The read is recorded in all three cases.
ReadsVault(c, next) ==
    /\ story[c] \in {"idle", "refreshed"}
    /\ story' = [story EXCEPT ![c] = next]
    /\ due' = Append(due, c)
    /\ UNCHANGED <<moment, rows, purge, purged, missing>>

\* The oldest callback of recordVaultAccess ...
RecordsRead ==
    /\ due # <<>>
    /\ due' = Tail(due)
    /\ rows' = Appended(Head(due), "vault_access")
    /\ UNCHANGED <<moment, story, purge, purged, missing>>

\* ... whose write may fail, on a locked database: an error is logged.
RecordsReadFails ==
    /\ due # <<>>
    /\ due' = Tail(due)
    /\ missing' = missing \cup {Head(due)}
    /\ UNCHANGED <<moment, rows, story, purge, purged>>

\* (Wrong on purpose: the callback may come later than the next answer.)
CallAnsweredAnyTime(c) ==
    /\ story[c] = "running"
    /\ story' = [story EXCEPT ![c] = "over"]
    /\ rows' = Appended(c, "approved")
    /\ UNCHANGED <<moment, due, purge, purged, missing>>

\* The plugin's answer, read from its pipe in a later turn of the event loop
\* than the one that runs the callbacks of the read's turn.
CallAnswered(c) ==
    /\ story[c] = "running"
    /\ c \notin Range(due)
    /\ story' = [story EXCEPT ![c] = "over"]
    /\ rows' = Appended(c, "approved")
    /\ UNCHANGED <<moment, due, purge, purged, missing>>

\* The process ends, before or after db.close().
LogCut ==
    /\ \E c \in Reads : story[c] \in {"refreshed", "running"} \/ c \in Range(due)
    /\ due' = <<>>
    /\ missing' = missing \cup Range(due)
    /\ story' = [c \in Reads |-> IF story[c] \in {"refreshed", "running"} THEN "cut" ELSE story[c]]
    /\ UNCHANGED <<moment, rows, purge, purged>>

-----------------------------------------------------------------------------

OlderThan(cutoff) == {r \in rows : r.at < cutoff}

\* (Wrong on purpose: parseDuration for parseDurationAgo.)
CutoffAhead == moment + Retention

\* parseDurationAgo, for a clock that has come that far.
Cutoff == moment - Retention

\* `audit purge`: the cutoff is computed first, and the rows counted.
PurgeCounts ==
    /\ purge = NoPurge
    /\ moment > Retention
    /\ purge' = [cutoff |-> Cutoff, matching |-> Cardinality(OlderThan(Cutoff))]
    /\ UNCHANGED <<moment, rows, due, story, purged, missing>>

\* Without --yes that was the preview.
PurgePreviews ==
    /\ purge # NoPurge
    /\ purge' = NoPurge
    /\ UNCHANGED <<moment, rows, due, story, purged, missing>>

\* purgeOlderThan, in one statement.
PurgeDeletes ==
    /\ purge # NoPurge
    /\ rows' = rows \ OlderThan(purge.cutoff)
    /\ purged' = purged \cup OlderThan(purge.cutoff)
    /\ purge' = NoPurge
    /\ UNCHANGED <<moment, due, story, missing>>

MomentPasses ==
    /\ moment < MaxMoment
    /\ moment' = moment + 1
    /\ UNCHANGED <<rows, due, story, purge, purged, missing>>

AuditNext ==
    \/ \E c \in Reads :
        \/ RecordsRotation(c) \/ CallAnswered(c)
        \/ ReadsVault(c, "running") \/ ReadsVault(c, "failed")
    \/ RecordsRead \/ RecordsReadFails \/ LogCut
    \/ PurgeCounts \/ PurgePreviews \/ PurgeDeletes \/ MomentPasses

AuditSpec == AuditInit /\ [][AuditNext]_auditVars

-----------------------------------------------------------------------------
Order(kind) == CHOOSE i \in DOMAIN Kinds : Kinds[i] = kind

\* Although the read's row is deferred and dated late, the log tells a call in
\* order: who sees that a call was answered sees the read of the vault behind
\* it, unless its write failed; and where a purge, which goes by time, has cut
\* into a call, what is left is its end.
ReadsComeBeforeAnswers ==
    \A r \in rows :
        /\ r.kind = "approved" =>
             \/ r.call \in missing
             \/ \E s \in rows \cup purged : s.call = r.call /\ s.kind = "vault_access" /\ s.at <= r.at
        /\ \A s \in purged : s.call = r.call => Order(s.kind) < Order(r.kind)

\* audit purge --older-than: no row younger than that is deleted, however long
\* the command waits between its count and its delete, and no fewer rows are
\* than were counted.
PurgeSparesTheYoung ==
    [][ rows \ rows' # {} =>
          /\ \A r \in rows \ rows' : r.at + Retention < moment
          /\ Cardinality(rows \ rows') = purge.matching ]_auditVars
=============================================================================
