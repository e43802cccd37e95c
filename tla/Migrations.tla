------------------------------ MODULE Migrations ------------------------------
(***************************************************************************)
(* The schema of the hub's database and the programs that bring it up to   *)
(* date (hub-core/src/migrations.ts runMigrations): the hub as it starts,  *)
(* and every CLI command that opens the same file beside it.               *)
(*                                                                         *)
(* Each reads PRAGMA user_version once, then runs the DDL of every later   *)
(* version and stamps that version.  No transaction spans two statements,  *)
(* so a process may die, or another may step in, between any two.          *)
(***************************************************************************)
EXTENDS Naturals

CONSTANTS
    Procs,    \* processes that open the database
    Latest,   \* the last version of `migrations`
    Steps,    \* [1 .. Latest -> Nat]: how many statements a version's up() runs
    Alters    \* the versions whose statements are ALTER TABLE ... ADD COLUMN

ASSUME LatestAssumption == Latest \in Nat \ {0}
ASSUME StepsAssumption == Steps \in [1 .. Latest -> Nat \ {0}]
ASSUME AltersAssumption == Alters \subseteq 1 .. Latest

VARIABLES
    version,   \* PRAGMA user_version
    schema,    \* the statements whose table or column is there
    stage,     \* [Procs -> Stages]
    at,        \* [Procs -> Places]: the version being applied and the next
               \* statement of it; one past the last is the stamp
    begun      \* history: how often up() of a version was entered, up to 2

dbVars == <<version, schema, begun>>
vars == <<version, schema, stage, at, begun>>

Versions == 1 .. Latest

Statements(v) == {<<v, i>> : i \in 1 .. Steps[v]}

Stages == {"down", "migrating", "ready", "failed"}

Places == UNION {{<<v, i>> : i \in 1 .. Steps[v] + 1} : v \in Versions}

TypeOK ==
    /\ version \in 0 .. Latest
    /\ schema \subseteq UNION {Statements(v) : v \in Versions}
    /\ stage \in [Procs -> Stages]
    /\ at \in [Procs -> Places]
    /\ begun \in [Versions -> 0 .. 2]

Init ==
    /\ version = 0
    /\ schema = {}
    /\ stage = [p \in Procs |-> "down"]
    /\ at = [p \in Procs |-> <<1, 1>>]
    /\ begun = [v \in Versions |-> 0]

-----------------------------------------------------------------------------

\* (Wrong on purpose: statements counted from zero.)
ResumeAtZero(p, v) ==
    IF v > Latest
      THEN stage' = [stage EXCEPT ![p] = "ready"] /\ at' = at
      ELSE stage' = [stage EXCEPT ![p] = "migrating"] /\ at' = [at EXCEPT ![p] = <<v, 0>>]

\* The process goes on with version v of the loop, or is done with it.
Resume(p, v) ==
    IF v > Latest
      THEN stage' = [stage EXCEPT ![p] = "ready"] /\ at' = at
      ELSE stage' = [stage EXCEPT ![p] = "migrating"] /\ at' = [at EXCEPT ![p] = <<v, 1>>]

\* (Wrong on purpose: the version after user_version is taken for applied.)
StartSkipsOne(p) ==
    /\ stage[p] = "down"
    /\ Resume(p, version + 2)
    /\ UNCHANGED dbVars

\* A process opens the database and reads user_version.
Start(p) ==
    /\ stage[p] = "down"
    /\ Resume(p, version + 1)
    /\ UNCHANGED dbVars

\* One statement of up(): a table that is there is left alone (IF NOT EXISTS),
\* a column that is there is an error ...
Execute(p) ==
    LET v == at[p][1]
        i == at[p][2] IN
    /\ stage[p] = "migrating"
    /\ i <= Steps[v]
    /\ v \in Alters => at[p] \notin schema
    /\ schema' = schema \cup {at[p]}
    /\ at' = [at EXCEPT ![p] = <<v, i + 1>>]
    /\ begun' = IF i = 1 /\ begun[v] < 2 THEN [begun EXCEPT ![v] = @ + 1] ELSE begun
    /\ UNCHANGED <<version, stage>>

\* ... thrown out of runMigrations, and the process ends.
DuplicateColumn(p) ==
    LET v == at[p][1]
        i == at[p][2] IN
    /\ stage[p] = "migrating"
    /\ i <= Steps[v]
    /\ v \in Alters
    /\ at[p] \in schema
    /\ stage' = [stage EXCEPT ![p] = "failed"]
    /\ begun' = IF i = 1 /\ begun[v] < 2 THEN [begun EXCEPT ![v] = @ + 1] ELSE begun
    /\ UNCHANGED <<version, schema, at>>

\* (Wrong on purpose: the version is stamped before its up() is done.)
StampEarly(p) ==
    LET v == at[p][1] IN
    /\ stage[p] = "migrating"
    /\ at[p][2] \in {Steps[v], Steps[v] + 1}
    /\ version' = v
    /\ Resume(p, v + 1)
    /\ UNCHANGED <<schema, begun>>

\* PRAGMA user_version = v.
Stamp(p) ==
    LET v == at[p][1] IN
    /\ stage[p] = "migrating"
    /\ at[p][2] = Steps[v] + 1
    /\ version' = v
    /\ Resume(p, v + 1)
    /\ UNCHANGED <<schema, begun>>

\* A command ends, the hub stops, or either is killed.
Stop(p) ==
    /\ stage[p] # "down"
    /\ stage' = [stage EXCEPT ![p] = "down"]
    /\ UNCHANGED <<at, dbVars>>

Next == \E p \in Procs : Start(p) \/ Execute(p) \/ DuplicateColumn(p) \/ Stamp(p) \/ Stop(p)

Spec == Init /\ [][Next]_vars

-----------------------------------------------------------------------------

\* The stamp never runs ahead of the schema: whichever processes raced or died
\* on the way, the tables and columns of every version up to user_version are
\* there, so a process that skips those versions finds what it needs.
SchemaCoversVersion == \A v \in 1 .. version : Statements(v) \subseteq schema

\* And one that has come through runMigrations works on the whole schema, even
\* if another has set user_version back since.
ReadyIsComplete ==
    \A p \in Procs : stage[p] = "ready" => \A v \in Versions : Statements(v) \subseteq schema

\* What a process has behind it is in the schema.
DoneInv ==
    \A p \in Procs : stage[p] = "migrating" =>
        /\ \A v \in 1 .. at[p][1] - 1 : Statements(v) \subseteq schema
        /\ \A i \in 1 .. at[p][2] - 1 : <<at[p][1], i>> \in schema

IInv == TypeOK /\ SchemaCoversVersion /\ ReadyIsComplete /\ DoneInv

\* migrations.ts: the runner guarantees that up() is invoked exactly once per
\* database.  It matters for the versions that add columns: theirs cannot run
\* twice, and the start that tries throws.
AlterRunsOnce == \A v \in Alters : begun[v] <= 1
=============================================================================
