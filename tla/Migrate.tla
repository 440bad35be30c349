------------------------------ MODULE Migrate ------------------------------
(***************************************************************************)
(* The migration runner (cmd/migrate): each run reads the versions that    *)
(* are recorded, then applies files one transaction at a time, "up" all    *)
(* that it did not read, "down" the latest that it read.  Nothing keeps    *)
(* two runs apart but the locks of the transactions; a run may end after   *)
(* any statement, by an error, a crash or its 30 seconds.                  *)
(*                                                                         *)
(* What a file does to the schema is abstracted to whether the changes of  *)
(* a version are there; the constants say how versions depend on another,  *)
(* and which files fail on some rows, until someone resolves them.         *)
(***************************************************************************)
EXTENDS Integers

CONSTANTS
    Runner,      \* processes that run migrations, again and again
    Last,        \* the files are versions 1 .. Last, in the order of their names
    Needs,       \* the versions that the up file of each version builds on
    DownNeeds,   \* the versions without which its down file fails
    Blocks,      \* the versions whose presence makes its down file fail
    Takes,       \* the versions whose changes go when its down file drops a table
    Repeatable,  \* the versions whose up file may be applied again
    Fragile,     \* the files, by version and direction, that some rows make fail
    Home,        \* the version that makes the tables of such rows
    MaxDown,     \* bound on the runs "down"
    MaxFault     \* bound on the runs that are cut short

VARIABLES
    schema,      \* the versions whose changes are in the database
    recorded,    \* schema_migrations
    obstacles,   \* the files that rows of the tables make fail now
    run,         \* what each runner holds
    downs, faults,
    mixed        \* observer: an "up" and a "down" run have overlapped

vars == <<schema, recorded, obstacles, run, downs, faults, mixed>>

Version == 1 .. Last

ASSUME FilesAssumption ==
    /\ Last \in Nat \ {0}
    /\ Needs \in [Version -> SUBSET Version] /\ DownNeeds \in [Version -> SUBSET Version]
    /\ Blocks \in [Version -> SUBSET Version] /\ Takes \in [Version -> SUBSET Version]
    /\ \A v \in Version : \A w \in Takes[v] : v < w
    /\ Repeatable \subseteq Version
    /\ Fragile \subseteq Version \X {"up", "down"} /\ Home \in Version
\* A file touches what it builds on: a table cannot be dropped under the
\* changes that need it, they go with it or keep it from going.
ASSUME DependencyAssumption ==
    /\ \A v \in Version : \A w \in Needs[v] : Needs[w] \subseteq Needs[v]
    /\ \A v \in Version : DownNeeds[v] \subseteq Needs[v]
    /\ \A v, w \in Version : w \in Needs[v] <=> v \in Takes[w] \cup Blocks[w]
ASSUME BoundAssumption == MaxDown \in Nat /\ MaxFault \in Nat

Run == [mode: {"up", "down"},
        stage: {"idle", "next", "body", "record", "commit", "done", "failed"},
        applied: SUBSET Version,  \* as read at the start
        version: 0 .. Last]       \* the file under way, or the last one that was applied

TypeOK ==
    /\ schema \subseteq Version /\ recorded \subseteq Version
    /\ obstacles \subseteq Fragile
    /\ run \in [Runner -> Run]
    /\ downs \in Nat /\ faults \in Nat
    /\ mixed \in BOOLEAN

Fresh == [mode |-> "up", stage |-> "idle", applied |-> {}, version |-> 0]

Init ==
    /\ schema = {} /\ recorded = {} /\ obstacles = {}
    /\ run = [r \in Runner |-> Fresh]
    /\ downs = 0 /\ faults = 0
    /\ mixed = FALSE

At(r, stage) == run[r].stage = stage
Active(r) == run[r].stage \in {"next", "body", "record", "commit"}
Up(r) == run[r].mode = "up"
Move(r, stage) == run' = [run EXCEPT ![r].stage = stage]

-----------------------------------------------------------------------------
(* run: connect, create schema_migrations if need be, read the versions *)

Start(r, mode) ==
    /\ ~Active(r)
    /\ mode = "down" => downs < MaxDown
    /\ run' = [run EXCEPT ![r] = [mode |-> mode, stage |-> "next",
                                  applied |-> recorded, version |-> 0]]
    /\ downs' = IF mode = "down" THEN downs + 1 ELSE downs
    /\ mixed' = (mixed \/ \E o \in Runner : Active(o) /\ run[o].mode # mode)
    /\ UNCHANGED <<schema, recorded, obstacles, faults>>

\* Mutant: one file too many.
PendingPastEnd(r) == {v \in 1 .. Last + 1 : v > run[r].version /\ v \notin run[r].applied}
\* Mutant: "up" takes one step, as "down" does.
PendingOne(r) == {v \in Version : run[r].version = 0 /\ v \notin run[r].applied}

Pending(r) == {v \in Version : v > run[r].version /\ v \notin run[r].applied}

LatestApplied(r, v) == v \in run[r].applied /\ \A w \in run[r].applied : w <= v

\* BeginTx of the next file; a run "down" has one.
Begin(r) ==
    /\ At(r, "next")
    /\ \E v \in IF Up(r) THEN Pending(r) ELSE Version :
        /\ IF Up(r) THEN \A w \in Pending(r) : v <= w ELSE LatestApplied(r, v)
        /\ run' = [run EXCEPT ![r].stage = "body", ![r].version = v]
    /\ UNCHANGED <<schema, recorded, obstacles, downs, faults, mixed>>

\* No file is left, or there is nothing to roll back.
Done(r) ==
    /\ At(r, "next")
    /\ IF Up(r) THEN Pending(r) = {} ELSE run[r].applied = {}
    /\ Move(r, "done")
    /\ UNCHANGED <<schema, recorded, obstacles, downs, faults, mixed>>

-----------------------------------------------------------------------------
(* applyFile: body, record and commit in one transaction *)

Touches(v, w) == v = w \/ v \in Needs[w] \/ w \in Needs[v]

\* Tables, types and indexes that another transaction made, altered or dropped
\* are locked until it ends.
Locked(r) ==
    \E o \in Runner \ {r} : run[o].stage \in {"record", "commit"}
                              /\ Touches(run[r].version, run[o].version)

Mode(up) == IF up THEN "up" ELSE "down"

\* CREATE and ADD COLUMN fail on what is there, REFERENCES and ALTER on what is
\* not; DROP IF EXISTS does not, but DROP TABLE fails on a table in use; UPDATE,
\* CREATE UNIQUE INDEX and a narrower type fail on rows that do not bear them.
BodyRuns(v, up) ==
    /\ IF up THEN Needs[v] \subseteq schema /\ (v \in schema => v \in Repeatable)
             ELSE DownNeeds[v] \subseteq schema /\ Blocks[v] \cap schema = {}
    /\ <<v, Mode(up)>> \notin obstacles

Migrated(v, up) == IF up THEN schema \cup {v} ELSE schema \ ({v} \cup Takes[v])

\* Mutant: the body is executed on the pool.
SeenOutsideTx(v, up) == Migrated(v, up)

\* In a transaction, others see nothing of the body.
SeenOutside(v, up) == schema

Body(r) ==
    LET v == run[r].version IN
    /\ At(r, "body") /\ ~Locked(r)
    /\ IF BodyRuns(v, Up(r))
       THEN Move(r, "record") /\ schema' = SeenOutside(v, Up(r))
       ELSE Move(r, "failed") /\ UNCHANGED schema
    /\ UNCHANGED <<recorded, obstacles, downs, faults, mixed>>

\* Mutant: "down" forgets to take the record back.
NeverUnrecorded(v, up) == recorded \cup (IF up THEN {v} ELSE {})

Recorded(v, up) == IF up THEN recorded \cup {v} ELSE recorded \ {v}

\* INSERT fails on a version that is recorded; DELETE of none is no error.
Record(r) ==
    /\ At(r, "record")
    /\ Move(r, IF Up(r) /\ run[r].version \in recorded THEN "failed" ELSE "commit")
    /\ UNCHANGED <<schema, recorded, obstacles, downs, faults, mixed>>

\* Rows go with their tables.
Commit(r) ==
    LET v == run[r].version IN
    /\ At(r, "commit")
    /\ schema' = Migrated(v, Up(r))
    /\ recorded' = Recorded(v, Up(r))
    /\ obstacles' = IF v = Home /\ ~Up(r) THEN {} ELSE obstacles
    /\ Move(r, IF Up(r) THEN "next" ELSE "done")
    /\ UNCHANGED <<downs, faults, mixed>>

\* Any other error, the timeout of the run, or a crash: defer tx.Rollback.
Stop(r) ==
    /\ Active(r) /\ faults < MaxFault
    /\ Move(r, "failed")
    /\ faults' = faults + 1
    /\ UNCHANGED <<schema, recorded, obstacles, downs, mixed>>

-----------------------------------------------------------------------------
(* The rows of the tables, which others write *)

\* A row comes that a fragile file will fail on.  What such a file has done
\* keeps out what would have kept it from running, as a unique index does, and
\* only what is widened can be too wide to be narrowed again.  A file under way
\* holds its tables.
Obstruct(v, mode) ==
    /\ <<v, mode>> \in Fragile \ obstacles
    /\ Home \in schema /\ (mode = "up" <=> v \notin schema)
    /\ \A r \in Runner :
        run[r].stage \in {"record", "commit"} => ~Touches(v, run[r].version)
    /\ obstacles' = obstacles \cup {<<v, mode>>}
    /\ UNCHANGED <<schema, recorded, run, downs, faults, mixed>>

\* "resolve them first": somebody changes or deletes the row.
Resolve(v, mode) ==
    /\ <<v, mode>> \in obstacles
    /\ obstacles' = obstacles \ {<<v, mode>>}
    /\ UNCHANGED <<schema, recorded, run, downs, faults, mixed>>

-----------------------------------------------------------------------------
Step(r) == Begin(r) \/ Done(r) \/ Body(r) \/ Record(r) \/ Commit(r)

RunSteps(r) == Step(r) \/ Stop(r) \/ Start(r, "up") \/ Start(r, "down")

RowsChange == \E v \in Version, mode \in {"up", "down"} : Obstruct(v, mode) \/ Resolve(v, mode)

Next == (\E r \in Runner : RunSteps(r)) \/ RowsChange

\* A run that is not cut short goes on; and "up" is run again after it ended,
\* as every "task dev" does.  Nothing is assumed of the rows.
Fairness == \A r \in Runner : WF_vars(Step(r)) /\ WF_vars(Start(r, "up"))

Spec == Init /\ [][Next]_vars /\ Fairness

-----------------------------------------------------------------------------
(* Properties *)

\* As long as no "up" run overlapped a "down" run, what is recorded is what is
\* in the database, without a gap, however many runs of one direction race and
\* wherever they are cut short ("Roll back only the latest applied migration").
SchemaAsRecorded ==
    ~mixed => /\ schema = recorded
              /\ \A v \in recorded : 1 .. v \subseteq recorded

\* Whatever overlaps: no change is in the database without its record, so no
\* later run trips over the remains of one that was cut short (applyFile puts
\* body and record into one transaction).
NoUnrecordedChange == schema \subseteq recorded

\* A run "up" that ends without an error leaves every version recorded, though
\* other runs "up" raced it for the same files.
UpMeansUpToDate ==
    [][\A r \in Runner :
        ~mixed /\ Up(r) /\ ~At(r, "done") /\ At(r, "done")' => recorded = Version]_vars

\* After the last fault and the last "down", and once no row is in a file's way
\* any more, running "up" again and again records every version, however often
\* a file failed half way on a row before it was resolved (main.go and
\* 000004_token_revocation_and_email_case.up.sql:6-8).  Their changes are in the
\* database too, unless an "up" and a "down" overlapped: "down" takes back what
\* it read as the latest, and what a later version had on top of it goes along
\* though it stays recorded, so that no "up" brings it back.
EventuallyMigrated ==
    <>[](obstacles = {}) => <>[](recorded = Version /\ (mixed \/ schema = Version))

-----------------------------------------------------------------------------
(* The abstract specification *)

Log == INSTANCE MigrationLog

\* However runs overlap, each commit is that of a file and its record at one
\* moment, on a schema that the file still fits: what its body needed is not
\* taken away, and what it does not bear does not appear, before the transaction
\* ends; and nothing is applied or rolled back twice (applyFile).
LogSpec == Log!Spec
=============================================================================
