-------------------------- MODULE Migrate_proofs --------------------------
(* Whatever the files, and however many runners there are: record and       *)
(* schema agree without a gap until an "up" and a "down" run overlap, no    *)
(* change is ever unrecorded, and a run "up" that ends well leaves every    *)
(* version recorded.                                                        *)
EXTENDS Migrate, TLAPS

USE FilesAssumption, BoundAssumption

LEMMA VersionType == Version \subseteq Nat /\ Version = {v \in Int : 1 <= v /\ v <= Last}
BY DEF Version

\* What a runner that holds version v may rely on, if no run of the other
\* direction overlapped it.
RunKnows(r) ==
    LET held == run[r] IN
    /\ \A o \in Runner : Active(o) => run[o].mode = held.mode
    /\ IF Up(r)
       THEN /\ held.applied \subseteq recorded
            /\ \A v \in Version :
                v < held.version \/ (At(r, "next") /\ v = held.version) => v \in recorded
       ELSE /\ recorded \subseteq held.applied
            /\ ~At(r, "next") => \A v \in recorded : v <= held.version

\* A run that applies a file has chosen one.
RunHolds == \A r \in Runner : run[r].stage \in {"body", "record", "commit"} => run[r].version \in Version

Knows == ~mixed => \A r \in Runner : Active(r) => RunKnows(r)

IInv == TypeOK /\ RunHolds /\ NoUnrecordedChange /\ SchemaAsRecorded /\ Knows

LEMMA InitIInv == Init => IInv
<1> SUFFICES ASSUME Init PROVE IInv
    OBVIOUS
<1>1. Fresh \in Run /\ Fresh.stage = "idle"
    BY DEF Fresh, Run
<1>2. TypeOK
    BY <1>1 DEF Init, TypeOK
<1>3. RunHolds /\ Knows
    BY <1>1 DEF Init, RunHolds, Knows, Active
<1>4. NoUnrecordedChange /\ SchemaAsRecorded
    BY DEF Init, NoUnrecordedChange, SchemaAsRecorded
<1> QED BY <1>2, <1>3, <1>4 DEF IInv

-----------------------------------------------------------------------------
\* Rows come and go without a run; only what a file may fail on changes.
LEMMA RowsChangeAlone ==
    ASSUME RowsChange
    PROVE  /\ UNCHANGED <<schema, recorded, run, downs, faults, mixed>>
           /\ obstacles' \subseteq Fragile \cup obstacles
BY DEF RowsChange, Obstruct, Resolve

\* Every other part of the state stays where it is.
LEMMA RowsChangeKeeps ==
    ASSUME RowsChange, IInv
    PROVE  IInv'
<1>1. UNCHANGED <<schema, recorded, run, downs, faults, mixed>> /\ obstacles' \subseteq Fragile
    BY RowsChangeAlone DEF IInv, TypeOK
<1>2. TypeOK' /\ RunHolds'
    BY <1>1 DEF IInv, TypeOK, RunHolds
<1>3. NoUnrecordedChange' /\ SchemaAsRecorded'
    BY <1>1 DEF IInv, NoUnrecordedChange, SchemaAsRecorded
<1>4. Knows'
    BY <1>1 DEF IInv, Knows, RunKnows, Active, Up, At
<1> QED BY <1>2, <1>3, <1>4 DEF IInv

-----------------------------------------------------------------------------
(* Types *)

LEMMA StartType ==
    ASSUME TypeOK, RunHolds, NEW r \in Runner, NEW mode \in {"up", "down"}, Start(r, mode)
    PROVE  TypeOK' /\ RunHolds'
<1>1. [mode |-> mode, stage |-> "next", applied |-> recorded, version |-> 0] \in Run
    BY DEF TypeOK, Run
<1>2. TypeOK'
    BY <1>1 DEF TypeOK, Start
<1>3. RunHolds'
    BY DEF RunHolds, TypeOK, Start
<1> QED BY <1>2, <1>3

LEMMA MoveType ==
    ASSUME TypeOK, RunHolds, NEW r \in Runner, NEW stage,
           \/ stage \in {"next", "done", "failed"}
           \/ /\ stage \in {"record", "commit"}
              /\ run[r].stage \in {"body", "record"},
           Move(r, stage)
    PROVE  run' \in [Runner -> Run] /\ RunHolds'
<1>1. [run[r] EXCEPT !.stage = stage] \in Run
    BY DEF TypeOK, Run
<1>2. run' \in [Runner -> Run]
    BY <1>1 DEF TypeOK, Move
<1>3. RunHolds'
    BY DEF RunHolds, TypeOK, Move, Run
<1> QED BY <1>2, <1>3

LEMMA NextType ==
    ASSUME TypeOK, RunHolds, [Next]_vars
    PROVE  TypeOK' /\ RunHolds'
<1>1. ASSUME NEW r \in Runner, Begin(r)
      PROVE  TypeOK' /\ RunHolds'
    <2>1. PICK v \in Version : run' = [run EXCEPT ![r].stage = "body", ![r].version = v]
        BY <1>1 DEF Begin, Pending
    <2>2. [run[r] EXCEPT !.stage = "body", !.version = v] \in Run
        <3>1. run[r] \in Run /\ v \in 0 .. Last
            BY DEF TypeOK, Version
        <3> QED BY <3>1 DEF Run
    <2>3. TypeOK'
        BY <1>1, <2>1, <2>2 DEF TypeOK, Begin
    <2>4. run'[r].version = v /\ \A o \in Runner \ {r} : run'[o] = run[o]
        BY <2>1, <2>2 DEF TypeOK
    <2>5. RunHolds'
        BY <2>4 DEF RunHolds
    <2> QED BY <2>3, <2>5
<1>2. ASSUME NEW r \in Runner, Done(r)
      PROVE  TypeOK' /\ RunHolds'
    BY <1>2, MoveType DEF Done, TypeOK
<1>3. ASSUME NEW r \in Runner, Body(r)
      PROVE  TypeOK' /\ RunHolds'
    BY <1>3, MoveType DEF Body, TypeOK, SeenOutside, At
<1>4. ASSUME NEW r \in Runner, Record(r)
      PROVE  TypeOK' /\ RunHolds'
    BY <1>4, MoveType DEF Record, TypeOK, At
<1>5. ASSUME NEW r \in Runner, Commit(r)
      PROVE  TypeOK' /\ RunHolds'
    <2>1. run[r].version \in Version
        BY <1>5 DEF RunHolds, Commit, At
    <2>2. schema' \subseteq Version /\ recorded' \subseteq Version
        BY <1>5, <2>1 DEF Commit, Migrated, Recorded, TypeOK
    <2>3. obstacles' \subseteq Fragile
        BY <1>5 DEF Commit, TypeOK
    <2> QED BY <1>5, <2>2, <2>3, MoveType DEF Commit, TypeOK
<1>6. ASSUME NEW r \in Runner, Stop(r)
      PROVE  TypeOK' /\ RunHolds'
    BY <1>6, MoveType DEF Stop, TypeOK
<1>7. CASE UNCHANGED vars
    BY <1>7 DEF TypeOK, RunHolds, vars
<1>8. CASE RowsChange
    BY <1>8, RowsChangeAlone DEF TypeOK, RunHolds
<1> QED BY <1>1, <1>2, <1>3, <1>4, <1>5, <1>6, <1>7, <1>8, StartType DEF Next, RunSteps, Step

-----------------------------------------------------------------------------
(* Record and schema *)

LEMMA NextUnrecorded ==
    ASSUME TypeOK, NoUnrecordedChange, [Next]_vars
    PROVE  NoUnrecordedChange'
<1>1. ASSUME NEW r \in Runner, Commit(r)
      PROVE  NoUnrecordedChange'
    BY <1>1 DEF Commit, Migrated, Recorded, NoUnrecordedChange
<1>2. ASSUME NEW r \in Runner, (Step(r) /\ ~Commit(r)) \/ Stop(r) \/ Start(r, "up") \/ Start(r, "down")
      PROVE  UNCHANGED <<schema, recorded>>
    BY <1>2 DEF Step, Begin, Done, Body, SeenOutside, Record, Stop, Start
<1>3. CASE UNCHANGED vars
    BY <1>3 DEF vars, NoUnrecordedChange
<1>4. CASE RowsChange
    BY <1>4, RowsChangeAlone DEF NoUnrecordedChange
<1> QED BY <1>1, <1>2, <1>3, <1>4 DEF Next, RunSteps, NoUnrecordedChange

\* Runs that start read what is recorded at that moment.
LEMMA StartKnows ==
    ASSUME IInv, NEW r \in Runner, NEW mode \in {"up", "down"}, Start(r, mode)
    PROVE  SchemaAsRecorded' /\ Knows'
<1> SUFFICES ASSUME ~mixed'
             PROVE  SchemaAsRecorded' /\ \A q \in Runner : Active(q)' => RunKnows(q)'
    BY DEF Knows, SchemaAsRecorded
<1>1. /\ ~mixed /\ schema' = schema /\ recorded' = recorded
      /\ \A o \in Runner : Active(o) => run[o].mode = mode
    BY DEF Start
<1>2. /\ run'[r] = [mode |-> mode, stage |-> "next", applied |-> recorded, version |-> 0]
      /\ \A o \in Runner \ {r} : run'[o] = run[o]
    BY DEF Start, IInv, TypeOK
<1>3. \A o \in Runner : Active(o)' => run'[o].mode = mode
    BY <1>1, <1>2 DEF Active
<1>4. RunKnows(r)'
    BY <1>1, <1>2, <1>3, VersionType DEF RunKnows, Up, At
<1>5. ASSUME NEW q \in Runner, q # r, Active(q)'
      PROVE  RunKnows(q)'
    <2>1. run'[q] = run[q] /\ Active(q)
        BY <1>2, <1>5 DEF Active
    <2>2. RunKnows(q)
        BY <2>1, <1>1 DEF IInv, Knows
    <2> QED BY <2>1, <2>2, <1>1, <1>3, <1>5 DEF RunKnows, Up, At
<1> QED BY <1>1, <1>4, <1>5 DEF SchemaAsRecorded, IInv

\* A run that goes on or ends, and leaves the database as it is.
LEMMA QuietKnows ==
    ASSUME IInv, UNCHANGED <<schema, recorded, mixed>>, NEW r \in Runner, Active(r),
           \A o \in Runner \ {r} : run'[o] = run[o],
           Active(r)' => /\ run'[r].mode = run[r].mode
                         /\ (~mixed => RunKnows(r)')
    PROVE  SchemaAsRecorded' /\ Knows'
<1> SUFFICES ASSUME ~mixed, NEW q \in Runner, Active(q)'
             PROVE  RunKnows(q)'
    BY DEF Knows, SchemaAsRecorded, IInv
<1>1. CASE q = r
    BY <1>1
<1>2. CASE q # r
    <2>1. run'[q] = run[q] /\ Active(q)
        BY <1>2 DEF Active
    <2>2. RunKnows(q)
        BY <2>1 DEF IInv, Knows
    <2>3. \A o \in Runner : Active(o)' => run'[o].mode = run[q].mode
        BY <2>2 DEF RunKnows, Active
    <2> QED BY <2>1, <2>2, <2>3 DEF RunKnows, Up, At
<1> QED BY <1>1, <1>2

LEMMA MoveKnows ==
    ASSUME IInv, UNCHANGED <<schema, recorded, mixed>>, NEW r \in Runner, Active(r), NEW stage,
           \/ stage \in {"done", "failed"}
           \/ stage \in {"record", "commit"} /\ ~At(r, "next"),
           Move(r, stage)
    PROVE  SchemaAsRecorded' /\ Knows'
<1>1. /\ run'[r] = [run[r] EXCEPT !.stage = stage]
      /\ \A o \in Runner \ {r} : run'[o] = run[o]
      /\ run[r] \in Run
    BY DEF Move, IInv, TypeOK
<1>2. /\ run'[r].mode = run[r].mode /\ run'[r].stage = stage
      /\ run'[r].applied = run[r].applied /\ run'[r].version = run[r].version
    BY <1>1 DEF Run
<1>3. ASSUME Active(r)', ~mixed
      PROVE  RunKnows(r)'
    <2>1. RunKnows(r)
        BY <1>3 DEF IInv, Knows
    <2>2. \A o \in Runner : Active(o)' => run'[o].mode = run[r].mode
        BY <2>1, <1>1, <1>2 DEF RunKnows, Active
    <2>3. ~At(r, "next") /\ ~At(r, "next")'
        BY <1>2, <1>3 DEF Active, At
    <2> QED BY <2>1, <2>2, <2>3, <1>2 DEF RunKnows, Up
<1> QED BY <1>1, <1>2, <1>3, QuietKnows

LEMMA BeginKnows ==
    ASSUME IInv, NEW r \in Runner, Begin(r)
    PROVE  SchemaAsRecorded' /\ Knows'
<1>1. PICK v \in Version :
        /\ IF Up(r) THEN v \in Pending(r) /\ \A w \in Pending(r) : v <= w ELSE LatestApplied(r, v)
        /\ run' = [run EXCEPT ![r].stage = "body", ![r].version = v]
    BY DEF Begin, Pending
<1>2. /\ run'[r].mode = run[r].mode /\ run'[r].stage = "body"
      /\ run'[r].applied = run[r].applied /\ run'[r].version = v
      /\ \A o \in Runner \ {r} : run'[o] = run[o]
    BY <1>1 DEF IInv, TypeOK, Run
<1>3. At(r, "next") /\ Active(r) /\ UNCHANGED <<schema, recorded, mixed>>
    BY DEF Begin, At, Active
<1>4. ASSUME ~mixed
      PROVE  RunKnows(r)'
    <2>1. RunKnows(r)
        BY <1>3, <1>4 DEF IInv, Knows
    <2>2. \A o \in Runner : Active(o)' => run'[o].mode = run[r].mode
        BY <2>1, <1>2 DEF RunKnows, Active
    <2>3. CASE Up(r)
        <3>1. ASSUME NEW w \in Version, w < v
              PROVE  w \in recorded
            <4>1. w <= run[r].version \/ w \in run[r].applied
                BY <1>1, <2>3, <3>1, VersionType DEF Pending, IInv, TypeOK, Run
            <4> QED BY <4>1, <2>1, <2>3, <1>3, VersionType DEF RunKnows, IInv, TypeOK, Run
        <3> QED BY <3>1, <2>1, <2>2, <2>3, <1>2, <1>3 DEF RunKnows, Up, At
    <2>4. CASE ~Up(r)
        <3>1. \A w \in recorded : w <= v
            BY <1>1, <2>1, <2>4 DEF LatestApplied, RunKnows
        <3> QED BY <3>1, <2>1, <2>2, <2>4, <1>2, <1>3 DEF RunKnows, Up, At
    <2> QED BY <2>3, <2>4
<1> QED BY <1>2, <1>3, <1>4, QuietKnows

\* Each commit moves the end of the prefix by one, or repeats a roll-back.
LEMMA CommitKnows ==
    ASSUME IInv, NEW r \in Runner, Commit(r)
    PROVE  SchemaAsRecorded' /\ Knows'
<1> SUFFICES ASSUME ~mixed
             PROVE  SchemaAsRecorded' /\ \A q \in Runner : Active(q)' => RunKnows(q)'
    BY DEF Knows, SchemaAsRecorded, Commit
<1> DEFINE v == run[r].version
<1>1. At(r, "commit") /\ Active(r) /\ v \in Version /\ UNCHANGED mixed
    BY DEF Commit, At, Active, IInv, RunHolds
<1>2. RunKnows(r) /\ schema = recorded /\ recorded \subseteq Version
      /\ \A w \in recorded : 1 .. w \subseteq recorded
    BY <1>1 DEF IInv, Knows, SchemaAsRecorded, TypeOK
<1>3. /\ run'[r] = [run[r] EXCEPT !.stage = IF Up(r) THEN "next" ELSE "done"]
      /\ \A o \in Runner \ {r} : run'[o] = run[o]
      /\ run[r] \in Run
    BY DEF Commit, Move, IInv, TypeOK
<1>4. CASE Up(r)
    <2>1. recorded' = recorded \cup {v} /\ schema' = recorded'
        BY <1>2, <1>4 DEF Commit, Recorded, Migrated
    <2>2. \A w \in Version : w < v => w \in recorded
        BY <1>1, <1>2, <1>4 DEF RunKnows
    <2>3. SchemaAsRecorded'
        BY <1>1, <1>2, <2>1, <2>2, VersionType DEF SchemaAsRecorded
    <2>4. ASSUME NEW q \in Runner, Active(q)'
          PROVE  RunKnows(q)'
        <3>1. \A o \in Runner : Active(o)' => run'[o].mode = "up"
            BY <1>1, <1>2, <1>3, <1>4 DEF RunKnows, Active, Up, Run
        <3>2. CASE q = r
            BY <1>1, <1>2, <1>3, <1>4, <2>1, <2>2, <2>4, <3>1, <3>2 DEF RunKnows, Up, At, Run
        <3>3. CASE q # r
            <4>1. run'[q] = run[q] /\ Active(q)
                BY <1>3, <2>4, <3>3 DEF Active
            <4>2. RunKnows(q)
                BY <4>1 DEF IInv, Knows
            <4> QED BY <2>1, <2>4, <3>1, <4>1, <4>2 DEF RunKnows, Up, At
        <3> QED BY <3>2, <3>3
    <2> QED BY <2>3, <2>4
<1>5. CASE ~Up(r)
    <2>1. \A w \in recorded : w <= v
        BY <1>1, <1>2, <1>5 DEF RunKnows, At
    <2>2. recorded' = recorded \ {v} /\ schema' = recorded'
        BY <1>1, <1>2, <1>5, <2>1, VersionType DEF Commit, Recorded, Migrated
    <2>3. SchemaAsRecorded'
        BY <1>1, <1>2, <2>1, <2>2, VersionType DEF SchemaAsRecorded
    <2>4. ASSUME NEW q \in Runner, Active(q)'
          PROVE  RunKnows(q)'
        <3>1. q # r
            BY <1>3, <1>5, <2>4 DEF Active, Run
        <3>2. run'[q] = run[q] /\ Active(q)
            BY <1>3, <2>4, <3>1 DEF Active
        <3>3. RunKnows(q) /\ ~Up(q)
            BY <1>2, <1>5, <3>2 DEF IInv, Knows, RunKnows, Up
        <3>4. \A o \in Runner : Active(o)' => run'[o].mode = run[q].mode
            BY <1>3, <1>5, <3>3 DEF RunKnows, Active, Run
        <3> QED BY <2>2, <3>2, <3>3, <3>4 DEF RunKnows, Up, At
    <2> QED BY <2>3, <2>4
<1> QED BY <1>4, <1>5

LEMMA NextIInv == IInv /\ [Next]_vars => IInv'
<1> SUFFICES ASSUME IInv, [Next]_vars, ~RowsChange PROVE IInv'
    BY RowsChangeKeeps
<1>1. TypeOK' /\ RunHolds'
    BY NextType DEF IInv
<1>2. NoUnrecordedChange'
    BY NextUnrecorded DEF IInv
<1>3. SchemaAsRecorded' /\ Knows'
    <2>1. ASSUME NEW r \in Runner, Done(r) \/ Body(r) \/ Record(r) \/ Stop(r)
          PROVE  SchemaAsRecorded' /\ Knows'
        BY <2>1, MoveKnows DEF Done, Body, SeenOutside, Record, Stop, At, Active
    <2>2. CASE UNCHANGED vars
        BY <2>2 DEF vars, IInv, SchemaAsRecorded, Knows, RunKnows, Active, Up, At
    <2> QED BY <2>1, <2>2, BeginKnows, CommitKnows, StartKnows DEF Next, RunSteps, Step
<1> QED BY <1>1, <1>2, <1>3 DEF IInv

\* The inductive invariant holds of the specification.
THEOREM Invariant == Spec => []IInv
<1> QED BY InitIInv, NextIInv, PTL DEF Spec

-----------------------------------------------------------------------------
\* Type correctness: no run works on a version that is no file.
THEOREM TypeCorrect == Spec => []TypeOK
<1>1. IInv => TypeOK
    BY DEF IInv
<1> QED BY <1>1, Invariant, PTL

\* Record and schema agree, without a gap, until runs of both directions overlap.
THEOREM AgreeUntilMixed == Spec => []SchemaAsRecorded
<1>1. IInv => SchemaAsRecorded
    BY DEF IInv
<1> QED BY <1>1, Invariant, PTL

\* No change of any run is ever in the database without its record.
THEOREM AlwaysRecorded == Spec => []NoUnrecordedChange
<1>1. IInv => NoUnrecordedChange
    BY DEF IInv
<1> QED BY <1>1, Invariant, PTL

\* The step at which a run "up" ends: it knows of every version that it skipped.
LEMMA UpEnds ==
    ASSUME IInv, [Next]_vars, NEW r \in Runner,
           ~mixed, Up(r), ~At(r, "done"), At(r, "done")'
    PROVE  recorded = Version
<1>1. \A q \in Runner : RunSteps(q) => q = r \/ run'[r] = run[r]
    BY DEF RunSteps, Step, Begin, Done, Body, Record, Commit, Stop, Start, Move, IInv, TypeOK
<1>2. RunSteps(r)
    BY <1>1, RowsChangeAlone DEF Next, vars, At
<1>3. ~Stop(r) /\ ~Start(r, "up") /\ ~Start(r, "down")
      /\ ~Begin(r) /\ ~Body(r) /\ ~Record(r) /\ ~Commit(r)
    BY DEF Stop, Start, Begin, Body, Record, Commit, Move, At, Up, IInv, TypeOK, Run
<1>4. At(r, "next") /\ Pending(r) = {} /\ RunKnows(r)
    BY <1>2, <1>3 DEF RunSteps, Step, Done, IInv, Knows, Active, At
<1>5. ASSUME NEW v \in Version
      PROVE  v \in recorded
    <2>1. v <= run[r].version \/ v \in run[r].applied
        BY <1>4, VersionType DEF Pending, IInv, TypeOK, Run
    <2>2. run[r].version \in Nat /\ v \in Nat
        BY VersionType DEF IInv, TypeOK, Run
    <2>3. /\ run[r].applied \subseteq recorded
          /\ v < run[r].version \/ v = run[r].version => v \in recorded
        BY <1>4 DEF RunKnows
    <2> QED BY <2>1, <2>2, <2>3
<1> QED BY <1>5 DEF IInv, TypeOK

\* A run "up" ends well only when every version is recorded.
THEOREM UpEndsUpToDate == Spec => UpMeansUpToDate
<1>1. IInv /\ [Next]_vars =>
        [\A r \in Runner : ~mixed /\ Up(r) /\ ~At(r, "done") /\ At(r, "done")' => recorded = Version]_vars
    BY UpEnds
<1> QED BY <1>1, Invariant, PTL DEF Spec, UpMeansUpToDate

-----------------------------------------------------------------------------
(* Migrate implements MigrationLog *)

\* What is in the database builds on what is there, also with gaps in the record.
SchemaWhole == \A v \in schema : Needs[v] \subseteq schema

PastBody(r) == run[r].stage \in {"record", "commit"}

\* The locks keep files that touch each other apart.
FilesApart ==
    \A r, o \in Runner :
        r # o /\ PastBody(r) /\ PastBody(o) => ~Touches(run[r].version, run[o].version)

\* What BodyRuns asks of the schema, for any schema, and what a file makes of it.
FitsOn(v, up, on) ==
    IF up THEN Needs[v] \subseteq on /\ (v \in on => v \in Repeatable)
          ELSE DownNeeds[v] \subseteq on /\ Blocks[v] \cap on = {}
MigratedFrom(w, up, from) == IF up THEN from \cup {w} ELSE from \ ({w} \cup Takes[w])

\* The database is still as the body of the file under way found it fit.
FileFits(r) ==
    PastBody(r) =>
        /\ FitsOn(run[r].version, Up(r), schema)
        /\ At(r, "commit") /\ Up(r) => run[r].version \notin recorded

LogInv == IInv /\ SchemaWhole /\ FilesApart /\ \A r \in Runner : FileFits(r)

\* A step is one run's, and only a commit writes.
LEMMA OneRunSteps ==
    ASSUME TypeOK, NEW r \in Runner, RunSteps(r)
    PROVE  /\ \A o \in Runner \ {r} : run'[o] = run[o]
           /\ Commit(r) \/ UNCHANGED <<schema, recorded>>
BY DEF RunSteps, Step, Begin, Done, Body, SeenOutside, Record, Commit, Stop, Start, Move, TypeOK

\* A run is past its body after Body, Record, or not at all.
LEMMA PastBodySteps ==
    ASSUME TypeOK, NEW r \in Runner, RunSteps(r),
           PastBody(r)'
    PROVE  /\ run'[r].version = run[r].version /\ run'[r].mode = run[r].mode
           /\ \/ Body(r) /\ ~Locked(r) /\ BodyRuns(run[r].version, Up(r)) /\ At(r, "record")'
              \/ Record(r) /\ At(r, "record") /\ (Up(r) => run[r].version \notin recorded)
<1>1. run[r] \in Run
    BY DEF TypeOK
<1>2. ~Start(r, "up") /\ ~Start(r, "down") /\ ~Stop(r) /\ ~Begin(r) /\ ~Done(r) /\ ~Commit(r)
    BY DEF TypeOK, PastBody, Start, Stop, Begin, Done, Commit, Move, Run
<1>3. CASE Body(r)
    BY <1>1, <1>3 DEF Body, Move, TypeOK, PastBody, Run, At
<1>4. CASE Record(r)
    BY <1>1, <1>4 DEF Record, Move, TypeOK, PastBody, Run, At
<1> QED BY <1>2, <1>3, <1>4 DEF RunSteps, Step

LEMMA ApartNext ==
    ASSUME TypeOK, FilesApart, NEW r \in Runner, RunSteps(r)
    PROVE  FilesApart'
<1>1. \A o \in Runner \ {r} : run'[o] = run[o]
    BY OneRunSteps
<1>2. ASSUME NEW o \in Runner \ {r}, PastBody(r)', PastBody(o)'
      PROVE  ~Touches(run'[r].version, run'[o].version) /\ ~Touches(run'[o].version, run'[r].version)
    <2>1. PastBody(o) /\ run'[o] = run[o]
        BY <1>1, <1>2 DEF PastBody
    <2>2. /\ run'[r].version = run[r].version
          /\ ~Locked(r) \/ PastBody(r)
        BY <1>2, PastBodySteps DEF PastBody, At
    <2>3. ~Touches(run[r].version, run[o].version)
        BY <2>1, <2>2 DEF Locked, PastBody, FilesApart
    <2> QED BY <2>1, <2>2, <2>3 DEF Touches
<1> QED BY <1>1, <1>2 DEF FilesApart, PastBody

\* Two files that do not touch each other: what one does leaves the other fit.
LEMMA ApartFits ==
    ASSUME NEW v \in Version, NEW up, NEW w \in Version, NEW wup, NEW on,
           ~Touches(v, w), FitsOn(v, up, on)
    PROVE  FitsOn(v, up, MigratedFrom(w, wup, on))
<1>1. v # w /\ v \notin Needs[w] /\ w \notin Needs[v]
    BY DEF Touches
<1>2. \A x \in {w} \cup Takes[w] : x \notin Needs[v] /\ x # v
    <2>1. \A x \in Takes[w] : x \in Version /\ w \in Needs[x]
        BY FilesAssumption, DependencyAssumption
    <2>2. \A x \in Needs[v] : x \in Version /\ Needs[x] \subseteq Needs[v]
        BY FilesAssumption, DependencyAssumption
    <2> QED BY <1>1, <2>1, <2>2
<1>3. DownNeeds[v] \subseteq Needs[v] /\ w \notin Blocks[v]
    BY <1>1, DependencyAssumption
<1> QED BY <1>1, <1>2, <1>3 DEF FitsOn, MigratedFrom

LEMMA FitsNext ==
    ASSUME LogInv, NEW r \in Runner, RunSteps(r)
    PROVE  \A q \in Runner : FileFits(q)'
<1> SUFFICES ASSUME NEW q \in Runner, PastBody(q)'
             PROVE  FileFits(q)'
    BY DEF FileFits
<1>1. TypeOK /\ \A o \in Runner \ {r} : run'[o] = run[o]
    BY OneRunSteps DEF LogInv, IInv
<1>2. CASE q = r
    <2>1. /\ run'[r].version = run[r].version /\ run'[r].mode = run[r].mode
          /\ \/ Body(r) /\ BodyRuns(run[r].version, Up(r)) /\ At(r, "record")'
             \/ Record(r) /\ At(r, "record") /\ (Up(r) => run[r].version \notin recorded)
        BY <1>1, <1>2, PastBodySteps
    <2>2. UNCHANGED <<schema, recorded>>
        BY <2>1 DEF Body, SeenOutside, Record
    <2>3. FitsOn(run[r].version, Up(r), schema)
        BY <2>1 DEF LogInv, FileFits, PastBody, At, BodyRuns, FitsOn
    <2> QED BY <1>2, <2>1, <2>2, <2>3 DEF FileFits, FitsOn, Up, At
<1>3. CASE q # r
    <2>1. run'[q] = run[q] /\ PastBody(q)
        BY <1>1, <1>3 DEF PastBody
    <2>2. FitsOn(run[q].version, Up(q), schema) /\ (At(q, "commit") /\ Up(q) => run[q].version \notin recorded)
        BY <2>1 DEF LogInv, FileFits
    <2>3. CASE UNCHANGED <<schema, recorded>>
        BY <2>1, <2>2, <2>3 DEF FileFits, FitsOn, Up, At
    <2>4. CASE Commit(r)
        <3>1. PastBody(r) /\ run[r].version \in Version /\ run[q].version \in Version
            BY <2>1, <2>4 DEF Commit, At, PastBody, LogInv, IInv, RunHolds
        <3>2. ~Touches(run[q].version, run[r].version)
            BY <1>3, <2>1, <3>1 DEF LogInv, FilesApart
        <3>3. schema' = MigratedFrom(run[r].version, Up(r), schema)
            BY <2>4 DEF Commit, Migrated, MigratedFrom
        <3>4. FitsOn(run[q].version, Up(q), schema')
            BY <2>2, <3>1, <3>2, <3>3, ApartFits
        <3>5. run[q].version # run[r].version
            BY <3>2 DEF Touches
        <3>6. At(q, "commit")' /\ Up(q)' => run'[q].version \notin recorded'
            BY <2>1, <2>2, <2>4, <3>5 DEF Commit, Recorded, Up, At
        <3> QED BY <2>1, <3>4, <3>6 DEF FileFits, FitsOn, Up
    <2> QED BY <1>1, <2>3, <2>4, OneRunSteps
<1> QED BY <1>2, <1>3

LEMMA WholeNext ==
    ASSUME LogInv, NEW r \in Runner, Commit(r)
    PROVE  SchemaWhole'
<1> DEFINE v == run[r].version
<1>1. v \in Version /\ schema \subseteq Version /\ FitsOn(v, Up(r), schema) /\ schema' = Migrated(v, Up(r))
    BY DEF Commit, At, PastBody, LogInv, IInv, TypeOK, RunHolds, FileFits
<1> HIDE DEF v
<1>2. CASE Up(r)
    BY <1>1, <1>2 DEF LogInv, SchemaWhole, FitsOn, Migrated
<1>3. CASE ~Up(r)
    <2>1. schema' = schema \ ({v} \cup Takes[v]) /\ Blocks[v] \cap schema = {}
        BY <1>1, <1>3 DEF FitsOn, Migrated
    <2>2. ASSUME NEW w \in schema', NEW x \in Needs[w], x \in {v} \cup Takes[v]
          PROVE  FALSE
        <3>1. w \in schema /\ w \in Version /\ x \in Version /\ w \notin Takes[v] /\ w \notin Blocks[v]
            BY <1>1, <2>1, <2>2, FilesAssumption
        <3>2. v \in Needs[x] \/ v = x
            BY <1>1, <2>2, <3>1, DependencyAssumption
        <3>3. v \in Needs[w]
            BY <2>2, <3>1, <3>2, DependencyAssumption
        <3> QED BY <1>1, <3>1, <3>3, DependencyAssumption
    <2> QED BY <2>1, <2>2 DEF LogInv, SchemaWhole
<1> QED BY <1>2, <1>3

LEMMA LogInvNext == LogInv /\ [Next]_vars => LogInv'
<1> SUFFICES ASSUME LogInv, [Next]_vars PROVE LogInv'
    OBVIOUS
<1>1. IInv'
    BY NextIInv DEF LogInv
<1>2. CASE UNCHANGED vars
    BY <1>1, <1>2 DEF vars, LogInv, SchemaWhole, FilesApart, PastBody, FileFits, FitsOn, Up, At
<1>3. ASSUME NEW r \in Runner, RunSteps(r)
      PROVE  LogInv'
    <2>1. FilesApart'
        BY <1>3, ApartNext DEF LogInv, IInv
    <2>2. SchemaWhole'
        BY <1>3, OneRunSteps, WholeNext DEF LogInv, IInv, SchemaWhole
    <2> QED BY <1>1, <1>3, <2>1, <2>2, FitsNext DEF LogInv
<1>4. CASE RowsChange
    BY <1>1, <1>4, RowsChangeAlone DEF LogInv, SchemaWhole, FilesApart, PastBody, FileFits, FitsOn, Up, At
<1> QED BY <1>2, <1>3, <1>4 DEF Next

\* A commit is a step of the log; one that rolls back what is gone is none.
LEMMA CommitLogs ==
    ASSUME LogInv, NEW r \in Runner, Commit(r)
    PROVE  Log!Next \/ UNCHANGED Log!vars
<1> DEFINE v == run[r].version
<1>1. /\ v \in Version /\ schema \subseteq Version /\ schema \subseteq recorded
      /\ FitsOn(v, Up(r), schema) /\ (Up(r) => v \notin recorded)
      /\ schema' = Migrated(v, Up(r)) /\ recorded' = Recorded(v, Up(r))
    BY DEF Commit, At, PastBody, LogInv, IInv, TypeOK, RunHolds, NoUnrecordedChange, FileFits
<1> HIDE DEF v
<1>2. CASE Up(r)
    BY <1>1, <1>2 DEF Log!Next, Log!Apply, FitsOn, Migrated, Recorded
<1>3. CASE ~Up(r) /\ v \in recorded
    BY <1>1, <1>3 DEF Log!Next, Log!RollBack, FitsOn, Migrated, Recorded
<1>4. CASE ~Up(r) /\ v \notin recorded
    <2>1. ASSUME NEW x \in Takes[v], x \in schema
          PROVE  FALSE
        <3>1. v \in Needs[x]
            BY <1>1, <2>1, DependencyAssumption
        <3> QED BY <1>1, <1>4, <2>1, <3>1 DEF LogInv, SchemaWhole
    <2> QED BY <1>1, <1>4, <2>1 DEF Log!vars, Migrated, Recorded
<1> QED BY <1>2, <1>3, <1>4

\* Runs, transactions and locks implement the log of migrations: each commit is
\* one file and its record on a schema that the file fits, and nothing is
\* applied or rolled back twice.
THEOREM Refinement == Spec => LogSpec
<1>1. Init => LogInv
    <2> SUFFICES ASSUME Init PROVE SchemaWhole /\ FilesApart /\ \A r \in Runner : FileFits(r)
        BY InitIInv DEF LogInv
    <2>1. \A r \in Runner : ~PastBody(r)
        BY DEF Init, Fresh, PastBody
    <2> QED BY <2>1 DEF Init, SchemaWhole, FilesApart, FileFits
<1>2. Init => Log!Init
    BY DEF Init, Log!Init
<1>3. LogInv /\ [Next]_vars => [Log!Next]_(Log!vars)
    <2> SUFFICES ASSUME LogInv, [Next]_vars PROVE Log!Next \/ UNCHANGED Log!vars
        OBVIOUS
    <2>1. CASE UNCHANGED vars
        BY <2>1 DEF vars, Log!vars
    <2>2. ASSUME NEW r \in Runner, RunSteps(r)
          PROVE  Log!Next \/ UNCHANGED Log!vars
        BY <2>2, OneRunSteps, CommitLogs DEF LogInv, IInv, Log!vars
    <2>3. CASE RowsChange
        BY <2>3, RowsChangeAlone DEF Log!vars
    <2> QED BY <2>1, <2>2, <2>3 DEF Next
<1> QED BY <1>1, <1>2, <1>3, LogInvNext, PTL DEF Spec, LogSpec, Log!Spec
=============================================================================
