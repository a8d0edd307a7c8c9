--------------------------- MODULE SqlSimulation ---------------------------
(***************************************************************************)
(* A SQL simulation at work: startSql() and its ticks (src/src/registry.ts),*)
(* the writer's statements (src/src/sql-writer.ts), the counter behind a   *)
(* primary key of kind `sequence` (src/src/generators.ts), and the table.  *)
(*                                                                         *)
(* The versions are the simulation objects that write to the one table: one *)
(* after another when a simulation is paused, resumed or restarted, and two *)
(* at once while put() replaces one by the other.  Registry tells when they *)
(* start and stop; here the question is what they do to the rows.          *)
(*                                                                         *)
(* A row is its key: an INSERT of a key that exists overwrites the row (ON *)
(* CONFLICT DO UPDATE), which a set of keys shows as a row too few.        *)
(***************************************************************************)
EXTENDS Naturals, FiniteSets

CONSTANTS
    Version,         \* simulation objects
    Query,           \* the writes of one version that may be in flight; a bound
    MaxRows,         \* scenario.maxRows
    SeedRows,        \* scenario.seedRows
    InsertsPerTick,  \* scenario.insertsPerTick
    Filling,         \* the versions with scenario.cadence = "fillToLimit"
    ChunkSize,       \* rowsPerStatement()
    FirstKey,        \* spec.start of the sequence
    FirstRows,       \* what the table may hold at first
    Overlap,         \* may a tick begin while another of its version is in flight?
    Beside,          \* stages in which a version that starts may find the others
    Uncounted,       \* may a write take effect and never be counted?
    MaxTrouble       \* bound: failures, crashes and samples

ASSUME SizesAssumption ==
    /\ MaxRows \in Nat \ {0} /\ ChunkSize \in Nat \ {0}
    /\ SeedRows \in Nat /\ InsertsPerTick \in Nat /\ FirstKey \in Nat /\ MaxTrouble \in Nat
    /\ Filling \subseteq Version /\ Beside \subseteq {"off", "on"}
    /\ Query # {} /\ IsFiniteSet(Query)

ASSUME TableAssumption == \A rows \in FirstRows : rows \subseteq Nat /\ IsFiniteSet(rows)

VARIABLES
    table,   \* the keys of the rows
    sim,     \* the fields of each version, and where its start or its stop is
    work,    \* the writes in flight: where they await, and which keys are left
    trouble  \* counts what MaxTrouble bounds

vars == <<table, sim, work, trouble>>

Stage == {"off", "starting", "counting", "seeding", "on", "closing"}
Step  == {"idle", "writing", "counting", "counted"}

Sim  == [stage : Stage, next : Nat, rowCount : Nat, atCap : BOOLEAN, failed : BOOLEAN]
Work == [step : Step, from : Nat, to : Nat, seen : Nat]

NoWork == [step |-> "idle", from |-> 0, to |-> 0, seen |-> 0]
Unused == [stage |-> "off", next |-> 0, rowCount |-> 0, atCap |-> FALSE, failed |-> FALSE]

Starting(v) == sim[v].stage \in {"starting", "counting", "seeding"}
Quiet(v)    == \A q \in Query : work[v][q].step = "idle"
Rows        == Cardinality(table)

-----------------------------------------------------------------------------
(* writeRows()                                                             *)

Least(a, b) == IF a < b THEN a ELSE b

\* Math.max(0, a - b)
Minus(a, b) == IF a < b THEN 0 ELSE a - b

\* Mutations of Room: the limit is taken as the number of rows still to come; the
\* last place is not used.
RoomForAll(s) == MaxRows
LeavesOne(s) == Minus(MaxRows, s.rowCount + 1)

\* What a write may add, by the count the version has.
Room(s) == Minus(MaxRows, s.rowCount)

\* The rows are rendered before the first statement: their keys are used up.
Rendered(s, count) ==
    [s EXCEPT !.atCap = (Room(s) = 0), !.next = @ + Least(count, Room(s))]
Writing(s, count) ==
    IF Least(count, Room(s)) = 0 THEN NoWork
    ELSE [step |-> "writing", from |-> s.next, to |-> s.next + Least(count, Room(s)) - 1, seen |-> 0]

\* One statement of write().
Chunk(w) == w.from .. Least(w.to, w.from + ChunkSize - 1)

\* Mutation of AfterInsert: an ended pool is tried again and again.
TriesAgain(w, ended) == IF ended THEN w ELSE [w EXCEPT !.step = "counting"]

\* Once it is answered: the next statement, or the count; an ended pool takes none.
AfterInsert(w, ended) ==
    IF ended THEN NoWork
    ELSE IF Chunk(w) = w.from .. w.to THEN [w EXCEPT !.step = "counting"]
    ELSE [w EXCEPT !.from = @ + ChunkSize]

\* Mutation of Recorded: a count below the cap leaves atCap as it was.
KeepsAtCap(s, n) == [s EXCEPT !.rowCount = n, !.failed = FALSE, !.atCap = s.atCap]

\* The count is back: rowCount, atCap, and recordSuccess() clears lastError.
Recorded(s, n) == [s EXCEPT !.rowCount = n, !.atCap = (n >= MaxRows), !.failed = FALSE]

\* start() goes on after startSql(): a seed that is done leaves a running version.
SetOn(s) == IF s.stage = "seeding" THEN [s EXCEPT !.stage = "on"] ELSE s

\* A failed seed is fatal to the start, a failed tick is recorded.
Failed(s) == IF s.stage = "seeding" THEN [s EXCEPT !.stage = "closing"] ELSE [s EXCEPT !.failed = TRUE]

-----------------------------------------------------------------------------
(* startSql()                                                              *)

\* The registry starts a version: a fresh one, or the same one resumed.
Start(v) ==
    /\ sim[v].stage = "off"
    /\ \A u \in Version \ {v} : sim[u].stage \in Beside
    /\ sim' = [sim EXCEPT ![v].stage = "starting"]
    /\ UNCHANGED <<table, work, trouble>>

\* Mutations of NextKey: the counter restarts, or repeats the last key.
NotReadBack == FirstKey
RepeatsLast == IF table = {} THEN FirstKey ELSE CHOOSE k \in table : \A i \in table : i <= k

\* maxSequence(): the series goes on after the highest key in the table.
NextKey == IF table = {} THEN FirstKey ELSE (CHOOSE k \in table : \A i \in table : i <= k) + 1

\* The table exists, the counter is read back and the scenario compiled.
ReadCounters(v) ==
    /\ sim[v].stage = "starting"
    /\ sim' = [sim EXCEPT ![v].stage = "counting", ![v].next = NextKey]
    /\ UNCHANGED <<table, work, trouble>>

\* The rows a version starts with.
Wanted(v) == IF v \in Filling THEN MaxRows ELSE SeedRows

\* Top up rather than append.
Missing(v, rowsAtStart) == Minus(Wanted(v), rowsAtStart)

\* rowsAtStart is counted, and the missing rows are written, or there are none.
CountAtStart(v) ==
    /\ sim[v].stage = "counting"
    /\ LET counted == [sim[v] EXCEPT !.rowCount = Rows, !.atCap = (Rows >= MaxRows), !.failed = FALSE]
           write   == Writing(counted, Missing(v, Rows))
       IN  \E q \in Query :
             /\ work[v][q].step = "idle"
             /\ work' = [work EXCEPT ![v][q] = write]
             /\ sim' = [sim EXCEPT ![v] =
                          [Rendered(counted, Missing(v, Rows)) EXCEPT
                             !.stage = IF write = NoWork THEN "on" ELSE "seeding"]]
    /\ UNCHANGED <<table, trouble>>

\* Connecting, creating the table or reading from it fails.
StartFails(v) ==
    /\ sim[v].stage \in {"starting", "counting"}
    /\ trouble < MaxTrouble /\ trouble' = trouble + 1
    /\ sim' = [sim EXCEPT ![v].stage = "closing"]
    /\ UNCHANGED <<table, work>>

-----------------------------------------------------------------------------
(* Ticks and statements                                                    *)

\* The interval fires, whether the last write is answered or not.
Tick(v, q) ==
    /\ sim[v].stage = "on" /\ v \notin Filling
    /\ work[v][q].step = "idle" /\ (Overlap \/ Quiet(v))
    /\ sim' = [sim EXCEPT ![v] = Rendered(@, InsertsPerTick)]
    /\ work' = [work EXCEPT ![v][q] = Writing(sim[v], InsertsPerTick)]
    /\ UNCHANGED <<table, trouble>>

\* A statement is applied and answered.
Insert(v, q) ==
    /\ work[v][q].step = "writing"
    /\ table' = table \cup Chunk(work[v][q])
    /\ LET after == AfterInsert(work[v][q], sim[v].stage = "closing")
       IN  /\ work' = [work EXCEPT ![v][q] = after]
           /\ sim' = [sim EXCEPT ![v] = IF after = NoWork THEN Failed(@) ELSE @]
    /\ UNCHANGED trouble

\* countRows() is executed, and its answer arrives.
CountRows(v, q) ==
    /\ work[v][q].step = "counting"
    /\ work' = [work EXCEPT ![v][q] = [@ EXCEPT !.step = "counted", !.seen = Rows]]
    /\ UNCHANGED <<table, sim, trouble>>

Counted(v, q) ==
    /\ work[v][q].step = "counted"
    /\ sim' = [sim EXCEPT ![v] = SetOn(Recorded(@, work[v][q].seen))]
    /\ work' = [work EXCEPT ![v][q] = NoWork]
    /\ UNCHANGED <<table, trouble>>

\* A statement is refused: the rest of the write is given up.  Its answer may be
\* lost as well after it took effect, and the count after a write may fail.
QueryFails(v, q) ==
    /\ trouble < MaxTrouble /\ trouble' = trouble + 1
    /\ \/ work[v][q].step = "writing" /\ UNCHANGED table
       \/ Uncounted /\ work[v][q].step = "writing" /\ table' = table \cup Chunk(work[v][q])
       \/ Uncounted /\ work[v][q].step = "counting" /\ UNCHANGED table
    /\ work' = [work EXCEPT ![v][q] = NoWork]
    /\ sim' = [sim EXCEPT ![v] = Failed(@)]

\* sample() renders with the live generators: "render without publishing" uses
\* up keys.
Sample(v) ==
    /\ sim[v].stage = "on"
    /\ trouble < MaxTrouble /\ trouble' = trouble + 1
    /\ sim' = [sim EXCEPT ![v].next = @ + 1]
    /\ UNCHANGED <<table, work>>

-----------------------------------------------------------------------------
(* teardown()                                                              *)

\* Switched off, removed, replaced - or new, and not stored.  The queue of the
\* id lets it happen only when no version is starting.
Stop(v) ==
    /\ sim[v].stage = "on"
    /\ \A u \in Version : ~Starting(u)
    /\ sim' = [sim EXCEPT ![v].stage = "closing"]
    /\ UNCHANGED <<table, work, trouble>>

\* pool.end() waits for the statements that were sent.
Closed(v) ==
    /\ sim[v].stage = "closing"
    /\ Quiet(v)
    /\ sim' = [sim EXCEPT ![v].stage = "off"]
    /\ UNCHANGED <<table, work, trouble>>

\* The process is gone; a statement in flight has taken effect or never will.
Crash ==
    /\ trouble < MaxTrouble /\ trouble' = trouble + 1
    /\ sim' = [v \in Version |-> Unused]
    /\ work' = [v \in Version |-> [q \in Query |-> NoWork]]
    /\ UNCHANGED table

-----------------------------------------------------------------------------
Init ==
    /\ table \in FirstRows
    /\ sim = [v \in Version |-> Unused]
    /\ work = [v \in Version |-> [q \in Query |-> NoWork]]
    /\ trouble = 0

\* What a version does by itself once it was started or stopped.
Runs(v) ==
    \/ ReadCounters(v) \/ CountAtStart(v) \/ Closed(v)
    \/ \E q \in Query : Tick(v, q) \/ Insert(v, q) \/ CountRows(v, q) \/ Counted(v, q)

Next ==
    \/ \E v \in Version : Start(v) \/ Runs(v) \/ StartFails(v) \/ Sample(v) \/ Stop(v)
    \/ \E v \in Version, q \in Query : QueryFails(v, q)
    \/ Crash

Spec == Init /\ [][Next]_vars

\* Timers fire, statements are answered.  With MaxTrouble, failures end some day.
Fairness ==
    \A v \in Version :
        /\ WF_vars(ReadCounters(v)) /\ WF_vars(CountAtStart(v)) /\ WF_vars(Closed(v))
        /\ \A q \in Query :
            /\ WF_vars(Tick(v, q))
            /\ WF_vars(Insert(v, q)) /\ WF_vars(CountRows(v, q)) /\ WF_vars(Counted(v, q))

FairSpec == Spec /\ Fairness

-----------------------------------------------------------------------------
(* Properties                                                              *)

TypeOK ==
    /\ table \subseteq Nat
    /\ sim \in [Version -> Sim]
    /\ work \in [Version -> [Query -> Work]]
    /\ trouble \in 0 .. MaxTrouble

\* "Then insertsPerTick per tick, up to maxRows" (README): a table is never
\* filled beyond the limit, whatever it held at first.
UpToMaxRows == table \in FirstRows \/ Rows <= MaxRows

\* Ticks that overlap, counts that are answered late and writes whose answer was
\* lost may exceed the limit, but not without end.  With n writes in flight at most
\* n - 1 counts are late when the limit is reached; each, once it is recorded, lets
\* all that are idle by then write once more.  A lost answer lets one tick more.
LateTicks == (Cardinality(Query) * (Cardinality(Query) + 1)) \div 2 - 1
OvershootIsBounded ==
    \/ table \in FirstRows
    \/ Rows <= MaxRows + InsertsPerTick * (LateTicks + trouble)

\* "Mints unique keys": no statement overwrites a row, over restarts, failed
\* writes and samples.
NothingOverwritten ==
    [][\A v \in Version, q \in Query :
         Insert(v, q) => Chunk(work[v][q]) \cap table = {}]_vars

\* "Says so when the table is already full, instead of looking healthy": a
\* status with no error and no write in flight is true of the table.
StatusIsTrue ==
    \A v \in Version :
        sim[v].stage = "on" /\ ~sim[v].failed /\ Quiet(v) =>
            sim[v].rowCount = Rows /\ sim[v].atCap = (Rows >= MaxRows)

\* "Never empty": a start that succeeds leaves the rows it promises.
SeedsSuffice ==
    [][\A v \in Version :
         Starting(v) /\ sim'[v].stage = "on" =>
            Cardinality(table') >= Least(MaxRows, Wanted(v))]_vars

\* A running simulation fills its table, unless it is stopped.
FillsUp ==
    \A v \in Version : sim[v].stage = "on" ~> Rows >= MaxRows \/ sim[v].stage # "on"

\* Writes in flight do not keep a teardown waiting for ever (Registry relies on
\* close() to resolve).
StopCompletes ==
    \A v \in Version : sim[v].stage = "closing" ~> sim[v].stage = "off"
=============================================================================
