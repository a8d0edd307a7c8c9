-------------------------------- MODULE StartUp --------------------------------
(***************************************************************************)
(* Instances of the service that start on one settings database: the       *)
(* migrations in their transaction, the load that is tried again until it  *)
(* works, the gate that is closed until then, and a signal at any time.    *)
(* What the calls of a serving instance do is Registry's; here a call is   *)
(* one step.                                                               *)
(***************************************************************************)
EXTENDS Integers, Sequences, FiniteSets

CONSTANTS Instance,      \* processes; each may start again
          Known,         \* instance -> how many migrations its build knows
          Id, Fitting,   \* simulations, and those whose stored row fits the schema
          MaxStarts,     \* starts of all instances together
          MaxOutages,    \* outages of the database
          MaxCalls       \* calls that change a simulation

None == "none"

ASSUME InstanceAssumption == Known \in [Instance -> Nat] /\ None \notin Instance
ASSUME FittingAssumption  == Fitting \subseteq Id

VARIABLES db,            \* committed: the migrations applied, in order, and the rows
          up, lock,      \* can the database be reached; who holds the advisory lock
          pc,            \* where an instance's load stands
          txn, next,     \* migrations of its open transaction; the version it is at
          listed,        \* what its list query read
          ready, stage,  \* the gate; what a signal has come to
          registered,    \* id -> registered and, if on, being started
          alone,         \* has no other instance served since it started?
          starts, outages, calls

load   == <<pc, txn, next, listed>>
shared == <<db, up, lock>>
bounds == <<starts, outages, calls>>
vars   == <<shared, load, ready, stage, registered, alone, bounds>>

Each(v) == [p \in Instance |-> v]
Off(p) == pc[p] = "off"
InTransaction == {"lock", "read", "apply"}
\* A connection of the pool is checked out.
Busy(p) == pc[p] \in InTransaction \cup {"listed", "broken", "exists"}

-----------------------------------------------------------------------------
(* The load, from the pool's connection to the open gate.                  *)

Start(p) ==
  /\ Off(p) /\ starts < MaxStarts
  /\ starts' = starts + 1
  /\ pc' = [pc EXCEPT ![p] = "begin"]
  /\ alone' = [alone EXCEPT ![p] = \A q \in Instance : ~ready[q]]
  /\ UNCHANGED <<shared, txn, next, listed, ready, stage, registered, outages, calls>>

At(p, here, there) == pc[p] = here /\ pc' = [pc EXCEPT ![p] = there]
LoadOnly == UNCHANGED <<ready, stage, registered, alone, bounds>>

\* A pool that ends hands out no connection.
Connects(p) == up /\ stage[p] # "closing"

Begin(p) == /\ At(p, "begin", "lock") /\ Connects(p)
            /\ UNCHANGED <<shared, txn, next, listed>> /\ LoadOnly

\* pg_advisory_xact_lock: two instances starting together take turns.
taken == TRUE
free  == lock = None
Lock(p) == /\ At(p, "lock", "read") /\ free
           /\ lock' = p
           /\ UNCHANGED <<db, up, txn, next, listed>> /\ LoadOnly

\* The schema and the table of versions exist from here on.
firstToApply(version) == version
toApply(version) == version + 1
Read(p) == /\ At(p, "read", "apply")
           /\ next' = [next EXCEPT ![p] = toApply(Len(db.applied))]
           /\ UNCHANGED <<shared, txn, listed>> /\ LoadOnly

\* A statement that creates what another open transaction created waits for it,
\* and fails if it is there already.
Apply(p) ==
  /\ pc[p] = "apply" /\ next[p] <= Known[p]
  /\ \A q \in Instance \ {p} : \A i \in DOMAIN txn[q] : txn[q][i] # next[p]
  /\ IF \E i \in DOMAIN db.applied : db.applied[i] = next[p]
     THEN pc' = [pc EXCEPT ![p] = "exists"] /\ UNCHANGED <<txn, next>>
     ELSE /\ txn' = [txn EXCEPT ![p] = Append(@, next[p])]
          /\ next' = [next EXCEPT ![p] = @ + 1]
          /\ UNCHANGED pc
  /\ UNCHANGED <<shared, listed>> /\ LoadOnly

Release(p) == /\ txn' = [txn EXCEPT ![p] = <<>>] /\ next' = [next EXCEPT ![p] = 1]
              /\ lock' = IF lock = p THEN None ELSE lock

\* COMMIT takes effect; its answer may be lost.
Commit(p, answered) ==
  /\ pc[p] = "apply" /\ next[p] > Known[p]
  /\ pc' = [pc EXCEPT ![p] = IF answered THEN "list" ELSE "broken"]
  /\ db' = [db EXCEPT !.applied = @ \o txn[p]]
  /\ Release(p)
  /\ UNCHANGED <<up, listed>> /\ LoadOnly

\* An error anywhere: rolled back, and tried again after retryDelayMs(attempt).
Fail(p) ==
  /\ \/ pc[p] \in {"broken", "exists"}
     \/ pc[p] \in {"begin", "list"} /\ ~Connects(p)
  /\ pc' = [pc EXCEPT ![p] = "wait"]
  /\ Release(p)
  /\ UNCHANGED <<db, up, listed>> /\ LoadOnly

giveUp   == "wait"
tryAgain == "begin"
Timer(p) == /\ At(p, "wait", tryAgain)
            /\ UNCHANGED <<shared, txn, next, listed>> /\ LoadOnly

\* Registry.resume(): the query is sent ...
List(p) == /\ At(p, "list", "listed") /\ Connects(p)
           /\ listed' = [listed EXCEPT ![p] = db.rows \cap Fitting]
           /\ UNCHANGED <<shared, txn, next>> /\ LoadOnly

\* ... and its answer registered; the gate opens.
Resume(p) ==
  /\ At(p, "listed", "loaded")
  /\ registered' = [registered EXCEPT ![p] = @ \cup listed[p]]
  /\ ready' = [ready EXCEPT ![p] = TRUE]
  /\ alone' = [q \in Instance |-> q = p /\ alone[p]]
  /\ listed' = [listed EXCEPT ![p] = {}]
  /\ UNCHANGED <<shared, txn, next, stage, bounds>>

-----------------------------------------------------------------------------
(* Calls, signals and faults.                                              *)

\* Until the stored simulations are loaded, only the probes answer.  A signal
\* leaves the gate open until the process exits.
openGate(p) == ~Off(p)
Gate(p)     == ready[p]

\* A call that changes a simulation; one that finds the database away or the pool
\* ended is refused and leaves everything as it was.
Change(p, id, put) ==
  /\ Gate(p) /\ calls < MaxCalls /\ Connects(p)
  /\ put \/ id \in registered[p]
  /\ calls' = calls + 1
  /\ registered' = [registered EXCEPT ![p] = IF put THEN @ \cup {id} ELSE @ \ {id}]
  /\ db' = [db EXCEPT !.rows = IF put THEN @ \cup {id} ELSE @ \ {id}]
  /\ UNCHANGED <<up, lock, load, ready, stage, alone, starts, outages>>
Call(p) == \E id \in Fitting, put \in BOOLEAN : Change(p, id, put)

\* SIGTERM: shutdown() stops and forgets what is registered ...
Signal(p) ==
  /\ ~Off(p) /\ stage[p] = "serving"
  /\ stage' = [stage EXCEPT ![p] = "stopping"]
  /\ UNCHANGED <<shared, load, ready, registered, alone, bounds>>

\* ... then the pool ends,
Shutdown(p) ==
  /\ stage[p] = "stopping"
  /\ stage' = [stage EXCEPT ![p] = "closing"]
  /\ registered' = [registered EXCEPT ![p] = {}]
  /\ UNCHANGED <<shared, load, ready, alone, bounds>>

Exit(p) ==
  /\ pc' = [pc EXCEPT ![p] = "off"]
  /\ listed' = [listed EXCEPT ![p] = {}]
  /\ ready' = [ready EXCEPT ![p] = FALSE] /\ stage' = [stage EXCEPT ![p] = "serving"]
  /\ registered' = [registered EXCEPT ![p] = {}]
  /\ alone' = [alone EXCEPT ![p] = FALSE]
  /\ Release(p)
  /\ UNCHANGED <<db, up, bounds>>

\* ... and once its connections came back and the listener is closed, it exits.
onceLoaded(p) == pc[p] = "loaded"
PoolEnded(p)  == ~Busy(p)
Closed(p) == stage[p] = "closing" /\ PoolEnded(p) /\ Exit(p)
Crash(p)  == ~Off(p) /\ Exit(p)

\* The database goes away: its transactions are rolled back.
Outage ==
  /\ up /\ outages < MaxOutages
  /\ up' = FALSE /\ outages' = outages + 1
  /\ lock' = None /\ txn' = Each(<<>>) /\ next' = Each(1)
  /\ pc' = [p \in Instance |-> IF Busy(p) THEN "broken" ELSE pc[p]]
  /\ UNCHANGED <<db, listed, ready, stage, registered, alone, starts, calls>>
Back == ~up /\ up' = TRUE
        /\ UNCHANGED <<db, lock, load, ready, stage, registered, alone, bounds>>

-----------------------------------------------------------------------------
Init ==
  /\ \/ db = [applied |-> <<>>, rows |-> {}]
     \/ db = [applied |-> <<1>>, rows |-> Id]
  /\ up = TRUE /\ lock = None
  /\ pc = Each("off") /\ txn = Each(<<>>) /\ next = Each(1) /\ listed = Each({})
  /\ ready = Each(FALSE) /\ stage = Each("serving") /\ registered = Each({})
  /\ alone = Each(FALSE)
  /\ starts = 0 /\ outages = 0 /\ calls = 0

Load(p) == \/ Begin(p) \/ Lock(p) \/ Read(p) \/ Apply(p) \/ \E answered \in BOOLEAN : Commit(p, answered)
           \/ Fail(p) \/ Timer(p) \/ List(p) \/ Resume(p)
Stop(p) == Shutdown(p) \/ Closed(p)

Next == \/ \E p \in Instance : Start(p) \/ Load(p) \/ Call(p) \/ Signal(p) \/ Stop(p) \/ Crash(p)
        \/ Outage \/ Back

Spec == Init /\ [][Next]_vars

\* Statements are answered and timers fire; the database comes back, and an
\* answer that is not lost time after time arrives.
FairSpec == /\ Spec /\ WF_vars(Back)
            /\ \A p \in Instance : /\ WF_vars(Load(p)) /\ WF_vars(Stop(p))
                                   /\ SF_vars(Commit(p, TRUE))

-----------------------------------------------------------------------------
\* Every instance is at a known place, and the lock is held inside a transaction.
TypeOK ==
  /\ db.rows \subseteq Id /\ up \in BOOLEAN
  /\ \A p \in Instance :
       /\ pc[p] \in {"off", "begin", "wait", "list", "listed", "loaded", "broken", "exists"} \cup InTransaction
       /\ stage[p] \in {"serving", "stopping", "closing"}
       /\ registered[p] \subseteq Id
       /\ ready[p] <=> pc[p] = "loaded"
  /\ lock # None => pc[lock] \in InTransaction \ {"lock"}

\* "Each migration once, in order": whatever crashes, outages, lost answers and
\* instances of different builds come together, the database holds a prefix.
AppliedInOrder == \A i \in DOMAIN db.applied : db.applied[i] = i

\* "Two instances starting together take turns": a start never fails over a
\* migration that another instance has applied.
NeverTwice == \A p \in Instance : pc[p] # "exists"

\* An instance that has the database to itself serves exactly what is stored and
\* still fits: nothing is forgotten by a restart, nothing deleted comes back, also
\* in calls after a signal.  Once shutdown() has forgotten its simulations
\* (registry.ts:219) and until the listener is closed, calls are still answered
\* (index.ts:45-51); then some or all are missing, but none is served that is
\* not stored.
ServesWhatIsStored ==
  \A p \in Instance :
    ready[p] /\ alone[p] =>
      \/ registered[p] = db.rows \cap Fitting
      \/ /\ stage[p] = "closing"
         /\ registered[p] \subseteq db.rows \cap Fitting

\* A started instance serves, unless it is stopped or dies.
StartedServes ==
  \A p \in Instance : pc[p] = "begin" ~> ready[p] \/ stage[p] # "serving" \/ Off(p)

\* A signalled instance exits, wherever its load stands.
SignalledExits == \A p \in Instance : stage[p] = "stopping" ~> Off(p)
=============================================================================
