------------------------------ MODULE Registry ------------------------------
(***************************************************************************)
(* The registry of the simulation generator (src/src/registry.ts), the     *)
(* start-up and signal handling around it (src/src/index.ts) and the       *)
(* database it keeps its settings in (src/src/store.ts).                   *)
(*                                                                         *)
(* Every change to one simulation (a PUT, a DELETE, a switch on or off, a  *)
(* retried start) goes through a queue per id, `pending`, whose head is    *)
(* the change that runs.  Wherever the code awaits a connection or the     *)
(* database the running change stops at a stage, and anything else may     *)
(* happen before it goes on: a step of another id, a call that joins the   *)
(* queue, a retry timer, SIGTERM, a crash.                                 *)
(*                                                                         *)
(* A simulation is an OBJECT, not an id: a replacement is a new object     *)
(* under the old id, and the code compares objects to tell a stale retry.  *)
(* Objects and connections are therefore numbered per id, by Slot.         *)
(***************************************************************************)
EXTENDS Naturals, Sequences, FiniteSets

CONSTANTS
    Id,              \* the simulation ids callers use
    Version,         \* the configurations a caller may register
    SqlVersion,      \* those that write to a database; the others speak MQTT
    FillVersion,     \* SQL with cadence fillToLimit: no timer once started
    Outdated,        \* stored versions that today's schema refuses
    Slot,            \* numbers the objects and the connections of one id
    MaxSimulations,  \* MAX_SIMULATIONS
    MaxPending,      \* bound: the longest queue that still takes an API call
    FirstStores,     \* what the database may hold when the service first starts
    LostReplies,     \* may a write reach the database and its answer get lost?
    MayRestart,      \* may the process crash, or exit and be started again?
    LateCalls,       \* may API calls still arrive after the signal?
    None             \* null

Input == [version : Version, enabled : BOOLEAN]
Sim   == Id \X Slot          \* Simulation objects, each owned by its id
Conn  == Id \X Slot          \* connections: an MQTT client or a pg pool
Own(id) == {id} \X Slot
Maybe(S) == S \cup {None}

Kind   == {"put", "remove", "switchOn", "switchOff", "retry"}
Stage  == {"idle", "starting", "preparing", "saving", "committed", "undoing", "releasing"}
Phase  == {"loading", "ready", "stopping", "closing", "stopped"}

\* list(): a row that no longer fits today's format is skipped, not deleted.
Readable(row) == row # None /\ row.version \notin Outdated

NoChange(kind) == [kind |-> kind, input |-> None, sim |-> None]
PutOf(i)       == [NoChange("put") EXCEPT !.input = i]
RetryOf(s)     == [NoChange("retry") EXCEPT !.sim = s]

\* The changes an API call can ask for (routes of index.ts).  The schema is
\* checked first, so no caller registers an outdated version.
Calls ==
    {PutOf(i) : i \in {j \in Input : Readable(j)}}
        \cup {NoChange(k) : k \in {"remove", "switchOn", "switchOff"}}

\* What waits in a queue: calls, and starts that resume() or a retry timer queued.
Change == Calls \cup {RetryOf(s) : s \in Sim}

\* A running change: where it awaits, its local `simulation`, put's `existing`.
Job == [stage : Stage, sim : Maybe(Sim), old : Maybe(Sim)]

\* interface Simulation: the fields input, publisher or writer, timer, retry;
\* ticking is how many intervals node really runs for the object.
Object ==
    [input : Maybe(Input), link : Maybe(Conn), timer : BOOLEAN, retry : BOOLEAN, ticking : Nat]

Idle  == [stage |-> "idle", sim |-> None, old |-> None]
Blank == [input |-> None, link |-> None, timer |-> FALSE, retry |-> FALSE, ticking |-> 0]

ASSUME SlotAssumption == Slot # {}

ASSUME VersionsAssumption ==
    SqlVersion \subseteq Version /\ FillVersion \subseteq SqlVersion /\ Outdated \subseteq Version

ASSUME NoneAssumption == None \notin Sim \cup Input

ASSUME BoundsAssumption ==
    /\ IsFiniteSet(Id)
    /\ MaxSimulations \in Nat /\ MaxPending \in Nat
    /\ FirstStores \subseteq [Id -> Maybe(Input)]

VARIABLES
    simulations,  \* id -> the registered object, or None
    pending,      \* id -> the queue of changes; its head is the running one
    job,          \* id -> the state of the running change
    object,       \* the fields of every simulation object
    open,         \* the connections that are really open
    store,        \* id -> the row of the settings database, or None
    phase,        \* what the process as a whole is doing
    awaited,      \* id -> how many changes a shutdown still waits for
    closing       \* <<object, connection>> pairs a shutdown is closing

queueVars == <<pending, job, awaited>>
vars == <<simulations, queueVars, object, open, store, phase, closing>>

TypeOK ==
    /\ simulations \in [Id -> Maybe(Sim)]
    /\ pending \in [Id -> Seq(Change)]
    /\ job \in [Id -> Job]
    /\ object \in [Sim -> Object]
    /\ open \subseteq Conn
    /\ store \in [Id -> Maybe(Input)]
    /\ phase \in Phase
    /\ awaited \in [Id -> Nat]
    /\ closing \subseteq Sim \X Maybe(Conn)

Alive      == phase \in {"ready", "stopping", "closing"}
Registered == {id \in Id : simulations[id] # None}

\* Mutation of HasRoom: the cap counts what is stored, not what is registered.
RoomInStore(id) == simulations[id] # None \/ Cardinality({i \in Id : store[i] # None}) < MaxSimulations

\* A new id needs room under the cap.
HasRoom(id) == simulations[id] # None \/ Cardinality(Registered) < MaxSimulations
Changing(id) == Head(pending[id]).kind  \* what the running change is

\* What list() makes of the row of id.
Listed(id) == IF Readable(store[id]) THEN store[id] ELSE None

\* Object and connection numbers that nothing refers to any more.
FreeSims(id) ==
    {s \in Own(id) :
        /\ object[s].link = None /\ ~object[s].retry /\ object[s].ticking = 0
        /\ s \notin {simulations[id], job[id].sim, job[id].old}
        /\ \A i \in DOMAIN pending[id] : pending[id][i].sim # s
        /\ \A p \in closing : p[1] # s}
FreeConns(id) ==
    {c \in Own(id) \ open : \A s \in Sim : object[s].link # c /\ <<s, c>> \notin closing}
NewSim(id)  == CHOOSE s \in FreeSims(id) : TRUE
NewConn(id) == CHOOSE c \in FreeConns(id) : TRUE

-----------------------------------------------------------------------------
(* queue(): one change per simulation at a time                            *)

\* A change of one of these kinds is next and nothing of its id runs.
MayBegin(id, kinds) ==
    /\ Alive
    /\ job[id].stage = "idle"
    /\ pending[id] # <<>>
    /\ Changing(id) \in kinds

At(id, stages) == Alive /\ job[id].stage \in stages

\* It binds its locals and runs to its first await...
Begin(id, sim, old, stage) ==
    /\ job' = [job EXCEPT ![id] = [stage |-> stage, sim |-> sim, old |-> old]]
    /\ UNCHANGED <<pending, awaited>>

\* ...goes on to its next await...
Await(id, stage) ==
    /\ job' = [job EXCEPT ![id].stage = stage]
    /\ UNCHANGED <<pending, awaited>>

\* ...and settles, well or badly: the next in the queue may begin.
Settle(id) ==
    /\ pending' = [pending EXCEPT ![id] = Tail(@)]
    /\ job' = [job EXCEPT ![id] = Idle]
    /\ awaited' = [awaited EXCEPT ![id] = IF @ > 0 THEN @ - 1 ELSE 0]

\* A PUT, DELETE or switch request passes the ready gate and joins the queue.
Call(id, change) ==
    /\ phase = "ready" \/ (LateCalls /\ phase \in {"stopping", "closing"})
    /\ Len(pending[id]) < MaxPending
    /\ pending' = [pending EXCEPT ![id] = Append(@, change)]
    /\ UNCHANGED <<simulations, job, awaited, object, open, store, phase, closing>>

\* A change that finds nothing to do, or is refused by the cap.
Moot(id) ==
    /\ MayBegin(id, Kind)
    /\ LET s == simulations[id]
       IN  \/ Changing(id) = "put" /\ ~HasRoom(id)
           \/ Changing(id) \in {"remove", "switchOn", "switchOff"} /\ s = None
           \/ Changing(id) = "switchOn" /\ s # None /\ object[s].input.enabled
           \/ Changing(id) = "switchOff" /\ s # None /\ ~object[s].input.enabled
           \/ Changing(id) = "retry" /\ s # Head(pending[id]).sim
           \/ Changing(id) = "retry" /\ s = Head(pending[id]).sim /\ ~object[s].input.enabled
    /\ Settle(id)
    /\ UNCHANGED <<simulations, object, open, store, phase, closing>>

-----------------------------------------------------------------------------
(* teardown(): its timers go at once, its connection when close() resolves *)

\* Mutations of Stopped: a retry survives; the interval survives; an interval
\* is counted off though none was set.
KeepsRetry(o)    == [o EXCEPT !.timer = FALSE, !.ticking = IF o.timer THEN @ - 1 ELSE @]
KeepsInterval(o) == [o EXCEPT !.timer = FALSE, !.retry = FALSE]
CountsTwice(o)   == [o EXCEPT !.timer = FALSE, !.retry = FALSE, !.ticking = @ - 1]

Stopped(o) ==
    [o EXCEPT !.timer = FALSE, !.retry = FALSE, !.ticking = IF o.timer THEN @ - 1 ELSE @]

StopTimers(s) == object' = [object EXCEPT ![s] = Stopped(@)] /\ UNCHANGED open

\* Mutations of Disconnect: close() is forgotten; close() never resolves when
\* there is nothing to close.
Unclosed(s, after) == UNCHANGED open /\ object' = [object EXCEPT ![s] = [after EXCEPT !.link = None]]
ClosesLinked(s, after) ==
    /\ object[s].link # None
    /\ open' = open \ {object[s].link}
    /\ object' = [object EXCEPT ![s] = [after EXCEPT !.link = None]]

\* The teardown of s is over, which leaves the object as `after`.
Disconnect(s, after) ==
    /\ open' = open \ {object[s].link}
    /\ object' = [object EXCEPT ![s] = [after EXCEPT !.link = None]]

Forgotten(o) == [o EXCEPT !.input = None]
NotRetried(o) == o  \* mutation of Retried
Retried(o)   == [o EXCEPT !.retry = TRUE]

-----------------------------------------------------------------------------
(* A change begins                                                         *)

\* "Stored once it runs": what is enabled starts before it is saved.
SavesFirst(i) == "saving"  \* mutation of FirstStage
FirstStage(i) == IF i.enabled THEN "starting" ELSE "saving"

\* put(): a new id is registered before the first await, a replacement is not.
BeginPut(id) ==
    /\ MayBegin(id, {"put"})
    /\ HasRoom(id)
    /\ FreeSims(id) # {}
    /\ LET new == NewSim(id)
           i == Head(pending[id]).input
       IN  /\ Begin(id, new, simulations[id], FirstStage(i))
           /\ object' = [object EXCEPT ![new] = [Blank EXCEPT !.input = i]]
           /\ simulations' = [simulations EXCEPT ![id] = IF @ = None THEN new ELSE @]
    /\ UNCHANGED <<open, store, phase, closing>>

\* remove() and setEnabled(id, false): the database first.
BeginStop(id) ==
    /\ MayBegin(id, {"remove", "switchOff"})
    /\ simulations[id] # None
    /\ Changing(id) = "switchOff" => object[simulations[id]].input.enabled
    /\ Begin(id, simulations[id], None, "saving")
    /\ UNCHANGED <<simulations, object, open, store, phase, closing>>

\* setEnabled(id, true) connects before anything is marked enabled;
\* startOrRetry() starts only what is still this object, and enabled.
BeginStart(id) ==
    /\ MayBegin(id, {"switchOn", "retry"})
    /\ simulations[id] # None
    /\ Changing(id) = "retry" => simulations[id] = Head(pending[id]).sim
    /\ object[simulations[id]].input.enabled = (Changing(id) = "retry")
    /\ Begin(id, simulations[id], None, "starting")
    /\ UNCHANGED <<simulations, object, open, store, phase, closing>>

-----------------------------------------------------------------------------
(* start()                                                                 *)

\* What follows a start: put and switch_on store it, a retry is done.
Started(id) == IF Changing(id) = "retry" THEN Settle(id) ELSE Await(id, "saving")

\* setInterval(); a timer that was set already is overwritten, not cleared.
Armed(o) == [o EXCEPT !.timer = TRUE, !.ticking = @ + 1]

\* createPublisher() or createSqlWriter() resolved: the field is overwritten
\* with the new connection.  MQTT then starts ticking, SQL prepares its table.
Connected(id) ==
    /\ At(id, {"starting"})
    /\ FreeConns(id) # {}
    /\ open' = open \cup {NewConn(id)}
    /\ LET s == job[id].sim
           linked == [object[s] EXCEPT !.link = NewConn(id)]
       IN  \/ /\ object[s].input.version \in SqlVersion
              /\ object' = [object EXCEPT ![s] = linked]
              /\ Await(id, "preparing")
           \/ /\ object[s].input.version \notin SqlVersion
              /\ object' = [object EXCEPT ![s] = Armed(linked)]
              /\ Started(id)
    /\ UNCHANGED <<simulations, store, phase, closing>>

\* The table exists, the counters are read back and the seed rows written.
Prepared(id) ==
    /\ At(id, {"preparing"})
    /\ object' = [object EXCEPT ![job[id].sim] =
                    IF @.input.version \in FillVersion THEN @ ELSE Armed(@)]
    /\ Started(id)
    /\ UNCHANGED <<simulations, open, store, phase, closing>>

\* The start rejects: teardown of what it opened begins.
StartFailed(id) ==
    /\ At(id, {"starting", "preparing"})
    /\ StopTimers(job[id].sim)
    /\ Await(id, "undoing")
    /\ UNCHANGED <<simulations, store, phase, closing>>

-----------------------------------------------------------------------------
(* The database                                                            *)

\* Mutation of Written: a switch saves the input as it is.
WritesUnswitched(id) ==
    CASE Changing(id) = "put"    -> Head(pending[id]).input
      [] Changing(id) = "remove" -> None
      [] OTHER                   -> object[job[id].sim].input

\* The row the running change leaves: save() writes it, remove() deletes it.
Written(id) ==
    CASE Changing(id) = "put"       -> Head(pending[id]).input
      [] Changing(id) = "remove"    -> None
      [] Changing(id) = "switchOn"  -> [object[job[id].sim].input EXCEPT !.enabled = TRUE]
      [] Changing(id) = "switchOff" -> [object[job[id].sim].input EXCEPT !.enabled = FALSE]

\* The statement takes effect in the database; its answer is on the way.
Commit(id) ==
    /\ At(id, {"saving"})
    /\ store' = [store EXCEPT ![id] = Written(id)]
    /\ Await(id, "committed")
    /\ UNCHANGED <<simulations, object, open, phase, closing>>

\* The statement is refused, or its answer is lost after it took effect: the
\* code cannot tell.  A version just started is torn down; a remove or a
\* switch off leaves the simulation as it is.
SaveFailed(id) ==
    /\ At(id, {"saving"}) \/ (LostReplies /\ At(id, {"committed"}))
    /\ \/ /\ Changing(id) \in {"put", "switchOn"}
          /\ StopTimers(job[id].sim)
          /\ Await(id, "undoing")
       \/ /\ Changing(id) \in {"remove", "switchOff"}
          /\ Settle(id)
          /\ UNCHANGED <<object, open>>
    /\ UNCHANGED <<simulations, store, phase, closing>>

\* put() after its save: the new object takes the id, the old one is stopped.
PutSaved(id) ==
    /\ At(id, {"committed"})
    /\ Changing(id) = "put"
    /\ simulations' = [simulations EXCEPT ![id] = job[id].sim]
    /\ \/ /\ job[id].old = None
          /\ Settle(id)
          /\ UNCHANGED <<object, open>>
       \/ /\ job[id].old # None
          /\ StopTimers(job[id].old)
          /\ Await(id, "releasing")
    /\ UNCHANGED <<store, phase, closing>>

SwitchOnSaved(id) ==
    /\ At(id, {"committed"})
    /\ Changing(id) = "switchOn"
    /\ object' = [object EXCEPT ![job[id].sim].input.enabled = TRUE]
    /\ Settle(id)
    /\ UNCHANGED <<simulations, open, store, phase, closing>>

\* setEnabled(id, false) and remove() after their write: teardown begins.
StopSaved(id) ==
    /\ At(id, {"committed"})
    /\ LET s == job[id].sim
       IN  \/ /\ Changing(id) = "remove"
              /\ StopTimers(s)
           \/ /\ Changing(id) = "switchOff"
              /\ object' = [object EXCEPT ![s] = [Stopped(@) EXCEPT !.input.enabled = FALSE]]
              /\ UNCHANGED open
    /\ Await(id, "releasing")
    /\ UNCHANGED <<simulations, store, phase, closing>>

-----------------------------------------------------------------------------
(* The end of a change                                                     *)

\* The teardown of a failed start or save is over.  A new id is forgotten; a
\* failed retry sets its timer; a failed switch on stays registered, paused.
Undone(id) ==
    /\ At(id, {"undoing"})
    /\ \/ Changing(id) = "put" /\ Disconnect(job[id].sim, Forgotten(object[job[id].sim]))
       \/ Changing(id) = "switchOn" /\ Disconnect(job[id].sim, object[job[id].sim])
       \/ Changing(id) = "retry" /\ Disconnect(job[id].sim, Retried(object[job[id].sim]))
    /\ simulations' = [simulations EXCEPT ![id] =
                         IF Changing(id) = "put" /\ job[id].old = None THEN None ELSE @]
    /\ Settle(id)
    /\ UNCHANGED <<store, phase, closing>>

\* The teardown that follows a successful write is over: of the replaced, the
\* switched-off or the removed object.
Released(id) ==
    /\ At(id, {"releasing"})
    /\ \/ Changing(id) = "put" /\ Disconnect(job[id].old, Forgotten(object[job[id].old]))
       \/ Changing(id) = "switchOff" /\ Disconnect(job[id].sim, object[job[id].sim])
       \/ Changing(id) = "remove" /\ Disconnect(job[id].sim, Forgotten(object[job[id].sim]))
    /\ simulations' = [simulations EXCEPT ![id] = IF Changing(id) = "remove" THEN None ELSE @]
    /\ Settle(id)
    /\ UNCHANGED <<store, phase, closing>>

\* The retry timer of an object fires: its start joins the queue again.
RetryFires(s) ==
    /\ Alive
    /\ object[s].retry
    /\ object' = [object EXCEPT ![s].retry = FALSE]
    /\ pending' = [pending EXCEPT ![s[1]] = Append(@, RetryOf(s))]
    /\ UNCHANGED <<simulations, job, awaited, open, store, phase, closing>>

-----------------------------------------------------------------------------
(* The process                                                             *)

Init ==
    /\ phase = "loading"
    /\ store \in FirstStores
    /\ simulations = [id \in Id |-> None]
    /\ pending = [id \in Id |-> <<>>]
    /\ job = [id \in Id |-> Idle]
    /\ object = [s \in Sim |-> Blank]
    /\ awaited = [id \in Id |-> 0]
    /\ open = {} /\ closing = {}

\* resume(): registers what the database lists; those that are on start in
\* the background.  A failed list is retried by the caller: a stutter.
Resume ==
    /\ phase = "loading"
    /\ phase' = "ready"
    /\ LET resumed == [id \in Id |-> IF Readable(store[id]) THEN NewSim(id) ELSE None]
       IN  /\ simulations' = resumed
           /\ object' = [s \in Sim |->
                           IF s = resumed[s[1]] THEN [Blank EXCEPT !.input = store[s[1]]] ELSE Blank]
           /\ pending' = [id \in Id |->
                            IF Readable(store[id]) /\ store[id].enabled
                            THEN <<RetryOf(resumed[id])>> ELSE <<>>]
    /\ UNCHANGED <<job, awaited, open, store, closing>>

\* SIGTERM: shutdown() waits for the changes queued at this moment...
Shutdown ==
    /\ phase = "ready"
    /\ phase' = "stopping"
    /\ awaited' = [id \in Id |-> Len(pending[id])]
    /\ UNCHANGED <<simulations, pending, job, object, open, store, closing>>

NotAwaited == TRUE  \* mutation of Drained
Drained == \A id \in Id : awaited[id] = 0

\* ...then tears every registered simulation down at once...
ShutdownTeardown ==
    /\ phase = "stopping"
    /\ Drained
    /\ phase' = "closing"
    /\ LET all == {simulations[id] : id \in Registered}
       IN  /\ object' = [s \in Sim |-> IF s \in all THEN Stopped(object[s]) ELSE object[s]]
           /\ closing' = {<<s, object[s].link>> : s \in all}
    /\ UNCHANGED <<simulations, queueVars, open, store>>

ShutdownCloses(s, c) ==
    /\ phase = "closing"
    /\ <<s, c>> \in closing
    /\ closing' = closing \ {<<s, c>>}
    /\ open' = open \ {c}
    /\ object' = [object EXCEPT ![s].link = None]
    /\ UNCHANGED <<simulations, queueVars, store, phase>>

\* ...and forgets them when all are closed.  The process then closes the
\* database pool and its listener and exits.
ShutdownDone ==
    /\ phase = "closing"
    /\ closing = {}
    /\ phase' = "stopped"
    /\ simulations' = [id \in Id |-> None]
    /\ UNCHANGED <<queueVars, object, open, store, closing>>

\* The process crashes or exits and is started again: only the rows survive.
Restart ==
    /\ MayRestart
    /\ phase # "loading"
    /\ phase' = "loading"
    /\ simulations' = [id \in Id |-> None]
    /\ pending' = [id \in Id |-> <<>>]
    /\ job' = [id \in Id |-> Idle]
    /\ object' = [s \in Sim |-> Blank]
    /\ awaited' = [id \in Id |-> 0]
    /\ open' = {} /\ closing' = {}
    /\ UNCHANGED store

-----------------------------------------------------------------------------
Steps(id) ==
    \/ BeginPut(id) \/ BeginStop(id) \/ BeginStart(id) \/ Moot(id)
    \/ Connected(id) \/ Prepared(id) \/ StartFailed(id)
    \/ Commit(id) \/ SaveFailed(id)
    \/ PutSaved(id) \/ SwitchOnSaved(id) \/ StopSaved(id)
    \/ Undone(id) \/ Released(id)

ShutsDown ==
    \/ ShutdownTeardown
    \/ \E s \in Sim, c \in Maybe(Conn) : ShutdownCloses(s, c)
    \/ ShutdownDone

Next ==
    \/ \E id \in Id : \E change \in Calls : Call(id, change)
    \/ \E id \in Id : Steps(id)
    \/ \E s \in Sim : RetryFires(s)
    \/ Resume
    \/ Shutdown
    \/ ShutsDown
    \/ Restart

Spec == Init /\ [][Next]_vars

-----------------------------------------------------------------------------
(* Fairness: node runs every continuation, a connect attempt has a timeout *)
(* (connect-error.ts), a query or a close ends when its socket does, and   *)
(* timers fire.  Reachable says a broker or database that one simulation   *)
(* tries again and again lets it in some day.                              *)

Fairness ==
    /\ \A id \in Id : WF_vars(Steps(id))
    /\ \A s \in Sim : WF_vars(RetryFires(s))
    /\ WF_vars(Resume)
    /\ WF_vars(ShutsDown)

Reachable ==
    \A s \in Sim : /\ SF_vars(job[s[1]].sim = s /\ Connected(s[1]))
                   /\ SF_vars(job[s[1]].sim = s /\ Prepared(s[1]))

FairSpec == Spec /\ Fairness /\ Reachable

-----------------------------------------------------------------------------
(* Properties                                                              *)

Running(s) == object[s].link \in open /\ (object[s].timer \/ object[s].input.version \in FillVersion)
RetryQueued(s) == \E i \in DOMAIN pending[s[1]] : pending[s[1]][i].sim = s

\* Paused, replaced or deleted, and no change is working on it.
OutOfUse(s) ==
    /\ s \notin {job[s[1]].sim, job[s[1]].old}
    /\ simulations[s[1]] = s => ~object[s].input.enabled

Memory(id) == IF simulations[id] = None THEN None ELSE object[simulations[id]].input

\* What a restart would resume is what is registered, at every moment: unless
\* the running change has written and not yet heard back (then the row is what
\* it wrote), is a new id not stored yet, or is a delete closing connections.
\* Needs every answer of the database to arrive.
StoreAgrees ==
    Alive /\ ~LostReplies =>
        \A id \in Id :
            \/ Listed(id) = Memory(id)
            \/ job[id].stage = "committed" /\ Listed(id) = Written(id)
            \/ /\ Listed(id) = None
               /\ job[id].stage \in {"starting", "preparing", "saving", "undoing"}
               /\ Changing(id) = "put" /\ job[id].old = None
            \/ /\ Listed(id) = None
               /\ job[id].stage = "releasing" /\ Changing(id) = "remove"

\* "Never marked active with nothing running behind it" (setEnabled): what is
\* registered as enabled runs, or will be tried again, or is starting or being
\* deleted right now.  A replacement that fails leaves the old one running.
ActiveMeansRunning ==
    phase = "ready" =>
        \A id \in Id :
            LET s == simulations[id]
            IN  s # None /\ object[s].input.enabled =>
                    \/ Running(s) \/ object[s].retry \/ RetryQueued(s)
                    \/ job[id].sim = s /\ job[id].stage \in {"starting", "preparing", "undoing"}
                    \/ /\ job[id].stage = "releasing"
                       /\ Changing(id) = "remove"

\* What is paused, replaced or deleted remembers no connection and no timer, for
\* they were released, and will not start by itself.  A connection or an interval
\* that it has forgotten is the matter of NothingUntracked.
PausedMeansReleased ==
    phase \in {"ready", "stopping"} =>
        \A s \in Sim : OutOfUse(s) => object[s].link = None /\ ~object[s].timer /\ ~object[s].retry

\* "So overlapping saves cannot leave an untracked publisher behind" (queue):
\* every open connection is some object's, that object is registered or being
\* worked on, and an object ticks exactly when its timer field says so.
NothingUntracked ==
    phase \in {"ready", "stopping"} =>
        /\ open = {object[s].link : s \in Sim} \ {None}
        /\ \A s \in Sim :
            /\ object[s].ticking = IF object[s].timer THEN 1 ELSE 0
            /\ object[s].link # None => s \in {simulations[s[1]], job[s[1]].sim, job[s[1]].old}

\* MAX_SIMULATIONS bounds what is registered, also when new ids come in at once.
CapHolds == Alive => Cardinality(Registered) <= MaxSimulations

\* "A late start would keep running": after shutdown() nothing is connected,
\* nothing ticks and nothing will be tried again.
ShutdownLeavesNothing ==
    phase = "stopped" => open = {} /\ \A s \in Sim : object[s].ticking = 0 /\ ~object[s].retry

\* "Stored once it runs, so a version that cannot start is never kept" (put);
\* until the shutdown closes connections under the changes of late callers.
StoredOnlyOnceRunning ==
    [][\A id \in Id :
         phase \in {"ready", "stopping"} /\ store'[id] \notin {store[id], None} =>
            (store'[id].enabled => Running(job[id].sim))]_vars

\* What the service promises of the settings it keeps, seen through what a
\* restart would resume: Settings.  Needs every answer of the database.
Promise == INSTANCE Settings WITH settings <- [id \in Id |-> Listed(id)], Setting <- Input
KeepsPromise == Promise!Spec

\* No change holds up its queue for ever.
EveryChangeSettles ==
    \A id \in Id : job[id].stage # "idle" ~> job[id].stage = "idle" \/ ~Alive

\* A start that fails after a restart is "retried until it works or is switched
\* off" (resume): an enabled simulation comes to run, or a caller changes it.
RetriedUntilItWorks ==
    \A id \in Id, s \in Sim :
        phase = "ready" /\ simulations[id] = s /\ object[s].input.enabled
            ~> phase # "ready" \/ simulations[id] # s \/ ~object[s].input.enabled \/ Running(s)
=============================================================================
