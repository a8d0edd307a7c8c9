--------------------------- MODULE RegistryProofs ---------------------------
(***************************************************************************)
(* Theorems about Registry for every value of its constants: its types,    *)
(* memory and database, the cap, the refinement of Settings; and what runs *)
(* behind a simulation: what is enabled runs or is about to, what is       *)
(* paused, replaced or deleted holds nothing, and what is stored as        *)
(* enabled has been seen to run.                                           *)
(***************************************************************************)
EXTENDS Registry, FiniteSetTheorems, TLAPS

-----------------------------------------------------------------------------
(* The shape of a change: the inductive invariant                          *)

\* The running change of id, in terms of what is registered: which object each
\* kind of change works on, and at which stages.
PutShape(id) ==
    LET j == job[id]
    IN  /\ j.sim # j.old
        /\ object[j.sim].input = Head(pending[id]).input
        /\ simulations[id] = IF j.old = None \/ j.stage = "releasing" THEN j.sim ELSE j.old
        /\ j.stage = "releasing" => j.old # None

StopShape(id) ==
    /\ simulations[id] = job[id].sim
    /\ job[id].stage \in {"saving", "committed", "releasing"}
    /\ Changing(id) = "switchOff" =>
         object[job[id].sim].input.enabled = (job[id].stage # "releasing")

StartShape(id) ==
    /\ simulations[id] = job[id].sim
    /\ job[id].stage \in {"starting", "preparing", "saving", "committed", "undoing"}
    /\ Changing(id) = "retry" => job[id].stage \in {"starting", "preparing", "undoing"}
    /\ object[job[id].sim].input.enabled = (Changing(id) = "retry")

RunningShape(id) ==
    /\ pending[id] # <<>>
    /\ job[id].sim # None
    /\ Changing(id) = "put" => PutShape(id)
    /\ Changing(id) \in {"remove", "switchOff"} => StopShape(id)
    /\ Changing(id) \in {"switchOn", "retry"} => StartShape(id)

Shape(id) ==
    /\ {simulations[id], job[id].sim, job[id].old} \subseteq Maybe(Own(id))
    /\ simulations[id] # None => /\ object[simulations[id]].input \in Input
                                 /\ Readable(object[simulations[id]].input)
    /\ job[id].stage = "idle" => job[id] = Idle
    /\ job[id].stage # "idle" => RunningShape(id)

\* Before resume() there is nothing in memory.
Vacant ==
    /\ job = [id \in Id |-> Idle]
    /\ pending = [id \in Id |-> <<>>]
    /\ simulations = [id \in Id |-> None]
    /\ object = [s \in Sim |-> Blank]
    /\ closing = {}

TimersCounted == \A s \in Sim : object[s].timer => object[s].ticking > 0

IInv ==
    /\ TypeOK
    /\ TimersCounted
    /\ phase = "loading" => Vacant
    /\ Alive => \A id \in Id : Shape(id)

-----------------------------------------------------------------------------
(* Lemmas                                                                  *)

\* What a queue may hold.
LEMMA ChangeForms ==
    ASSUME NEW c \in Change
    PROVE  /\ c.kind \in Kind
           /\ c.kind = "put" => c.input \in Input /\ Readable(c.input)
           /\ c.kind = "retry" => c.sim \in Sim
  BY DEF Change, Calls, PutOf, RetryOf, NoChange, Kind

\* A step that leaves alone what a running change of id relies on preserves
\* the shape of id.
LEMMA ShapeStable ==
    ASSUME NEW id \in Id, TypeOK, Shape(id),
           simulations'[id] = simulations[id],
           job'[id] = job[id],
           pending[id] # <<>> => pending'[id] # <<>> /\ Head(pending'[id]) = Head(pending[id]),
           \A s \in Own(id) : object'[s].input = object[s].input
    PROVE  Shape(id)'
<1>1. {simulations[id], job[id].sim, job[id].old} \subseteq Maybe(Own(id))
  BY DEF Shape
<1>2. \A s \in {simulations[id], job[id].sim, job[id].old} :
        s # None => object'[s].input = object[s].input
  BY <1>1 DEF Maybe
<1>3. CASE job[id].stage = "idle"
  BY <1>1, <1>2, <1>3 DEF Shape
<1>4. CASE job[id].stage # "idle"
  <2>1. RunningShape(id)'
    BY <1>2, <1>4 DEF Shape, RunningShape, PutShape, StopShape, StartShape, Changing
  <2> QED
    BY <1>1, <1>2, <1>4, <2>1 DEF Shape
<1> QED
  BY <1>3, <1>4

\* The same for every id, when a step changes no input and only adds to queues.
LEMMA ShapesStable ==
    ASSUME TypeOK, \A id \in Id : Shape(id),
           UNCHANGED <<simulations, job>>,
           \A id \in Id : pending[id] # <<>> =>
               pending'[id] # <<>> /\ Head(pending'[id]) = Head(pending[id]),
           \A s \in Sim : object'[s].input = object[s].input
    PROVE  \A id \in Id : Shape(id)'
<1> SUFFICES ASSUME NEW id \in Id PROVE Shape(id)'
  OBVIOUS
<1>1. Own(id) \subseteq Sim
  BY DEF Own, Sim
<1> QED
  BY <1>1, ShapeStable

\* A step of id's own change leaves the other ids in shape.
LEMMA OthersStable ==
    ASSUME NEW id \in Id, TypeOK, \A i \in Id : Shape(i),
           \A i \in Id \ {id} : /\ simulations'[i] = simulations[i]
                                /\ job'[i] = job[i]
                                /\ pending'[i] = pending[i],
           \A s \in Sim : s \notin Own(id) => object'[s].input = object[s].input
    PROVE  \A i \in Id \ {id} : Shape(i)'
<1> SUFFICES ASSUME NEW i \in Id \ {id} PROVE Shape(i)'
  OBVIOUS
<1>1. \A s \in Own(i) : s \in Sim /\ s \notin Own(id)
  BY DEF Own, Sim
<1> QED
  BY <1>1, ShapeStable

\* Appending a change keeps the head of a queue.
LEMMA AppendKeepsHead ==
    ASSUME NEW S, NEW q \in Seq(S), NEW c \in S
    PROVE  /\ Append(q, c) \in Seq(S)
           /\ q # <<>> => Append(q, c) # <<>> /\ Head(Append(q, c)) = Head(q)
  OBVIOUS

\* The helpers of teardown() and start() make objects of objects.
LEMMA StoppedType ==
    ASSUME NEW o \in Object, o.timer => o.ticking > 0
    PROVE  /\ Stopped(o) \in Object
           /\ ~Stopped(o).timer
           /\ Stopped(o).input = o.input
<1> DEFINE n == IF o.timer THEN o.ticking - 1 ELSE o.ticking
<1>1. n \in Nat
  BY DEF Object
<1>2. Stopped(o) = [o EXCEPT !.timer = FALSE, !.retry = FALSE, !.ticking = n]
  BY DEF Stopped
<1> HIDE DEF n
<1> QED
  BY <1>1, <1>2 DEF Object

LEMMA ArmedType ==
    ASSUME NEW o \in Object
    PROVE  /\ Armed(o) \in Object
           /\ Armed(o).ticking > 0
           /\ Armed(o).input = o.input
<1> DEFINE n == o.ticking + 1
<1>1. n \in Nat /\ n > 0
  BY DEF Object
<1>2. Armed(o) = [o EXCEPT !.timer = TRUE, !.ticking = n]
  BY DEF Armed
<1> HIDE DEF n
<1> QED
  BY <1>1, <1>2 DEF Object

\* What settle, await and begin do to the queue variables.
LEMMA SettleType ==
    ASSUME TypeOK, NEW id \in Id, Settle(id), pending[id] # <<>>
    PROVE  /\ pending' \in [Id -> Seq(Change)]
           /\ job' \in [Id -> Job]
           /\ awaited' \in [Id -> Nat]
           /\ job'[id] = Idle
           /\ \A i \in Id \ {id} : job'[i] = job[i] /\ pending'[i] = pending[i]
  BY DEF TypeOK, Settle, Idle, Job, Stage, Maybe

LEMMA AwaitType ==
    ASSUME TypeOK, NEW id \in Id, NEW stage \in Stage, Await(id, stage)
    PROVE  /\ pending' = pending /\ awaited' = awaited
           /\ job' \in [Id -> Job]
           /\ job'[id] = [job[id] EXCEPT !.stage = stage]
           /\ \A i \in Id \ {id} : job'[i] = job[i]
  BY DEF TypeOK, Await, Job

LEMMA BeginType ==
    ASSUME TypeOK, NEW id \in Id, NEW s \in Maybe(Sim), NEW old \in Maybe(Sim),
           NEW stage \in Stage, Begin(id, s, old, stage)
    PROVE  /\ pending' = pending /\ awaited' = awaited
           /\ job' \in [Id -> Job]
           /\ job'[id] = [stage |-> stage, sim |-> s, old |-> old]
           /\ \A i \in Id \ {id} : job'[i] = job[i]
  BY DEF TypeOK, Begin, Job

\* What holds of every change that runs.
LEMMA RunningFacts ==
    ASSUME TypeOK, NEW id \in Id, Shape(id), job[id].stage # "idle"
    PROVE  /\ pending[id] # <<>> /\ Head(pending[id]) \in Change /\ Changing(id) \in Kind
           /\ job[id].sim \in Own(id) \cap Sim
           /\ job[id].old # None => job[id].old \in Own(id) \cap Sim
           /\ object[job[id].sim].input \in Input
           /\ Readable(object[job[id].sim].input)
<1>1. Own(id) \subseteq Sim
  BY DEF Own, Sim
<1>2. RunningShape(id) /\ {simulations[id], job[id].sim, job[id].old} \subseteq Maybe(Own(id))
  BY DEF Shape
<1>3. pending[id] \in Seq(Change) /\ pending[id] # <<>>
  BY <1>2 DEF TypeOK, RunningShape
<1>4. Head(pending[id]) \in Change
  BY <1>3
<1>5. Changing(id) \in Kind /\ (Changing(id) = "put" =>
        Head(pending[id]).input \in Input /\ Readable(Head(pending[id]).input))
  BY <1>4, ChangeForms DEF Changing
<1>6. job[id].sim \in Own(id) /\ (job[id].old # None => job[id].old \in Own(id))
  BY <1>2 DEF RunningShape, Maybe
<1>7. object[job[id].sim].input \in Input /\ Readable(object[job[id].sim].input)
  <2>1. CASE Changing(id) = "put"
    BY <2>1, <1>2, <1>5 DEF RunningShape, PutShape
  <2>2. CASE Changing(id) # "put"
    <3>1. simulations[id] = job[id].sim
      BY <2>2, <1>2, <1>5 DEF RunningShape, StopShape, StartShape, Kind
    <3> QED
      BY <3>1, <1>2 DEF RunningShape, Shape
  <2> QED
    BY <2>1, <2>2
<1> QED
  BY <1>1, <1>3, <1>4, <1>5, <1>6, <1>7

\* A step of the running change of id preserves the invariant if it types, counts
\* its timers, leaves id in shape and touches nothing of the other ids.
LEMMA ChangeStep ==
    ASSUME IInv, Alive, NEW id \in Id, TypeOK', TimersCounted', Shape(id)', phase' = phase,
           \A i \in Id \ {id} : /\ simulations'[i] = simulations[i]
                                /\ job'[i] = job[i]
                                /\ pending'[i] = pending[i],
           \A s \in Sim : s \notin Own(id) => object'[s].input = object[s].input
    PROVE  IInv'
<1>1. \A i \in Id \ {id} : Shape(i)'
  BY OthersStable DEF IInv
<1>2. phase' # "loading"
  BY DEF Alive
<1> QED
  BY <1>1, <1>2 DEF IInv

-----------------------------------------------------------------------------
(* Every step preserves the invariant                                      *)

LEMMA CallStep ==
    ASSUME IInv, NEW id \in Id, NEW change \in Calls, Call(id, change)
    PROVE  IInv'
<1>1. TypeOK /\ change \in Change /\ Alive
  BY DEF IInv, Change, Call, Alive
<1>2. pending[id] \in Seq(Change) /\ pending' = [pending EXCEPT ![id] = Append(pending[id], change)]
  BY <1>1 DEF TypeOK, Call
<1>3. /\ pending' \in [Id -> Seq(Change)]
      /\ \A i \in Id : pending[i] # <<>> =>
            pending'[i] # <<>> /\ Head(pending'[i]) = Head(pending[i])
  <2> DEFINE q == Append(pending[id], change)
  <2>1. /\ q \in Seq(Change)
        /\ pending[id] # <<>> => q # <<>> /\ Head(q) = Head(pending[id])
    BY <1>1, <1>2, AppendKeepsHead
  <2>2. pending \in [Id -> Seq(Change)] /\ pending' = [pending EXCEPT ![id] = q]
    BY <1>1, <1>2 DEF TypeOK
  <2> HIDE DEF q
  <2> QED
    BY <2>1, <2>2
<1>4. TypeOK' /\ TimersCounted'
  BY <1>1, <1>3 DEF IInv, TypeOK, TimersCounted, Call
<1>5. \A i \in Id : Shape(i)'
  BY <1>1, <1>3, ShapesStable DEF IInv, Call
<1> QED
  BY <1>1, <1>4, <1>5 DEF IInv, Call, Alive

LEMMA MootStep ==
    ASSUME IInv, NEW id \in Id, Moot(id)
    PROVE  IInv'
<1>1. TypeOK /\ Alive /\ Shape(id) /\ pending[id] # <<>> /\ Settle(id)
  BY DEF IInv, Moot, MayBegin
<1>2. TypeOK' /\ TimersCounted'
  BY <1>1, SettleType DEF IInv, TypeOK, TimersCounted, Moot
<1>3. Shape(id)'
  BY <1>1, SettleType DEF Shape, Moot, Idle, Maybe
<1> QED
  BY <1>1, <1>2, <1>3, SettleType, ChangeStep DEF Moot

LEMMA BeginPutStep ==
    ASSUME IInv, NEW id \in Id, BeginPut(id)
    PROVE  IInv'
<1> DEFINE new == NewSim(id)
           i == Head(pending[id]).input
           fresh == [Blank EXCEPT !.input = i]
           old == simulations[id]
<1>1. TypeOK /\ Alive /\ Shape(id) /\ pending[id] # <<>> /\ job[id].stage = "idle"
  BY DEF IInv, BeginPut, MayBegin
<1>2. Head(pending[id]) \in Change /\ Changing(id) = "put"
  BY <1>1 DEF TypeOK, BeginPut, MayBegin
<1>3. i \in Input /\ Readable(i)
  BY <1>2, ChangeForms DEF Changing
<1>4. new \in FreeSims(id)
  BY DEF BeginPut, NewSim
<1>5. new \in Own(id) /\ new \in Sim /\ new # old /\ new # None
  BY <1>4, NoneAssumption DEF FreeSims, Own, Sim
<1>6. old \in Maybe(Own(id)) /\ old \in Maybe(Sim)
  BY <1>1 DEF Shape, Own, Sim, Maybe
<1>7. FirstStage(i) \in {"starting", "saving"}
  BY DEF FirstStage
<1>8. /\ job' \in [Id -> Job]
      /\ job'[id] = [stage |-> FirstStage(i), sim |-> new, old |-> old]
      /\ \A k \in Id \ {id} : job'[k] = job[k]
      /\ pending' = pending /\ awaited' = awaited
  <2>1. Begin(id, new, old, FirstStage(i)) /\ FirstStage(i) \in Stage /\ new \in Maybe(Sim)
    BY <1>5, <1>7 DEF BeginPut, Stage, Maybe
  <2> QED
    BY <1>1, <1>6, <2>1, BeginType
<1>9. fresh \in Object /\ fresh.input = i /\ ~fresh.timer
  BY <1>3 DEF Blank, Object, Maybe
<1>10. object' = [object EXCEPT ![new] = fresh]
  BY DEF BeginPut
<1>11. simulations' = [simulations EXCEPT ![id] = IF old = None THEN new ELSE old]
  BY DEF BeginPut
<1>12. TypeOK' /\ TimersCounted'
  <2> HIDE DEF new, i, fresh, old
  <2>1. object' \in [Sim -> Object] /\ TimersCounted'
    BY <1>1, <1>5, <1>9, <1>10 DEF IInv, TypeOK, TimersCounted
  <2>2. simulations' \in [Id -> Maybe(Sim)]
    BY <1>1, <1>5, <1>6, <1>11 DEF TypeOK, Maybe
  <2> QED
    BY <1>1, <1>8, <2>1, <2>2 DEF TypeOK, BeginPut
<1>13. Shape(id)'
  <2> HIDE DEF new, i, fresh, old
  <2>1. object'[new].input = i /\ (old # None => object'[old].input = object[old].input)
    BY <1>1, <1>5, <1>6, <1>9, <1>10 DEF TypeOK, Maybe
  <2>2. simulations'[id] = IF old = None THEN new ELSE old
    BY <1>1, <1>11 DEF TypeOK
  <2>3. PutShape(id)'
    BY <1>5, <1>7, <1>8, <2>1, <2>2 DEF PutShape, i
  <2>4. RunningShape(id)'
    BY <1>1, <1>2, <1>5, <1>8, <2>3 DEF RunningShape, Changing
  <2>5. simulations'[id] # None => /\ object'[simulations'[id]].input \in Input
                                   /\ Readable(object'[simulations'[id]].input)
    BY <1>1, <1>3, <2>1, <2>2 DEF Shape, old
  <2>6. {simulations'[id], new, old} \subseteq Maybe(Own(id))
    BY <1>5, <1>6, <2>2 DEF Maybe
  <2> QED
    BY <1>7, <1>8, <2>4, <2>5, <2>6 DEF Shape
<1>14. /\ \A k \in Id \ {id} : simulations'[k] = simulations[k]
       /\ \A s \in Sim : s \notin Own(id) => object'[s].input = object[s].input
  BY <1>1, <1>5, <1>10, <1>11 DEF TypeOK
<1> QED
  BY <1>1, <1>8, <1>12, <1>13, <1>14, ChangeStep DEF BeginPut

\* The registered object of a change that begins on it.
LEMMA RegisteredFacts ==
    ASSUME TypeOK, NEW id \in Id, Shape(id), simulations[id] # None
    PROVE  /\ simulations[id] \in Own(id) \cap Sim
           /\ object[simulations[id]].input \in Input
  BY DEF Shape, Own, Sim, Maybe

LEMMA BeginStopStep ==
    ASSUME IInv, NEW id \in Id, BeginStop(id)
    PROVE  IInv'
<1>1. TypeOK /\ Alive /\ Shape(id) /\ pending[id] # <<>> /\ job[id].stage = "idle"
  BY DEF IInv, BeginStop, MayBegin
<1>2. Changing(id) \in {"remove", "switchOff"} /\ simulations[id] # None
  BY DEF BeginStop, MayBegin
<1>3. /\ job' \in [Id -> Job]
      /\ job'[id] = [stage |-> "saving", sim |-> simulations[id], old |-> None]
      /\ \A k \in Id \ {id} : job'[k] = job[k]
      /\ pending' = pending /\ awaited' = awaited
  <2>1. /\ Begin(id, simulations[id], None, "saving") /\ "saving" \in Stage
        /\ simulations[id] \in Maybe(Sim) /\ None \in Maybe(Sim)
    BY <1>1 DEF BeginStop, Stage, Maybe, TypeOK
  <2> QED
    BY <1>1, <2>1, BeginType
<1>4. TypeOK' /\ TimersCounted'
  BY <1>1, <1>3 DEF IInv, TypeOK, TimersCounted, BeginStop
<1>5. StopShape(id)'
  BY <1>1, <1>2, <1>3, RegisteredFacts DEF StopShape, BeginStop, Changing, Input
<1>6. RunningShape(id)'
  BY <1>1, <1>2, <1>3, <1>5 DEF RunningShape, Changing, BeginStop
<1>7. Shape(id)'
  BY <1>1, <1>2, <1>3, <1>6 DEF Shape, BeginStop, Maybe
<1> QED
  BY <1>1, <1>3, <1>4, <1>7, ChangeStep DEF BeginStop

LEMMA BeginStartStep ==
    ASSUME IInv, NEW id \in Id, BeginStart(id)
    PROVE  IInv'
<1>1. TypeOK /\ Alive /\ Shape(id) /\ pending[id] # <<>> /\ job[id].stage = "idle"
  BY DEF IInv, BeginStart, MayBegin
<1>2. Changing(id) \in {"switchOn", "retry"} /\ simulations[id] # None
  BY DEF BeginStart, MayBegin
<1>3. /\ job' \in [Id -> Job]
      /\ job'[id] = [stage |-> "starting", sim |-> simulations[id], old |-> None]
      /\ \A k \in Id \ {id} : job'[k] = job[k]
      /\ pending' = pending /\ awaited' = awaited
  <2>1. /\ Begin(id, simulations[id], None, "starting") /\ "starting" \in Stage
        /\ simulations[id] \in Maybe(Sim) /\ None \in Maybe(Sim)
    BY <1>1 DEF BeginStart, Stage, Maybe, TypeOK
  <2> QED
    BY <1>1, <2>1, BeginType
<1>4. TypeOK' /\ TimersCounted'
  BY <1>1, <1>3 DEF IInv, TypeOK, TimersCounted, BeginStart
<1>5. StartShape(id)'
  BY <1>1, <1>2, <1>3, RegisteredFacts DEF StartShape, BeginStart, Changing, Input
<1>6. RunningShape(id)'
  BY <1>1, <1>2, <1>3, <1>5 DEF RunningShape, Changing, BeginStart
<1>7. Shape(id)'
  BY <1>1, <1>2, <1>3, <1>6 DEF Shape, BeginStart, Maybe
<1> QED
  BY <1>1, <1>3, <1>4, <1>7, ChangeStep DEF BeginStart

-----------------------------------------------------------------------------
(* Steps in the middle of a change                                         *)

LEMMA UpdateObject ==
    ASSUME TypeOK, TimersCounted, NEW s \in Sim, NEW o \in Object, o.timer => o.ticking > 0,
           object' = [object EXCEPT ![s] = o]
    PROVE  /\ object' \in [Sim -> Object]
           /\ TimersCounted'
           /\ object'[s] = o
           /\ \A x \in Sim \ {s} : object'[x] = object[x]
  BY DEF TypeOK, TimersCounted

LEMMA StopTimersType ==
    ASSUME TypeOK, TimersCounted, NEW s \in Sim, StopTimers(s)
    PROVE  /\ object' \in [Sim -> Object]
           /\ TimersCounted'
           /\ \A x \in Sim : object'[x].input = object[x].input
<1>1. object[s] \in Object /\ (object[s].timer => object[s].ticking > 0)
  BY DEF TypeOK, TimersCounted
<1>2. /\ Stopped(object[s]) \in Object
      /\ ~Stopped(object[s]).timer
      /\ Stopped(object[s]).input = object[s].input
  BY <1>1, StoppedType
<1>3. object' = [object EXCEPT ![s] = Stopped(object[s])]
  BY DEF StopTimers
<1> QED
  BY <1>2, <1>3, UpdateObject

\* An await inside a change keeps the shape of id if it changes no input and
\* goes where this kind of change goes.
LEMMA AwaitShape ==
    ASSUME TypeOK, NEW id \in Id, Shape(id), job[id].stage # "idle",
           NEW stage \in Stage \ {"idle"}, Await(id, stage),
           simulations'[id] = simulations[id],
           \A s \in Own(id) : object'[s].input = object[s].input,
           Changing(id) = "put" => "releasing" \notin {stage, job[id].stage},
           Changing(id) = "remove" => stage \in {"committed", "releasing"},
           Changing(id) = "switchOff" => stage = "committed" /\ job[id].stage # "releasing",
           Changing(id) = "switchOn" => stage \in {"preparing", "saving", "committed", "undoing"},
           Changing(id) = "retry" => stage \in {"preparing", "undoing"}
    PROVE  Shape(id)'
<1>1. /\ pending' = pending
      /\ job'[id] = [job[id] EXCEPT !.stage = stage]
      /\ job[id] \in Job
  BY AwaitType DEF TypeOK
<1>2. /\ job'[id].stage = stage
      /\ job'[id].sim = job[id].sim
      /\ job'[id].old = job[id].old
  BY <1>1 DEF Job
<1>3. RunningShape(id) /\ {simulations[id], job[id].sim, job[id].old} \subseteq Maybe(Own(id))
  BY DEF Shape
<1>4. \A s \in {simulations[id], job[id].sim} : s # None => object'[s].input = object[s].input
  BY <1>3 DEF Maybe
<1>5. RunningShape(id)'
  <2>1. Changing(id)' = Changing(id) /\ Head(pending'[id]) = Head(pending[id])
    BY <1>1 DEF Changing
  <2>2. Changing(id) = "put" => PutShape(id)'
    BY <1>1, <1>2, <1>3, <1>4, <2>1 DEF RunningShape, PutShape
  <2>3. Changing(id) \in {"remove", "switchOff"} => StopShape(id)'
    BY <1>2, <1>3, <1>4, <2>1 DEF RunningShape, StopShape
  <2>4. Changing(id) \in {"switchOn", "retry"} => StartShape(id)'
    BY <1>2, <1>3, <1>4, <2>1 DEF RunningShape, StartShape
  <2> QED
    BY <1>1, <1>2, <1>3, <2>1, <2>2, <2>3, <2>4 DEF RunningShape
<1> QED
  BY <1>2, <1>3, <1>4, <1>5 DEF Shape

\* A settled change leaves id in shape if what is registered is of id.
LEMMA SettledShape ==
    ASSUME NEW id \in Id, job'[id] = Idle, simulations'[id] \in Maybe(Own(id)),
           simulations'[id] # None => /\ object'[simulations'[id]].input \in Input
                                      /\ Readable(object'[simulations'[id]].input)
    PROVE  Shape(id)'
  BY DEF Shape, Idle, Maybe

\* Connected and Prepared: the start goes on, or is done.
LEMMA StartedStep ==
    ASSUME IInv, Alive, NEW id \in Id, job[id].stage \in {"starting", "preparing"},
           Started(id) \/ (job[id].stage = "starting" /\ Await(id, "preparing")),
           object' \in [Sim -> Object], TimersCounted',
           \A s \in Sim : object'[s].input = object[s].input,
           open' \subseteq Conn,
           UNCHANGED <<simulations, store, phase, closing>>
    PROVE  IInv'
<1>1. TypeOK /\ Shape(id) /\ job[id].stage # "idle"
  BY DEF IInv
<1>2. RunningShape(id) /\ Own(id) \subseteq Sim
  BY <1>1 DEF Shape, Own, Sim
<1>3. Changing(id) \in {"put", "switchOn", "retry"}
  BY <1>1, <1>2, RunningFacts DEF RunningShape, StopShape, Kind
<1>4. pending[id] # <<>>
  BY <1>2 DEF RunningShape
<1>5. CASE Settle(id)
  <2>1. TypeOK'
    BY <1>1, <1>4, <1>5, SettleType DEF TypeOK
  <2>2. Shape(id)'
    <3>1. job'[id] = Idle
      BY <1>1, <1>4, <1>5, SettleType
    <3>2. simulations'[id] \in Maybe(Own(id))
      BY <1>1 DEF Shape
    <3>3. simulations'[id] # None => /\ object'[simulations'[id]].input \in Input
                                     /\ Readable(object'[simulations'[id]].input)
      BY <1>1, <1>2 DEF Shape, Maybe
    <3> QED
      BY <3>1, <3>2, <3>3, SettledShape
  <2> QED
    BY <1>1, <1>4, <1>5, <2>1, <2>2, SettleType, ChangeStep
<1>6. ASSUME NEW stage \in {"preparing", "saving"}, Await(id, stage),
             Changing(id) = "retry" => stage = "preparing"
      PROVE  IInv'
  <2>1. stage \in Stage \ {"idle"}
    BY DEF Stage
  <2>2. TypeOK'
    BY <1>1, <1>6, <2>1, AwaitType DEF TypeOK
  <2>3. Shape(id)'
    BY <1>1, <1>2, <1>3, <1>6, <2>1, AwaitShape
  <2> QED
    BY <1>1, <1>6, <2>1, <2>2, <2>3, AwaitType, ChangeStep
<1> QED
  BY <1>5, <1>6 DEF Started

LEMMA ConnectedObject ==
    ASSUME IInv, NEW id \in Id, Connected(id)
    PROVE  /\ object' \in [Sim -> Object] /\ TimersCounted' /\ open' \subseteq Conn
           /\ \A x \in Sim : object'[x].input = object[x].input
<1> DEFINE s == job[id].sim
           c == NewConn(id)
           linked == [object[s] EXCEPT !.link = c]
<1>1. TypeOK /\ TimersCounted /\ Alive /\ Shape(id) /\ job[id].stage = "starting"
  BY DEF IInv, Connected, At
<1>2. s \in Sim /\ object[s] \in Object /\ (object[s].timer => object[s].ticking > 0)
  BY <1>1, RunningFacts DEF TypeOK, TimersCounted
<1>3. c \in Conn
  BY DEF Connected, NewConn, FreeConns, Own, Conn
<1>4. /\ linked \in Object /\ linked.input = object[s].input
      /\ linked.timer = object[s].timer /\ linked.ticking = object[s].ticking
  BY <1>2, <1>3 DEF Object, Maybe
<1>5. open' \subseteq Conn
  BY <1>1, <1>3 DEF TypeOK, Connected
<1>6. /\ object' \in [Sim -> Object] /\ TimersCounted'
      /\ \A x \in Sim : object'[x].input = object[x].input
  <2>1. CASE object' = [object EXCEPT ![s] = linked]
    <3> HIDE DEF s, linked
    <3>1. linked.timer => linked.ticking > 0
      BY <1>2, <1>4
    <3> QED
      BY <1>1, <1>2, <1>4, <2>1, <3>1, UpdateObject
  <2>2. CASE object' = [object EXCEPT ![s] = Armed(linked)]
    <3> HIDE DEF s, linked
    <3>1. Armed(linked) \in Object /\ Armed(linked).ticking > 0 /\ Armed(linked).input = object[s].input
      BY <1>4, ArmedType
    <3> QED
      BY <1>1, <1>2, <2>2, <3>1, UpdateObject
  <2> QED
    BY <2>1, <2>2 DEF Connected
<1> QED
  BY <1>5, <1>6

LEMMA PreparedObject ==
    ASSUME IInv, NEW id \in Id, Prepared(id)
    PROVE  /\ object' \in [Sim -> Object] /\ TimersCounted' /\ open' \subseteq Conn
           /\ \A x \in Sim : object'[x].input = object[x].input
<1> DEFINE s == job[id].sim
           o == IF object[s].input.version \in FillVersion THEN object[s] ELSE Armed(object[s])
<1>1. TypeOK /\ TimersCounted /\ Alive /\ Shape(id) /\ job[id].stage = "preparing"
  BY DEF IInv, Prepared, At
<1>2. s \in Sim /\ object[s] \in Object /\ (object[s].timer => object[s].ticking > 0)
  BY <1>1, RunningFacts DEF TypeOK, TimersCounted
<1>3. o \in Object /\ (o.timer => o.ticking > 0) /\ o.input = object[s].input
  BY <1>2, ArmedType
<1>4. object' = [object EXCEPT ![s] = o]
  BY DEF Prepared
<1>5. /\ object' \in [Sim -> Object] /\ TimersCounted'
      /\ \A x \in Sim : object'[x].input = object[x].input
  <2> HIDE DEF s, o
  <2> QED
    BY <1>1, <1>2, <1>3, <1>4, UpdateObject
<1>6. open' \subseteq Conn
  BY <1>1 DEF TypeOK, Prepared
<1> QED
  BY <1>5, <1>6

LEMMA StartingStep ==
    ASSUME IInv, NEW id \in Id, Connected(id) \/ Prepared(id)
    PROVE  IInv'
<1>1. Alive /\ job[id].stage \in {"starting", "preparing"}
  BY DEF Connected, Prepared, At
<1>2. Started(id) \/ (job[id].stage = "starting" /\ Await(id, "preparing"))
  BY <1>1 DEF Connected, Prepared, At
<1> QED
  BY <1>1, <1>2, ConnectedObject, PreparedObject, StartedStep DEF Connected, Prepared

LEMMA StartFailedStep ==
    ASSUME IInv, NEW id \in Id, StartFailed(id)
    PROVE  IInv'
<1>1. /\ TypeOK /\ TimersCounted /\ Alive /\ Shape(id)
      /\ job[id].stage \in {"starting", "preparing"}
      /\ StopTimers(job[id].sim) /\ Await(id, "undoing")
  BY DEF IInv, StartFailed, At
<1>2. job[id].sim \in Sim /\ Own(id) \subseteq Sim
  BY <1>1, RunningFacts DEF Own, Sim
<1>3. /\ object' \in [Sim -> Object] /\ TimersCounted'
      /\ \A x \in Sim : object'[x].input = object[x].input
  BY <1>1, <1>2, StopTimersType
<1>4. "undoing" \in Stage \ {"idle"}
  BY DEF Stage
<1>5. TypeOK'
  BY <1>1, <1>3, <1>4, AwaitType DEF TypeOK, StartFailed, StopTimers
<1>6. Changing(id) \in {"put", "switchOn", "retry"}
  BY <1>1, RunningFacts DEF Shape, RunningShape, StopShape, Kind
<1>7. Shape(id)'
  BY <1>1, <1>2, <1>3, <1>4, <1>6, AwaitShape DEF StartFailed
<1> QED
  BY <1>1, <1>3, <1>4, <1>5, <1>7, AwaitType, ChangeStep DEF StartFailed

-----------------------------------------------------------------------------
(* The database, and the end of a change                                   *)

LEMMA CommitStep ==
    ASSUME IInv, NEW id \in Id, Commit(id)
    PROVE  IInv'
<1>1. /\ TypeOK /\ TimersCounted /\ Alive /\ Shape(id)
      /\ job[id].stage = "saving" /\ Await(id, "committed")
  BY DEF IInv, Commit, At
<1>2. "committed" \in Stage \ {"idle"} /\ Own(id) \subseteq Sim
  BY DEF Stage, Own, Sim
<1>3. Changing(id) \in {"put", "remove", "switchOn", "switchOff"}
  BY <1>1, RunningFacts DEF Shape, RunningShape, StartShape, Kind
<1>4. Written(id) \in Maybe(Input)
  <2>1. Head(pending[id]) \in Change /\ object[job[id].sim].input \in Input
    BY <1>1, RunningFacts
  <2>2. Changing(id) = "put" => Head(pending[id]).input \in Input
    BY <2>1, ChangeForms DEF Changing
  <2>3. \A b \in BOOLEAN : [object[job[id].sim].input EXCEPT !.enabled = b] \in Input
    BY <2>1 DEF Input
  <2> QED
    BY <1>3, <2>2, <2>3 DEF Written, Maybe
<1>5. TypeOK' /\ TimersCounted'
  BY <1>1, <1>2, <1>4, AwaitType DEF TypeOK, Commit, TimersCounted
<1>6. Shape(id)'
  BY <1>1, <1>2, <1>3, AwaitShape DEF Commit
<1> QED
  BY <1>1, <1>2, <1>5, <1>6, AwaitType, ChangeStep DEF Commit

LEMMA SaveFailedStep ==
    ASSUME IInv, NEW id \in Id, SaveFailed(id)
    PROVE  IInv'
<1>1. /\ TypeOK /\ TimersCounted /\ Alive /\ Shape(id)
      /\ job[id].stage \in {"saving", "committed"}
  BY DEF IInv, SaveFailed, At
<1>2. /\ job[id].sim \in Sim /\ pending[id] # <<>> /\ Own(id) \subseteq Sim
      /\ "undoing" \in Stage \ {"idle"}
  BY <1>1, RunningFacts DEF Own, Sim, Stage
<1>3. CASE Changing(id) \in {"put", "switchOn"} /\ StopTimers(job[id].sim) /\ Await(id, "undoing")
  <2>1. /\ object' \in [Sim -> Object] /\ TimersCounted'
        /\ \A x \in Sim : object'[x].input = object[x].input
    BY <1>1, <1>2, <1>3, StopTimersType
  <2>2. TypeOK'
    BY <1>1, <1>2, <1>3, <2>1, AwaitType DEF TypeOK, SaveFailed, StopTimers
  <2>3. Shape(id)'
    BY <1>1, <1>2, <1>3, <2>1, AwaitShape DEF SaveFailed
  <2> QED
    BY <1>1, <1>2, <1>3, <2>1, <2>2, <2>3, AwaitType, ChangeStep DEF SaveFailed
<1>4. CASE Changing(id) \in {"remove", "switchOff"} /\ Settle(id) /\ UNCHANGED <<object, open>>
  <2>1. TypeOK' /\ TimersCounted'
    BY <1>1, <1>2, <1>4, SettleType DEF TypeOK, SaveFailed, TimersCounted
  <2>2. job'[id] = Idle
    BY <1>1, <1>2, <1>4, SettleType
  <2>3. Shape(id)'
    BY <1>1, <1>4, <2>2, SettledShape DEF Shape, SaveFailed, Maybe
  <2> QED
    BY <1>1, <1>2, <1>4, <2>1, <2>3, SettleType, ChangeStep DEF SaveFailed
<1> QED
  BY <1>3, <1>4 DEF SaveFailed

LEMMA PutSavedStep ==
    ASSUME IInv, NEW id \in Id, PutSaved(id)
    PROVE  IInv'
<1>1. /\ TypeOK /\ TimersCounted /\ Alive /\ Shape(id)
      /\ job[id].stage = "committed" /\ Changing(id) = "put"
      /\ simulations' = [simulations EXCEPT ![id] = job[id].sim]
  BY DEF IInv, PutSaved, At
<1>2. /\ job[id].sim \in Own(id) \cap Sim /\ pending[id] # <<>> /\ Own(id) \subseteq Sim
      /\ job[id].old # None => job[id].old \in Own(id) \cap Sim
      /\ object[job[id].sim].input \in Input /\ Readable(object[job[id].sim].input)
      /\ "releasing" \in Stage \ {"idle"}
  BY <1>1, RunningFacts DEF Own, Sim, Stage
<1>3. /\ simulations' \in [Id -> Maybe(Sim)] /\ simulations'[id] = job[id].sim
      /\ \A i \in Id \ {id} : simulations'[i] = simulations[i]
  BY <1>1, <1>2 DEF TypeOK, Maybe
<1>4. CASE job[id].old = None /\ Settle(id) /\ UNCHANGED <<object, open>>
  <2>1. TypeOK' /\ TimersCounted'
    BY <1>1, <1>2, <1>3, <1>4, SettleType DEF TypeOK, PutSaved, TimersCounted
  <2>2. job'[id] = Idle
    BY <1>1, <1>2, <1>4, SettleType
  <2>3. Shape(id)'
    BY <1>2, <1>3, <1>4, <2>2, SettledShape DEF Maybe
  <2> QED
    BY <1>1, <1>2, <1>3, <1>4, <2>1, <2>3, SettleType, ChangeStep DEF PutSaved
<1>5. CASE job[id].old # None /\ StopTimers(job[id].old) /\ Await(id, "releasing")
  <2>1. /\ object' \in [Sim -> Object] /\ TimersCounted'
        /\ \A x \in Sim : object'[x].input = object[x].input
    BY <1>1, <1>2, <1>5, StopTimersType
  <2>2. /\ pending' = pending /\ job' \in [Id -> Job]
        /\ job'[id] = [job[id] EXCEPT !.stage = "releasing"]
        /\ \A i \in Id \ {id} : job'[i] = job[i]
        /\ awaited' = awaited
    BY <1>1, <1>2, <1>5, AwaitType
  <2>3. TypeOK'
    BY <1>1, <1>3, <1>5, <2>1, <2>2 DEF TypeOK, PutSaved, StopTimers
  <2>4. job'[id].stage = "releasing" /\ job'[id].sim = job[id].sim /\ job'[id].old = job[id].old
    BY <1>1, <2>2 DEF TypeOK, Job
  <2>5. PutShape(id)'
    BY <1>1, <1>2, <1>3, <1>5, <2>1, <2>2, <2>4 DEF Shape, RunningShape, PutShape
  <2>6. RunningShape(id)'
    BY <1>1, <1>2, <2>2, <2>4, <2>5 DEF RunningShape, Shape, Changing
  <2>7. Shape(id)'
    BY <1>1, <1>2, <1>3, <2>1, <2>4, <2>6 DEF Shape, Maybe
  <2> QED
    BY <1>1, <1>2, <1>3, <2>1, <2>2, <2>3, <2>7, ChangeStep DEF PutSaved
<1> QED
  BY <1>4, <1>5 DEF PutSaved

\* setEnabled() flips `enabled` of the registered object and nothing else.
LEMMA SwitchedInput ==
    ASSUME NEW i \in Input, Readable(i), NEW b \in BOOLEAN
    PROVE  /\ [i EXCEPT !.enabled = b] \in Input
           /\ Readable([i EXCEPT !.enabled = b])
           /\ [i EXCEPT !.enabled = b].enabled = b
  BY NoneAssumption DEF Input, Readable

LEMMA SwitchOnSavedStep ==
    ASSUME IInv, NEW id \in Id, SwitchOnSaved(id)
    PROVE  IInv'
<1> DEFINE s == job[id].sim
           o == [object[s] EXCEPT !.input = [@ EXCEPT !.enabled = TRUE]]
<1>1. /\ TypeOK /\ TimersCounted /\ Alive /\ Shape(id)
      /\ job[id].stage = "committed" /\ Changing(id) = "switchOn" /\ Settle(id)
  BY DEF IInv, SwitchOnSaved, At
<1>2. /\ s \in Own(id) \cap Sim /\ pending[id] # <<>> /\ Own(id) \subseteq Sim
      /\ object[s].input \in Input /\ Readable(object[s].input)
  BY <1>1, RunningFacts DEF Own, Sim
<1>3. simulations[id] = s
  BY <1>1 DEF Shape, RunningShape, StartShape
<1>4. object[s] \in Object /\ (object[s].timer => object[s].ticking > 0)
  BY <1>1, <1>2 DEF TypeOK, TimersCounted
<1>5. /\ o \in Object /\ o.timer = object[s].timer /\ o.ticking = object[s].ticking
      /\ o.input \in Input /\ Readable(o.input)
  BY <1>2, <1>4, SwitchedInput DEF Object, Maybe
<1>6. object' = [object EXCEPT ![s] = o]
  BY DEF SwitchOnSaved
<1>7. /\ object' \in [Sim -> Object] /\ TimersCounted' /\ object'[s] = o
      /\ \A x \in Sim \ {s} : object'[x] = object[x]
  <2> HIDE DEF s, o
  <2> QED
    BY <1>1, <1>2, <1>4, <1>5, <1>6, UpdateObject
<1>8. TypeOK'
  BY <1>1, <1>2, <1>7, SettleType DEF TypeOK, SwitchOnSaved
<1>9. Shape(id)'
  <2> HIDE DEF s, o
  <2>1. job'[id] = Idle
    BY <1>1, <1>2, SettleType
  <2> QED
    BY <1>2, <1>3, <1>5, <1>7, <2>1, SettledShape DEF SwitchOnSaved, Maybe
<1> QED
  BY <1>1, <1>2, <1>7, <1>8, <1>9, SettleType, ChangeStep DEF SwitchOnSaved

LEMMA StopSavedStep ==
    ASSUME IInv, NEW id \in Id, StopSaved(id)
    PROVE  IInv'
<1> DEFINE s == job[id].sim
           o == [Stopped(object[s]) EXCEPT !.input.enabled = FALSE]
<1>1. /\ TypeOK /\ TimersCounted /\ Alive /\ Shape(id)
      /\ job[id].stage = "committed" /\ Changing(id) \in {"remove", "switchOff"}
      /\ Await(id, "releasing")
  BY DEF IInv, StopSaved, At
<1>2. /\ s \in Own(id) \cap Sim /\ pending[id] # <<>> /\ Own(id) \subseteq Sim
      /\ object[s].input \in Input /\ Readable(object[s].input)
      /\ "releasing" \in Stage \ {"idle"}
  BY <1>1, RunningFacts DEF Own, Sim, Stage
<1>3. CASE Changing(id) = "remove" /\ StopTimers(s)
  <2>1. /\ object' \in [Sim -> Object] /\ TimersCounted'
        /\ \A x \in Sim : object'[x].input = object[x].input
    BY <1>1, <1>2, <1>3, StopTimersType
  <2>2. TypeOK'
    BY <1>1, <1>2, <1>3, <2>1, AwaitType DEF TypeOK, StopSaved, StopTimers
  <2>3. Shape(id)'
    BY <1>1, <1>2, <1>3, <2>1, AwaitShape DEF StopSaved
  <2> QED
    BY <1>1, <1>2, <1>3, <2>1, <2>2, <2>3, AwaitType, ChangeStep DEF StopSaved
<1>4. CASE Changing(id) = "switchOff" /\ object' = [object EXCEPT ![s] = o] /\ UNCHANGED open
  <2>1. object[s] \in Object /\ (object[s].timer => object[s].ticking > 0)
    BY <1>1, <1>2 DEF TypeOK, TimersCounted
  <2>2. /\ Stopped(object[s]) \in Object /\ ~Stopped(object[s]).timer
        /\ Stopped(object[s]).input = object[s].input
    BY <2>1, StoppedType
  <2>3. o = [Stopped(object[s]) EXCEPT !.input = [object[s].input EXCEPT !.enabled = FALSE]]
    BY <2>2
  <2>4. /\ o \in Object /\ ~o.timer
        /\ o.input \in Input /\ Readable(o.input) /\ o.input.enabled = FALSE
    BY <1>2, <2>2, <2>3, SwitchedInput DEF Object, Maybe
  <2>5. /\ object' \in [Sim -> Object] /\ TimersCounted' /\ object'[s] = o
        /\ \A x \in Sim \ {s} : object'[x] = object[x]
    <3> HIDE DEF s, o
    <3> QED
      BY <1>1, <1>2, <1>4, <2>4, UpdateObject
  <2>6. /\ pending' = pending /\ job' \in [Id -> Job] /\ awaited' = awaited
        /\ job'[id] = [job[id] EXCEPT !.stage = "releasing"]
        /\ \A i \in Id \ {id} : job'[i] = job[i]
    BY <1>1, <1>2, AwaitType
  <2>7. TypeOK'
    BY <1>1, <1>4, <2>5, <2>6 DEF TypeOK, StopSaved
  <2>8. job'[id].stage = "releasing" /\ job'[id].sim = s /\ job'[id].old = job[id].old
    BY <1>1, <2>6 DEF TypeOK, Job
  <2>9. simulations'[id] = s
    BY <1>1 DEF Shape, RunningShape, StopShape, StopSaved
  <2>10. RunningShape(id)'
    <3> HIDE DEF s, o
    <3>1. object'[job'[id].sim].input.enabled = FALSE
      BY <2>4, <2>5, <2>8
    <3>2. Changing(id)' = "switchOff" /\ pending'[id] # <<>>
      BY <1>2, <1>4, <2>6 DEF Changing
    <3>3. StopShape(id)'
      BY <2>8, <2>9, <3>1 DEF StopShape
    <3> QED
      BY <1>2, <2>8, <3>2, <3>3, NoneAssumption DEF RunningShape
  <2>11. Shape(id)'
    <3> HIDE DEF o
    <3> QED
      BY <1>1, <1>2, <2>4, <2>5, <2>8, <2>9, <2>10 DEF Shape, Maybe
  <2> QED
    BY <1>1, <1>2, <2>5, <2>6, <2>7, <2>11, ChangeStep DEF StopSaved
<1> QED
  BY <1>3, <1>4 DEF StopSaved

\* The end of a teardown: the object is some object with no connection; the
\* rest of its fields is as `after` says.
LEMMA DisconnectType ==
    ASSUME TypeOK, TimersCounted, NEW s \in Sim, NEW after \in Object,
           after.timer = object[s].timer, after.ticking = object[s].ticking,
           Disconnect(s, after)
    PROVE  /\ object' \in [Sim -> Object] /\ TimersCounted'
           /\ open' \subseteq Conn
           /\ object'[s].input = after.input
           /\ \A x \in Sim \ {s} : object'[x] = object[x]
<1> DEFINE o == [after EXCEPT !.link = None]
<1>1. o \in Object /\ o.input = after.input /\ o.timer = after.timer /\ o.ticking = after.ticking
  BY DEF Object, Maybe
<1>2. object' = [object EXCEPT ![s] = o] /\ open' \subseteq Conn
  BY DEF Disconnect, TypeOK
<1>3. o.timer => o.ticking > 0
  BY <1>1 DEF TimersCounted
<1> HIDE DEF o
<1> QED
  BY <1>1, <1>2, <1>3, UpdateObject

LEMMA ForgottenType ==
    ASSUME NEW o \in Object
    PROVE  /\ Forgotten(o) \in Object
           /\ Forgotten(o).timer = o.timer /\ Forgotten(o).ticking = o.ticking
  BY DEF Forgotten, Object, Maybe

LEMMA RetriedType ==
    ASSUME NEW o \in Object
    PROVE  /\ Retried(o) \in Object /\ Retried(o).input = o.input
           /\ Retried(o).timer = o.timer /\ Retried(o).ticking = o.ticking
  BY DEF Retried, Object

\* A change that settles at the end of a teardown, with an object of id, keeps
\* the invariant if what is then registered kept its input.
LEMMA SettledStep ==
    ASSUME IInv, Alive, NEW id \in Id, Settle(id), pending[id] # <<>>, NEW s \in Own(id),
           object' \in [Sim -> Object], TimersCounted', open' \subseteq Conn,
           \A x \in Sim \ {s} : object'[x] = object[x],
           simulations' = [simulations EXCEPT ![id] = simulations'[id]],
           simulations'[id] \in Maybe(Own(id)),
           simulations'[id] # None => /\ object'[simulations'[id]].input \in Input
                                      /\ Readable(object'[simulations'[id]].input),
           UNCHANGED <<store, phase, closing>>
    PROVE  IInv'
<1>1. TypeOK /\ TypeOK' /\ job'[id] = Idle
  <2>1. simulations' \in [Id -> Maybe(Sim)]
    <3>1. simulations'[id] \in Maybe(Sim)
      BY DEF Own, Sim, Maybe
    <3> QED
      BY <3>1 DEF IInv, TypeOK
  <2> QED
    BY <2>1, SettleType DEF IInv, TypeOK
<1>2. Shape(id)'
  BY <1>1, SettledShape
<1>3. \A i \in Id \ {id} : simulations'[i] = simulations[i]
  BY <1>1 DEF TypeOK
<1> QED
  BY <1>1, <1>2, <1>3, SettleType, ChangeStep DEF IInv

LEMMA UndoneStep ==
    ASSUME IInv, NEW id \in Id, Undone(id)
    PROVE  IInv'
<1> DEFINE s == job[id].sim
<1>1. /\ TypeOK /\ TimersCounted /\ Alive /\ Shape(id) /\ job[id].stage = "undoing" /\ Settle(id)
  BY DEF IInv, Undone, At
<1>2. /\ s \in Own(id) \cap Sim /\ pending[id] # <<>>
      /\ object[s] \in Object
      /\ object[s].input \in Input /\ Readable(object[s].input)
      /\ simulations[id] \in Maybe(Own(id)) /\ id \in DOMAIN simulations
      /\ Own(id) \subseteq Sim
  BY <1>1, RunningFacts DEF TypeOK, Shape, Own, Sim
<1>3. PICK after \in Object :
        /\ after.timer = object[s].timer /\ after.ticking = object[s].ticking
        /\ Disconnect(s, after)
        /\ Changing(id) # "put" => after.input = object[s].input
        /\ Changing(id) \in {"put", "switchOn", "retry"}
  BY <1>2, ForgottenType, RetriedType DEF Undone
<1>4. /\ object' \in [Sim -> Object] /\ TimersCounted' /\ open' \subseteq Conn
      /\ object'[s].input = after.input
      /\ \A x \in Sim \ {s} : object'[x] = object[x]
  BY <1>1, <1>2, <1>3, DisconnectType
<1>5. simulations'[id] = IF Changing(id) = "put" /\ job[id].old = None
                          THEN None ELSE simulations[id]
  BY <1>2 DEF Undone
<1>6. simulations'[id] # None => /\ object'[simulations'[id]].input \in Input
                                 /\ Readable(object'[simulations'[id]].input)
  <2>1. CASE Changing(id) # "put"
    <3>1. simulations'[id] = s
      BY <1>1, <1>3, <1>5, <2>1 DEF Shape, RunningShape, StartShape
    <3> QED
      BY <1>2, <1>3, <1>4, <2>1, <3>1
  <2>2. CASE Changing(id) = "put"
    <3>1. simulations'[id] # None => simulations'[id] = job[id].old /\ job[id].old # s
                                     /\ simulations[id] = job[id].old
      BY <1>1, <1>5, <2>2 DEF Shape, RunningShape, PutShape
    <3>2. simulations'[id] # None => simulations'[id] \in Sim \ {s}
      BY <1>2, <3>1 DEF Maybe
    <3> QED
      BY <1>1, <1>4, <3>1, <3>2 DEF Shape
  <2> QED
    BY <2>1, <2>2
<1>7. /\ simulations' = [simulations EXCEPT ![id] = simulations'[id]]
      /\ simulations'[id] \in Maybe(Own(id))
  BY <1>2, <1>5 DEF Undone, Maybe
<1> QED
  BY <1>1, <1>2, <1>4, <1>6, <1>7, SettledStep DEF Undone

LEMMA ReleasedStep ==
    ASSUME IInv, NEW id \in Id, Released(id)
    PROVE  IInv'
<1> DEFINE s == IF Changing(id) = "put" THEN job[id].old ELSE job[id].sim
<1>1. /\ TypeOK /\ TimersCounted /\ Alive /\ Shape(id) /\ job[id].stage = "releasing" /\ Settle(id)
  BY DEF IInv, Released, At
<1>2. RunningShape(id) /\ Changing(id) \in {"put", "remove", "switchOff"}
  BY <1>1 DEF Shape, Released
<1>3. /\ s \in Own(id) \cap Sim /\ pending[id] # <<>>
      /\ Changing(id) = "put" => simulations[id] = job[id].sim /\ job[id].sim # s
      /\ Changing(id) # "put" => simulations[id] = s
      /\ Own(id) \subseteq Sim
  BY <1>1, <1>2, RunningFacts DEF RunningShape, PutShape, StopShape, Own, Sim
<1>4. /\ object[s] \in Object /\ id \in DOMAIN simulations
      /\ simulations[id] \in Own(id) \cap Sim
      /\ object[simulations[id]].input \in Input /\ Readable(object[simulations[id]].input)
  BY <1>1, <1>2, <1>3, RunningFacts DEF TypeOK
<1>5. PICK after \in Object :
        /\ after.timer = object[s].timer /\ after.ticking = object[s].ticking
        /\ Disconnect(s, after)
        /\ Changing(id) = "switchOff" => after.input = object[s].input
  BY <1>4, ForgottenType DEF Released
<1>6. /\ object' \in [Sim -> Object] /\ TimersCounted' /\ open' \subseteq Conn
      /\ object'[s].input = after.input
      /\ \A x \in Sim \ {s} : object'[x] = object[x]
  <2> HIDE DEF s
  <2> QED
    BY <1>1, <1>3, <1>5, DisconnectType
<1>7. simulations'[id] = IF Changing(id) = "remove" THEN None ELSE simulations[id]
  BY <1>4 DEF Released
<1>8. simulations'[id] # None => /\ object'[simulations'[id]].input \in Input
                                 /\ Readable(object'[simulations'[id]].input)
  <2> HIDE DEF s
  <2> QED
    BY <1>2, <1>3, <1>4, <1>5, <1>6, <1>7
<1>9. /\ simulations' = [simulations EXCEPT ![id] = simulations'[id]]
      /\ simulations'[id] \in Maybe(Own(id))
  BY <1>4, <1>7 DEF Released, Maybe
<1> QED
  <2> HIDE DEF s
  <2> QED
    BY <1>1, <1>3, <1>6, <1>8, <1>9, SettledStep DEF Released

-----------------------------------------------------------------------------
(* Retries and the process                                                 *)

LEMMA RetryFiresStep ==
    ASSUME IInv, NEW s \in Sim, RetryFires(s)
    PROVE  IInv'
<1> DEFINE o == [object[s] EXCEPT !.retry = FALSE]
<1>1. TypeOK /\ TimersCounted /\ Alive
  BY DEF IInv, RetryFires
<1>2. s[1] \in Id /\ RetryOf(s) \in Change
  BY DEF Sim, Change
<1>3. object[s] \in Object /\ (object[s].timer => object[s].ticking > 0)
  BY <1>1 DEF TypeOK, TimersCounted
<1>4. /\ o \in Object /\ o.input = object[s].input
      /\ o.timer = object[s].timer /\ o.ticking = object[s].ticking
  BY <1>3 DEF Object
<1>5. /\ object' \in [Sim -> Object] /\ TimersCounted'
      /\ \A x \in Sim : object'[x].input = object[x].input
  <2>1. object' = [object EXCEPT ![s] = o]
    BY DEF RetryFires
  <2> HIDE DEF o
  <2> QED
    BY <1>1, <1>3, <1>4, <2>1, UpdateObject
<1>6. /\ pending' \in [Id -> Seq(Change)]
      /\ \A i \in Id : pending[i] # <<>> =>
            pending'[i] # <<>> /\ Head(pending'[i]) = Head(pending[i])
  <2>1. pending[s[1]] \in Seq(Change)
    BY <1>1, <1>2 DEF TypeOK
  <2>2. pending' = [pending EXCEPT ![s[1]] = Append(pending[s[1]], RetryOf(s))]
    BY DEF RetryFires
  <2> QED
    BY <1>1, <1>2, <2>1, <2>2, AppendKeepsHead DEF TypeOK
<1>7. TypeOK'
  BY <1>1, <1>5, <1>6 DEF TypeOK, RetryFires
<1>8. \A i \in Id : Shape(i)'
  BY <1>1, <1>5, <1>6, ShapesStable DEF IInv, RetryFires
<1> QED
  BY <1>1, <1>5, <1>7, <1>8 DEF IInv, RetryFires, Alive

LEMMA InitIInv == Init => IInv
<1> SUFFICES ASSUME Init PROVE IInv
  OBVIOUS
<1>1. Blank \in Object /\ Idle \in Job /\ ~Blank.timer
  BY DEF Blank, Object, Idle, Job, Stage, Maybe
<1>2. TypeOK
  BY <1>1, BoundsAssumption DEF Init, TypeOK, Phase, Maybe
<1> QED
  BY <1>1, <1>2 DEF Init, IInv, Vacant, TimersCounted, Alive

LEMMA RestartStep ==
    ASSUME IInv, Restart
    PROVE  IInv'
<1>1. Blank \in Object /\ Idle \in Job /\ ~Blank.timer
  BY DEF Blank, Object, Idle, Job, Stage, Maybe
<1>2. TypeOK'
  BY <1>1 DEF IInv, Restart, TypeOK, Phase, Maybe
<1> QED
  BY <1>1, <1>2 DEF Restart, IInv, Vacant, TimersCounted, Alive

LEMMA ResumeStep ==
    ASSUME IInv, Resume
    PROVE  IInv'
<1> DEFINE resumed == [id \in Id |-> IF Readable(store[id]) THEN NewSim(id) ELSE None]
           row(s) == [Blank EXCEPT !.input = store[s[1]]]
<1>1. TypeOK /\ Vacant
  BY DEF IInv, Resume
<1>2. \A id \in Id : NewSim(id) \in Own(id)
  <2> SUFFICES ASSUME NEW id \in Id PROVE NewSim(id) \in Own(id)
    OBVIOUS
  <2>1. PICK s \in Own(id) : TRUE
    <3>1. PICK k \in Slot : TRUE
      BY SlotAssumption
    <3>2. <<id, k>> \in Own(id)
      BY DEF Own
    <3> QED
      BY <3>2
  <2>2. object[s] = Blank /\ s \in Sim /\ s # None
    BY <1>1, NoneAssumption DEF Vacant, Own, Sim
  <2>3. s \in FreeSims(id)
    <3>1. object[s].link = None /\ ~object[s].retry /\ object[s].ticking = 0
      BY <2>2 DEF Blank
    <3>2. s \notin {simulations[id], job[id].sim, job[id].old}
      BY <1>1, <2>2 DEF Vacant, Idle
    <3>3. pending[id] = <<>> /\ closing = {}
      BY <1>1 DEF Vacant
    <3> QED
      BY <3>1, <3>2, <3>3 DEF FreeSims
  <2> QED
    BY <2>3 DEF NewSim, FreeSims
<1>3. \A id \in Id : /\ resumed[id] \in Maybe(Own(id)) /\ resumed[id] \in Maybe(Sim)
                     /\ resumed[id] # None => Readable(store[id]) /\ resumed[id] \in Sim
                                              /\ resumed[id][1] = id
  BY <1>2, NoneAssumption DEF Maybe, Own, Sim
<1>4. \A s \in Sim : s[1] \in Id /\ store[s[1]] \in Maybe(Input)
  BY <1>1 DEF Sim, TypeOK
<1>5. \A s \in Sim : /\ row(s) \in Object /\ row(s).input = store[s[1]]
                     /\ ~row(s).timer
                     /\ Blank \in Object /\ ~Blank.timer
  BY <1>4 DEF Blank, Object, Maybe
<1>6. object' = [s \in Sim |-> IF s = resumed[s[1]] THEN row(s) ELSE Blank]
  BY DEF Resume
<1>7. object' \in [Sim -> Object] /\ TimersCounted'
  <2> HIDE DEF resumed, row
  <2> QED
    BY <1>5, <1>6 DEF TimersCounted
<1>8. pending' \in [Id -> Seq(Change)]
  <2>1. \A id \in Id : resumed[id] # None => <<RetryOf(resumed[id])>> \in Seq(Change)
    <3> HIDE DEF resumed
    <3> QED
      BY <1>3 DEF Change
  <2>2. \A id \in Id : Readable(store[id]) => resumed[id] # None
    BY <1>2, NoneAssumption DEF Own, Sim
  <2>3. pending' = [id \in Id |-> IF Readable(store[id]) /\ store[id].enabled
                                  THEN <<RetryOf(resumed[id])>> ELSE <<>>]
    BY DEF Resume
  <2> HIDE DEF resumed
  <2> QED
    BY <2>1, <2>2, <2>3
<1>9. simulations' = resumed /\ job' = job /\ job = [id \in Id |-> Idle]
  BY <1>1 DEF Resume, Vacant
<1>10. TypeOK'
  <2>1. simulations' \in [Id -> Maybe(Sim)]
    BY <1>3, <1>9
  <2> QED
    BY <1>1, <1>7, <1>8, <2>1 DEF Resume, TypeOK, Phase
<1>11. \A id \in Id : Shape(id)'
  <2> SUFFICES ASSUME NEW id \in Id PROVE Shape(id)'
    OBVIOUS
  <2>1. job'[id] = Idle /\ simulations'[id] = resumed[id]
    BY <1>9
  <2>2. resumed[id] # None => object'[resumed[id]].input = store[id]
    <3> HIDE DEF row, resumed
    <3> QED
      BY <1>3, <1>5, <1>6
  <2>3. resumed[id] # None => store[id] \in Input /\ Readable(store[id])
    <3> HIDE DEF resumed
    <3> QED
      BY <1>1, <1>3 DEF TypeOK, Maybe, Readable
  <2> HIDE DEF resumed
  <2> QED
    BY <1>3, <2>1, <2>2, <2>3, SettledShape
<1> QED
  BY <1>7, <1>10, <1>11 DEF IInv, Resume

\* A step of the shutdown changes no input and no queue.
LEMMA ShutdownStep ==
    ASSUME IInv, Shutdown \/ ShutsDown
    PROVE  IInv'
<1>1. TypeOK /\ TimersCounted /\ Alive /\ \A id \in Id : Shape(id)
  BY DEF IInv, Alive, Shutdown, ShutsDown, ShutdownTeardown, ShutdownCloses, ShutdownDone
<1>2. CASE Shutdown
  <2>1. TypeOK' /\ TimersCounted' /\ Alive'
    BY <1>1, <1>2 DEF TypeOK, TimersCounted, Shutdown, Phase, Alive
  <2>2. \A id \in Id : Shape(id)'
    BY <1>1, <1>2, ShapesStable DEF Shutdown
  <2> QED
    BY <1>2, <2>1, <2>2 DEF IInv, Shutdown
<1>3. CASE ShutdownTeardown
  <2> DEFINE all == {simulations[id] : id \in Registered}
  <2>1. all \subseteq Sim
    BY <1>1 DEF TypeOK, Registered, Maybe
  <2>2. \A s \in Sim : /\ object[s] \in Object /\ Stopped(object[s]) \in Object
                       /\ ~Stopped(object[s]).timer
                       /\ Stopped(object[s]).input = object[s].input
                       /\ object[s].link \in Maybe(Conn)
    <3> SUFFICES ASSUME NEW s \in Sim
                 PROVE  /\ object[s] \in Object /\ Stopped(object[s]) \in Object
                        /\ ~Stopped(object[s]).timer
                        /\ Stopped(object[s]).input = object[s].input
                        /\ object[s].link \in Maybe(Conn)
      OBVIOUS
    <3>1. object[s] \in Object /\ (object[s].timer => object[s].ticking > 0)
      BY <1>1 DEF TypeOK, TimersCounted
    <3> QED
      BY <3>1, StoppedType DEF Object
  <2>3. object' = [s \in Sim |-> IF s \in all THEN Stopped(object[s]) ELSE object[s]]
    BY <1>3 DEF ShutdownTeardown
  <2>4. /\ object' \in [Sim -> Object] /\ TimersCounted'
        /\ \A s \in Sim : object'[s].input = object[s].input
    <3> HIDE DEF all
    <3> QED
      BY <1>1, <2>2, <2>3 DEF TimersCounted
  <2>5. closing' \subseteq Sim \X Maybe(Conn)
    <3>1. closing' = {<<s, object[s].link>> : s \in all}
      BY <1>3 DEF ShutdownTeardown
    <3> HIDE DEF all
    <3> QED
      BY <2>1, <2>2, <3>1
  <2>6. TypeOK' /\ Alive'
    BY <1>1, <1>3, <2>4, <2>5 DEF TypeOK, ShutdownTeardown, Phase, Alive, queueVars
  <2>7. \A id \in Id : Shape(id)'
    BY <1>1, <1>3, <2>4, ShapesStable DEF ShutdownTeardown, queueVars
  <2> QED
    BY <1>3, <2>4, <2>6, <2>7 DEF IInv, ShutdownTeardown
<1>4. ASSUME NEW s \in Sim, NEW c \in Maybe(Conn), ShutdownCloses(s, c)
      PROVE  IInv'
  <2> DEFINE o == [object[s] EXCEPT !.link = None]
  <2>1. object[s] \in Object /\ (object[s].timer => object[s].ticking > 0)
    BY <1>1 DEF TypeOK, TimersCounted
  <2>2. /\ o \in Object /\ o.input = object[s].input
        /\ o.timer = object[s].timer /\ o.ticking = object[s].ticking
    BY <2>1 DEF Object, Maybe
  <2>3. /\ object' \in [Sim -> Object] /\ TimersCounted'
        /\ \A x \in Sim : object'[x].input = object[x].input
    <3>1. object' = [object EXCEPT ![s] = o]
      BY <1>4 DEF ShutdownCloses
    <3> HIDE DEF o
    <3> QED
      BY <1>1, <2>1, <2>2, <3>1, UpdateObject
  <2>4. TypeOK' /\ Alive'
    BY <1>1, <1>4, <2>3 DEF TypeOK, ShutdownCloses, Phase, Alive, queueVars
  <2>5. \A id \in Id : Shape(id)'
    BY <1>1, <1>4, <2>3, ShapesStable DEF ShutdownCloses, queueVars
  <2> QED
    BY <1>4, <2>3, <2>4, <2>5 DEF IInv, ShutdownCloses
<1>5. CASE ShutdownDone
  <2>1. TypeOK' /\ TimersCounted'
    BY <1>1, <1>5 DEF TypeOK, TimersCounted, ShutdownDone, Phase, queueVars, Maybe
  <2> QED
    BY <1>5, <2>1 DEF IInv, ShutdownDone, Alive
<1> QED
  BY <1>2, <1>3, <1>4, <1>5 DEF ShutsDown

-----------------------------------------------------------------------------
(* Theorems                                                                *)

LEMMA NextIInv == IInv /\ [Next]_vars => IInv'
<1> SUFFICES ASSUME IInv, [Next]_vars PROVE IInv'
  OBVIOUS
<1>1. ASSUME NEW id \in Id, NEW change \in Calls, Call(id, change) PROVE IInv'
  BY <1>1, CallStep
<1>2. ASSUME NEW id \in Id, Steps(id) PROVE IInv'
  BY <1>2, BeginPutStep, BeginStopStep, BeginStartStep, MootStep, StartingStep,
     StartFailedStep, CommitStep, SaveFailedStep, PutSavedStep,
     SwitchOnSavedStep, StopSavedStep, UndoneStep, ReleasedStep DEF Steps
<1>3. ASSUME NEW s \in Sim, RetryFires(s) PROVE IInv'
  BY <1>3, RetryFiresStep
<1>4. CASE UNCHANGED vars
  BY <1>4 DEF IInv, TypeOK, TimersCounted, Vacant, Alive, Shape, RunningShape, PutShape,
     StopShape, StartShape, Changing, vars, queueVars
<1> QED
  BY <1>1, <1>2, <1>3, <1>4, ResumeStep, ShutdownStep, RestartStep DEF Next

\* Nothing that the changes of one simulation rely on is disturbed by the steps
\* of another, by calls that join the queue, by timers, or by the shutdown.
THEOREM Inductive == Spec => []IInv
  BY NextIInv, InitIInv, PTL DEF Spec

\* The registry's state is what its type declarations say.
THEOREM TypeCorrect == Spec => []TypeOK
<1>1. IInv => TypeOK
  BY DEF IInv
<1> QED
  BY <1>1, Inductive, PTL

-----------------------------------------------------------------------------
(* The settings database agrees with the registry                          *)

\* What list() makes of the row of id, at every stage of the running change.
RowShape(id) ==
    Listed(id) =
        IF job[id].stage = "committed" THEN Written(id)
        ELSE IF job[id].stage # "idle" /\ Changing(id) = "put" /\ job[id].old = None THEN None
        ELSE IF job[id].stage = "releasing" /\ Changing(id) = "remove" THEN None
        ELSE Memory(id)

StoreInv == Alive /\ ~LostReplies => \A id \in Id : RowShape(id)

LEMMA RowStable ==
    ASSUME NEW id \in Id, TypeOK, Shape(id), RowShape(id),
           store'[id] = store[id], simulations'[id] = simulations[id], job'[id] = job[id],
           pending[id] # <<>> => pending'[id] # <<>> /\ Head(pending'[id]) = Head(pending[id]),
           \A s \in Own(id) : object'[s].input = object[s].input
    PROVE  RowShape(id)'
<1>1. Listed(id)' = Listed(id)
  BY DEF Listed
<1>2. Memory(id)' = Memory(id)
  BY DEF Memory, Shape, Maybe
<1>3. CASE job[id].stage = "idle"
  BY <1>1, <1>2, <1>3 DEF RowShape
<1>4. CASE job[id].stage # "idle"
  <2>1. Changing(id)' = Changing(id) /\ Head(pending'[id]) = Head(pending[id])
    BY <1>4 DEF Shape, RunningShape, Changing
  <2>2. object'[job'[id].sim].input = object[job[id].sim].input
    BY <1>4, RunningFacts
  <2>3. Written(id)' = Written(id)
    BY <2>1, <2>2 DEF Written
  <2> QED
    BY <1>1, <1>2, <2>1, <2>3 DEF RowShape
<1> QED
  BY <1>3, <1>4

\* A step of the running change of id touches nothing of the other ids.
LEMMA StepFrame ==
    ASSUME IInv, NEW id \in Id, Steps(id)
    PROVE  /\ Alive /\ TypeOK /\ Shape(id) /\ phase' = phase
           /\ \A i \in Id \ {id} : /\ simulations'[i] = simulations[i]
                                   /\ job'[i] = job[i]
                                   /\ pending'[i] = pending[i]
                                   /\ store'[i] = store[i]
           /\ \A s \in Sim : s \notin Own(id) => object'[s].input = object[s].input
<1>1. Alive /\ TypeOK /\ Shape(id) /\ phase' = phase /\ TimersCounted
  BY DEF IInv, Steps, BeginPut, BeginStop, BeginStart, Moot, Connected, Prepared, StartFailed,
     Commit, SaveFailed, PutSaved, SwitchOnSaved, StopSaved, Undone, Released, At, MayBegin
<1>2. \A i \in Id \ {id} : simulations'[i] = simulations[i] /\ store'[i] = store[i]
  BY <1>1 DEF TypeOK, Steps, BeginPut, BeginStop, BeginStart, Moot, Connected, Prepared,
     StartFailed, Commit, SaveFailed, PutSaved, SwitchOnSaved, StopSaved, Undone, Released
<1>3. \A i \in Id \ {id} : job'[i] = job[i] /\ pending'[i] = pending[i]
  <2>1. \/ Settle(id)
        \/ \E stage \in Stage : Await(id, stage)
        \/ \E s, old, stage : Begin(id, s, old, stage)
    BY DEF Steps, BeginPut, BeginStop, BeginStart, Moot, Connected, Prepared, StartFailed, Started,
       Commit, SaveFailed, PutSaved, SwitchOnSaved, StopSaved, Undone, Released, Stage
  <2> QED
    BY <1>1, <2>1 DEF Settle, Await, Begin, TypeOK
<1>4. \A s \in Sim : s \notin Own(id) => object'[s].input = object[s].input
  <2>1. CASE BeginPut(id)
    <3>1. NewSim(id) \in Own(id)
      BY <2>1 DEF BeginPut, NewSim, FreeSims
    <3> QED
      BY <1>1, <2>1, <3>1 DEF BeginPut, TypeOK
  <2>2. CASE job[id].stage # "idle" /\ ~Connected(id) /\ ~Prepared(id)
    <3>1. /\ job[id].sim \in Own(id)
          /\ job[id].old # None => job[id].old \in Own(id)
      BY <1>1, <2>2, RunningFacts
    <3>2. Changing(id) = "put" /\ job[id].stage = "releasing" => job[id].old # None
      BY <1>1 DEF Shape, RunningShape, PutShape
    <3> QED
      BY <1>1, <2>2, <3>1, <3>2 DEF TypeOK, Steps, BeginPut, BeginStop, BeginStart, Moot, MayBegin,
         StartFailed, Commit, SaveFailed, PutSaved, SwitchOnSaved, StopSaved, Undone, Released,
         StopTimers, Disconnect, At
  <2>3. CASE BeginStop(id) \/ BeginStart(id) \/ Moot(id)
    BY <2>3 DEF BeginStop, BeginStart, Moot
  <2> QED
    BY <2>1, <2>2, <2>3, ConnectedObject, PreparedObject DEF Steps, StartFailed, Commit, SaveFailed,
       PutSaved, SwitchOnSaved, StopSaved, Undone, Released, At
<1> QED
  BY <1>1, <1>2, <1>3, <1>4

\* Memory and rows after a change settles, for each way to settle.
LEMMA RowSettled ==
    ASSUME NEW id \in Id, job'[id] = Idle, Listed(id)' = Memory(id)'
    PROVE  RowShape(id)'
  BY DEF RowShape, Idle

\* An await inside a change, other than the answer of the database, with every
\* input kept: the row reads as before.
LEMMA RowAwaits ==
    ASSUME IInv, Alive, NEW id \in Id, RowShape(id), NEW stage \in Stage \ {"idle", "committed"},
           job[id].stage \notin {"idle", "committed", "releasing"},
           stage # "releasing",
           Await(id, stage), UNCHANGED <<simulations, store>>,
           \A s \in Sim : object'[s].input = object[s].input
    PROVE  RowShape(id)'
<1>1. TypeOK /\ Shape(id) /\ Own(id) \subseteq Sim
  BY DEF IInv, Own, Sim
<1>2. /\ pending' = pending
      /\ job'[id].stage = stage /\ job'[id].old = job[id].old
  <2>1. stage \in Stage
    OBVIOUS
  <2>2. /\ pending' = pending
        /\ job'[id] = [job[id] EXCEPT !.stage = stage] /\ job[id] \in Job
    BY <1>1, <2>1, AwaitType DEF Await, TypeOK
  <2> QED
    BY <2>2 DEF Job
<1>3. Listed(id)' = Listed(id) /\ Memory(id)' = Memory(id) /\ Changing(id)' = Changing(id)
  BY <1>1, <1>2 DEF Listed, Memory, Changing, Shape, Maybe
<1> QED
  BY <1>2, <1>3 DEF RowShape

LEMMA RowBegins ==
    ASSUME IInv, NEW id \in Id, RowShape(id),
           BeginPut(id) \/ BeginStop(id) \/ BeginStart(id) \/ Moot(id)
    PROVE  RowShape(id)'
<1>1. TypeOK /\ Shape(id) /\ job[id].stage = "idle" /\ pending[id] # <<>> /\ store' = store
  BY DEF IInv, BeginPut, BeginStop, BeginStart, Moot, MayBegin
<1>2. Listed(id) = Memory(id) /\ Listed(id)' = Listed(id)
  BY <1>1 DEF RowShape, Listed
<1>3. CASE Moot(id)
  <2>1. job'[id] = Idle
    BY <1>1, <1>3, SettleType DEF Moot
  <2>2. Memory(id)' = Memory(id)
    BY <1>3 DEF Moot, Memory
  <2> QED
    BY <1>2, <2>1, <2>2, RowSettled
<1>4. CASE BeginPut(id)
  <2> DEFINE new == NewSim(id)
  <2>1. /\ new \in Own(id) /\ new \in Sim /\ new # simulations[id]
        /\ object' = [object EXCEPT ![new] = [Blank EXCEPT !.input = Head(pending[id]).input]]
        /\ simulations' = [simulations EXCEPT ![id] = IF @ = None THEN new ELSE @]
    BY <1>4 DEF BeginPut, NewSim, FreeSims, Own, Sim
  <2>2. /\ job'[id] = [stage |-> FirstStage(Head(pending[id]).input), sim |-> new, old |-> simulations[id]]
        /\ pending' = pending
    BY <1>1, <1>4 DEF BeginPut, Begin, TypeOK
  <2>3. FirstStage(Head(pending[id]).input) \in {"starting", "saving"}
    BY DEF FirstStage
  <2>4. Changing(id)' = "put"
    BY <1>4, <2>2 DEF Changing, BeginPut, MayBegin
  <2>5. CASE simulations[id] = None
    <3>1. Listed(id)' = None
      BY <1>2, <2>5 DEF Memory
    <3> QED
      BY <2>2, <2>3, <2>4, <2>5, <3>1 DEF RowShape
  <2>6. CASE simulations[id] # None
    <3>1. simulations'[id] = simulations[id] /\ simulations[id] \in Sim \ {new}
      BY <1>1, <2>1, <2>6 DEF TypeOK, Maybe
    <3>2. Memory(id)' = Memory(id)
      BY <1>1, <2>1, <3>1 DEF Memory, TypeOK
    <3> QED
      BY <1>2, <2>2, <2>3, <2>4, <2>6, <3>2 DEF RowShape
  <2> QED
    BY <2>5, <2>6
<1>5. CASE BeginStop(id) \/ BeginStart(id)
  <2>1. /\ job'[id].stage \in {"saving", "starting"} /\ pending' = pending
        /\ UNCHANGED <<simulations, object>>
    BY <1>1, <1>5 DEF BeginStop, BeginStart, Begin, TypeOK
  <2>2. Changing(id)' # "put"
    BY <1>5, <2>1 DEF Changing, BeginStop, BeginStart, MayBegin
  <2>3. Memory(id)' = Memory(id)
    BY <2>1 DEF Memory
  <2> QED
    BY <1>2, <2>1, <2>2, <2>3 DEF RowShape
<1> QED
  BY <1>3, <1>4, <1>5

LEMMA RowStarts ==
    ASSUME IInv, NEW id \in Id, RowShape(id),
           Connected(id) \/ Prepared(id) \/ StartFailed(id)
    PROVE  RowShape(id)'
<1>1. /\ TypeOK /\ Alive /\ Shape(id) /\ job[id].stage \in {"starting", "preparing"}
      /\ UNCHANGED <<simulations, store>>
  BY DEF IInv, Connected, Prepared, StartFailed, At
<1>2. \A s \in Sim : object'[s].input = object[s].input
  <2>1. CASE StartFailed(id)
    BY <1>1, <2>1, RunningFacts, StopTimersType DEF StartFailed, IInv
  <2> QED
    BY <2>1, ConnectedObject, PreparedObject
<1>3. ASSUME Settle(id), Changing(id) = "retry" PROVE RowShape(id)'
  <2>1. job'[id] = Idle /\ Own(id) \subseteq Sim
    BY <1>1, <1>3, RunningFacts, SettleType DEF Own, Sim
  <2>2. Listed(id) = Memory(id)
    BY <1>1, <1>3 DEF RowShape
  <2>3. Listed(id)' = Listed(id) /\ Memory(id)' = Memory(id)
    BY <1>1, <1>2, <2>1 DEF Listed, Memory, Shape, Maybe
  <2> QED
    BY <2>1, <2>2, <2>3, RowSettled
<1>4. ASSUME NEW stage \in {"preparing", "saving", "undoing"}, Await(id, stage)
      PROVE  RowShape(id)'
  <2>1. stage \in Stage \ {"idle", "committed"} /\ stage # "releasing"
    BY DEF Stage
  <2> QED
    BY <1>1, <1>2, <1>4, <2>1, RowAwaits
<1> QED
  BY <1>3, <1>4 DEF Connected, Prepared, StartFailed, Started

LEMMA RowSaves ==
    ASSUME IInv, ~LostReplies, NEW id \in Id, RowShape(id), Commit(id) \/ SaveFailed(id)
    PROVE  RowShape(id)'
<1>1. TypeOK /\ Alive /\ Shape(id) /\ job[id].stage = "saving" /\ Own(id) \subseteq Sim
  BY DEF IInv, Commit, SaveFailed, At, Own, Sim
<1>2. CASE Commit(id)
  <2>1. "committed" \in Stage
    BY DEF Stage
  <2>2. /\ job'[id] = [job[id] EXCEPT !.stage = "committed"]
        /\ pending' = pending /\ job[id] \in Job
    BY <1>1, <1>2, <2>1, AwaitType DEF Commit, TypeOK
  <2>3. job'[id].stage = "committed" /\ job'[id].sim = job[id].sim
    BY <2>2 DEF Job
  <2>4. Written(id)' = Written(id) /\ store'[id] = Written(id)
    BY <1>1, <1>2, <2>2, <2>3 DEF Written, Changing, Commit, TypeOK
  <2>5. Written(id) = None \/ Readable(Written(id))
    <3>1. /\ Head(pending[id]) \in Change /\ Changing(id) \in Kind
          /\ object[job[id].sim].input \in Input /\ Readable(object[job[id].sim].input)
      BY <1>1, RunningFacts
    <3>2. Changing(id) = "put" => Readable(Head(pending[id]).input)
      BY <3>1, ChangeForms DEF Changing
    <3>3. \A b \in BOOLEAN : Readable([object[job[id].sim].input EXCEPT !.enabled = b])
      BY <3>1, SwitchedInput
    <3>4. Changing(id) # "retry"
      BY <1>1 DEF Shape, RunningShape, StartShape
    <3> QED
      BY <3>1, <3>2, <3>3, <3>4 DEF Written, Kind
  <2>6. Listed(id)' = Written(id)'
    BY <2>4, <2>5 DEF Listed, Readable
  <2> QED
    BY <2>3, <2>6 DEF RowShape
<1>3. CASE SaveFailed(id)
  <2>1. CASE Changing(id) \in {"put", "switchOn"} /\ StopTimers(job[id].sim) /\ Await(id, "undoing")
    <3>1. \A s \in Sim : object'[s].input = object[s].input
      BY <1>1, <2>1, RunningFacts, StopTimersType DEF IInv
    <3>2. "undoing" \in Stage \ {"idle", "committed"}
      BY DEF Stage
    <3> QED
      BY <1>1, <1>3, <2>1, <3>1, <3>2, RowAwaits DEF SaveFailed
  <2>2. CASE Changing(id) \in {"remove", "switchOff"} /\ Settle(id) /\ UNCHANGED object
    <3>1. job'[id] = Idle
      BY <1>1, <2>2, RunningFacts, SettleType
    <3>2. Listed(id) = Memory(id)
      BY <1>1, <2>2 DEF RowShape
    <3>3. Listed(id)' = Listed(id) /\ Memory(id)' = Memory(id)
      BY <1>3, <2>2 DEF SaveFailed, Listed, Memory
    <3> QED
      BY <3>1, <3>2, <3>3, RowSettled
  <2> QED
    BY <1>3, <2>1, <2>2 DEF SaveFailed
<1> QED
  BY <1>2, <1>3

\* The end of a change: what is then registered is what the row says.
LEMMA RowAnswers ==
    ASSUME IInv, ~LostReplies, NEW id \in Id, RowShape(id),
           PutSaved(id) \/ SwitchOnSaved(id) \/ StopSaved(id)
    PROVE  RowShape(id)'
<1> DEFINE s == job[id].sim
<1>1. /\ TypeOK /\ TimersCounted /\ Alive /\ Shape(id) /\ RunningShape(id)
      /\ job[id].stage = "committed" /\ Own(id) \subseteq Sim /\ store' = store
  BY DEF IInv, PutSaved, SwitchOnSaved, StopSaved, At, Own, Sim, Shape
<1>2. /\ s \in Own(id) \cap Sim /\ pending[id] # <<>> /\ s # None
      /\ job[id].old # None => job[id].old \in Own(id) \cap Sim
      /\ object[s].input \in Input /\ object[s] \in Object
      /\ "releasing" \in Stage
  BY <1>1, RunningFacts DEF TypeOK, RunningShape, Stage
<1>3. Listed(id)' = Written(id)
  BY <1>1 DEF RowShape, Listed
<1>4. CASE PutSaved(id)
  <2>1. Changing(id) = "put" /\ Written(id) = object[s].input
    BY <1>1, <1>4 DEF PutSaved, Written, RunningShape, PutShape
  <2>2. simulations'[id] = s
    BY <1>1, <1>4 DEF PutSaved, TypeOK
  <2>3. CASE job[id].old = None /\ Settle(id) /\ UNCHANGED object
    <3>1. job'[id] = Idle
      BY <1>1, <1>2, <2>3, SettleType
    <3>2. Memory(id)' = object[s].input
      BY <1>2, <2>2, <2>3 DEF Memory
    <3> QED
      BY <1>3, <2>1, <3>1, <3>2, RowSettled
  <2>4. CASE job[id].old # None /\ StopTimers(job[id].old) /\ Await(id, "releasing")
    <3>1. \A x \in Sim : object'[x].input = object[x].input
      BY <1>1, <1>2, <2>4, StopTimersType
    <3>2. /\ pending' = pending /\ job[id] \in Job
          /\ job'[id] = [job[id] EXCEPT !.stage = "releasing"]
      BY <1>1, <1>2, <2>4, AwaitType DEF TypeOK
    <3>3. job'[id].stage = "releasing" /\ job'[id].old # None /\ Changing(id)' = "put"
      BY <2>1, <2>4, <3>2 DEF Job, Changing
    <3>4. Memory(id)' = object[s].input
      BY <1>2, <2>2, <3>1 DEF Memory
    <3> QED
      BY <1>3, <2>1, <3>3, <3>4 DEF RowShape
  <2> QED
    BY <1>4, <2>3, <2>4 DEF PutSaved
<1>5. CASE SwitchOnSaved(id)
  <2>1. Changing(id) = "switchOn" /\ Written(id) = [object[s].input EXCEPT !.enabled = TRUE]
    BY <1>5 DEF SwitchOnSaved, Written
  <2>2. job'[id] = Idle
    BY <1>1, <1>2, <1>5, SettleType DEF SwitchOnSaved
  <2>3. simulations'[id] = s
    BY <1>1, <1>5, <2>1 DEF SwitchOnSaved, RunningShape, StartShape
  <2>4. object'[s].input = [object[s].input EXCEPT !.enabled = TRUE]
    <3>1. object' = [object EXCEPT ![s] = [object[s] EXCEPT !.input = [@ EXCEPT !.enabled = TRUE]]]
      BY <1>5 DEF SwitchOnSaved
    <3>2. object \in [Sim -> Object]
      BY <1>1 DEF TypeOK
    <3>3. object'[s] = [object[s] EXCEPT !.input = [@ EXCEPT !.enabled = TRUE]]
      BY <1>2, <3>1, <3>2
    <3> HIDE DEF s
    <3> QED
      BY <1>2, <3>3 DEF Object
  <2>5. Memory(id)' = object'[s].input
    BY <1>2, <2>3 DEF Memory
  <2> QED
    BY <1>3, <2>1, <2>2, <2>4, <2>5, RowSettled
<1>6. CASE StopSaved(id)
  <2>1. /\ pending' = pending /\ job[id] \in Job
        /\ job'[id] = [job[id] EXCEPT !.stage = "releasing"]
    BY <1>1, <1>2, <1>6, AwaitType DEF StopSaved, TypeOK
  <2>2. job'[id].stage = "releasing" /\ Changing(id)' = Changing(id)
    BY <2>1 DEF Job, Changing
  <2>3. CASE Changing(id) = "remove"
    BY <1>3, <2>2, <2>3 DEF RowShape, Written
  <2>4. CASE Changing(id) = "switchOff"
    <3>1. object' = [object EXCEPT ![s] = [Stopped(@) EXCEPT !.input.enabled = FALSE]]
      BY <1>6, <2>4 DEF StopSaved
    <3>2. Stopped(object[s]) \in Object /\ Stopped(object[s]).input = object[s].input
      BY <1>1, <1>2, StoppedType DEF TimersCounted
    <3>3. object'[s].input = [object[s].input EXCEPT !.enabled = FALSE]
      <4>1. object \in [Sim -> Object]
        BY <1>1 DEF TypeOK
      <4>2. object'[s] = [Stopped(object[s]) EXCEPT !.input = [@ EXCEPT !.enabled = FALSE]]
        BY <1>2, <3>1, <4>1
      <4> HIDE DEF s
      <4> QED
        BY <3>2, <4>2 DEF Object
    <3>4. simulations'[id] = s
      BY <1>1, <1>6, <2>4 DEF StopSaved, RunningShape, StopShape
    <3>5. Memory(id)' = Written(id)
      BY <1>2, <2>4, <3>3, <3>4 DEF Memory, Written
    <3> QED
      BY <1>3, <2>2, <2>4, <3>5 DEF RowShape
  <2> QED
    BY <1>6, <2>3, <2>4 DEF StopSaved
<1> QED
  BY <1>4, <1>5, <1>6

LEMMA RowEnds ==
    ASSUME IInv, NEW id \in Id, RowShape(id), Undone(id) \/ Released(id)
    PROVE  RowShape(id)'
<1>1. /\ TypeOK /\ TimersCounted /\ Alive /\ Shape(id) /\ RunningShape(id)
      /\ job[id].stage \in {"undoing", "releasing"} /\ Own(id) \subseteq Sim /\ store' = store
      /\ Settle(id)
  BY DEF IInv, Undone, Released, At, Own, Sim, Shape
<1>2. /\ job[id].sim \in Own(id) \cap Sim /\ pending[id] # <<>>
      /\ job[id].old # None => job[id].old \in Own(id) \cap Sim
      /\ object[job[id].sim] \in Object
      /\ job[id].old # None => object[job[id].old] \in Object
  BY <1>1, RunningFacts DEF TypeOK
<1>3. job'[id] = Idle /\ Listed(id)' = Listed(id)
  BY <1>1, <1>2, SettleType DEF Listed
<1>4. CASE Undone(id) /\ Changing(id) = "put"
  <2>1. job[id].stage = "undoing" /\ Disconnect(job[id].sim, Forgotten(object[job[id].sim]))
    BY <1>4 DEF Undone, At
  <2>2. CASE job[id].old = None
    <3>1. simulations'[id] = None /\ Listed(id) = None
      BY <1>1, <1>4, <2>1, <2>2 DEF Undone, TypeOK, RowShape
    <3> QED
      BY <1>3, <3>1, RowSettled DEF Memory
  <2>3. CASE job[id].old # None
    <3>1. simulations[id] = job[id].old /\ job[id].old # job[id].sim /\ simulations' = simulations
      BY <1>1, <1>4, <2>1, <2>3 DEF RunningShape, PutShape, Undone, TypeOK
    <3>2. object'[job[id].old] = object[job[id].old]
      BY <1>1, <1>2, <2>1, <2>3, <3>1 DEF Disconnect, TypeOK
    <3>3. Memory(id)' = Memory(id)
      BY <3>1, <3>2 DEF Memory
    <3>4. Listed(id) = Memory(id)
      BY <1>1, <2>1, <2>3, <1>4 DEF RowShape
    <3> QED
      BY <1>3, <3>3, <3>4, RowSettled
  <2> QED
    BY <2>2, <2>3
<1>5. CASE Undone(id) /\ Changing(id) # "put"
  <2>1. simulations[id] = job[id].sim /\ simulations' = simulations /\ job[id].stage = "undoing"
    BY <1>1, <1>5 DEF Undone, At, RunningShape, StartShape, TypeOK
  <2>2. object'[job[id].sim].input = object[job[id].sim].input
    <3>1. PICK after \in Object :
            /\ after.timer = object[job[id].sim].timer /\ after.ticking = object[job[id].sim].ticking
            /\ Disconnect(job[id].sim, after)
            /\ after.input = object[job[id].sim].input
      BY <1>2, <1>5, RetriedType DEF Undone
    <3> QED
      BY <1>1, <1>2, <3>1, DisconnectType
  <2>3. Memory(id)' = Memory(id)
    BY <2>1, <2>2 DEF Memory
  <2>4. Listed(id) = Memory(id)
    BY <1>5, <2>1 DEF RowShape
  <2> QED
    BY <1>3, <2>3, <2>4, RowSettled
<1>6. CASE Released(id) /\ Changing(id) = "remove"
  <2>1. simulations'[id] = None /\ Listed(id) = None
    BY <1>1, <1>6 DEF Released, At, TypeOK, RowShape
  <2> QED
    BY <1>3, <2>1, RowSettled DEF Memory
<1>7. CASE Released(id) /\ Changing(id) # "remove"
  <2>1. simulations' = simulations /\ job[id].stage = "releasing" /\ Changing(id) \in {"put", "switchOff"}
    BY <1>1, <1>7 DEF Released, At, TypeOK
  <2>2. simulations[id] = job[id].sim
    BY <1>1, <2>1 DEF RunningShape, PutShape, StopShape
  <2>3. Changing(id) = "put" => job[id].old # None /\ job[id].old # job[id].sim
    BY <1>1, <2>1 DEF RunningShape, PutShape
  <2>4. object'[job[id].sim].input = object[job[id].sim].input
    <3>1. CASE Changing(id) = "put"
      BY <1>1, <1>2, <1>7, <2>3, <3>1 DEF Released, Disconnect, TypeOK
    <3>2. CASE Changing(id) = "switchOff"
      BY <1>1, <1>2, <1>7, <3>2, DisconnectType DEF Released
    <3> QED
      BY <2>1, <3>1, <3>2
  <2>5. Memory(id)' = Memory(id)
    BY <2>1, <2>2, <2>4 DEF Memory
  <2>6. Listed(id) = Memory(id)
    BY <2>1, <2>3, <1>7 DEF RowShape
  <2> QED
    BY <1>3, <2>5, <2>6, RowSettled
<1> QED
  BY <1>4, <1>5, <1>6, <1>7

\* resume() registers what the database lists.
LEMMA RowResumes ==
    ASSUME IInv, Resume, NEW id \in Id
    PROVE  RowShape(id)'
<1> DEFINE resumed == [i \in Id |-> IF Readable(store[i]) THEN NewSim(i) ELSE None]
<1>1. job[id] = Idle /\ job' = job /\ store' = store
  BY DEF IInv, Vacant, Resume
<1>2. simulations' = resumed
  BY DEF Resume
<1>3. CASE Readable(store[id])
  <2>1. IInv'
    BY ResumeStep
  <2>2. simulations'[id] = NewSim(id) /\ simulations'[id] \in Maybe(Own(id))
    BY <1>2, <1>3, <2>1 DEF IInv, Shape, Resume, Alive
  <2>3. NewSim(id) \in FreeSims(id)
    <3>1. PICK s \in FreeSims(id) : TRUE
      <4>1. PICK k \in Slot : TRUE
        BY SlotAssumption
      <4>2. <<id, k>> \in Own(id) /\ <<id, k>> \in Sim
        BY DEF Own, Sim
      <4>3. <<id, k>> # None
        BY <4>2, NoneAssumption
      <4>4. Vacant
        BY DEF IInv, Resume
      <4>5. object[<<id, k>>] = Blank /\ simulations[id] = None /\ pending[id] = <<>> /\ closing = {}
        BY <4>2, <4>4 DEF Vacant
      <4>6. <<id, k>> \in FreeSims(id)
        <5>1. <<id, k>> \notin {simulations[id], job[id].sim, job[id].old}
          BY <1>1, <4>3, <4>5 DEF Idle
        <5> QED
          BY <4>2, <4>5, <5>1 DEF FreeSims, Blank
      <4> QED
        BY <4>6
    <3> QED
      BY <3>1 DEF NewSim
  <2>4. NewSim(id) \in Sim /\ NewSim(id)[1] = id /\ NewSim(id) # None
    BY <2>3, NoneAssumption DEF FreeSims, Own, Sim
  <2>5. object'[NewSim(id)].input = store[id]
    <3>1. object' = [s \in Sim |-> IF s = resumed[s[1]]
                                     THEN [Blank EXCEPT !.input = store[s[1]]] ELSE Blank]
      BY DEF Resume
    <3>2. NewSim(id) = resumed[NewSim(id)[1]]
      BY <1>3, <2>4
    <3> HIDE DEF resumed
    <3> QED
      BY <2>4, <3>1, <3>2 DEF Blank
  <2> QED
    BY <1>1, <1>3, <2>2, <2>4, <2>5 DEF RowShape, Idle, Listed, Memory
<1>4. CASE ~Readable(store[id])
  BY <1>1, <1>2, <1>4 DEF RowShape, Idle, Listed, Memory
<1> QED
  BY <1>3, <1>4

LEMMA RowStep ==
    ASSUME IInv, StoreInv, ~LostReplies, NEW id \in Id, Steps(id)
    PROVE  StoreInv'
<1>1. /\ Alive /\ TypeOK /\ \A i \in Id : Shape(i) /\ RowShape(i)
  BY StepFrame DEF IInv, StoreInv
<1>2. RowShape(id)'
  BY <1>1, RowBegins, RowStarts, RowSaves, RowAnswers, RowEnds DEF Steps
<1>3. ASSUME NEW i \in Id \ {id} PROVE RowShape(i)'
  <2>1. \A s \in Own(i) : s \in Sim /\ s \notin Own(id)
    BY DEF Own, Sim
  <2>2. /\ store'[i] = store[i] /\ simulations'[i] = simulations[i] /\ job'[i] = job[i]
        /\ pending'[i] = pending[i]
        /\ \A s \in Own(i) : object'[s].input = object[s].input
    BY <2>1, StepFrame
  <2> QED
    BY <1>1, <2>2, RowStable
<1> QED
  BY <1>2, <1>3 DEF StoreInv

\* Calls, retry timers and the shutdown change no row, no job and no input.
LEMMA RowFrame ==
    ASSUME IInv, StoreInv, ~LostReplies, UNCHANGED <<store, simulations, job>>, Alive,
           \A id \in Id : pending[id] # <<>> =>
               pending'[id] # <<>> /\ Head(pending'[id]) = Head(pending[id]),
           \A s \in Sim : object'[s].input = object[s].input
    PROVE  StoreInv'
<1> SUFFICES ASSUME NEW id \in Id PROVE RowShape(id)'
  BY DEF StoreInv
<1>1. TypeOK /\ Shape(id) /\ RowShape(id) /\ Own(id) \subseteq Sim
  BY DEF IInv, StoreInv, Own, Sim
<1> QED
  BY <1>1, RowStable

LEMMA RowQueues ==
    ASSUME IInv, StoreInv, ~LostReplies,
           \/ \E id \in Id, change \in Calls : Call(id, change)
           \/ \E s \in Sim : RetryFires(s)
    PROVE  StoreInv'
<1>1. TypeOK /\ Alive
  BY DEF IInv, Call, RetryFires, Alive
<1>2. ASSUME NEW id \in Id, NEW c \in Change, pending' = [pending EXCEPT ![id] = Append(@, c)]
      PROVE  \A i \in Id : pending[i] # <<>> =>
               pending'[i] # <<>> /\ Head(pending'[i]) = Head(pending[i])
  <2>1. pending[id] \in Seq(Change)
    BY <1>1 DEF TypeOK
  <2> QED
    BY <1>1, <1>2, <2>1, AppendKeepsHead DEF TypeOK
<1>3. ASSUME NEW id \in Id, NEW change \in Calls, Call(id, change) PROVE StoreInv'
  <2>1. change \in Change
    BY DEF Change
  <2> QED
    BY <1>1, <1>2, <1>3, <2>1, RowFrame DEF Call
<1>4. ASSUME NEW s \in Sim, RetryFires(s) PROVE StoreInv'
  <2>1. s[1] \in Id /\ RetryOf(s) \in Change
    BY DEF Sim, Change
  <2>2. \A x \in Sim : object'[x].input = object[x].input
    <3>1. object \in [Sim -> Object] /\ object' = [object EXCEPT ![s] = [@ EXCEPT !.retry = FALSE]]
      BY <1>1, <1>4 DEF TypeOK, RetryFires
    <3>2. object[s] \in Object /\ object'[s] = [object[s] EXCEPT !.retry = FALSE]
      BY <3>1
    <3>3. object'[s].input = object[s].input
      BY <3>2 DEF Object
    <3> QED
      BY <3>1, <3>3
  <2> QED
    BY <1>1, <1>2, <1>4, <2>1, <2>2, RowFrame DEF RetryFires
<1> QED
  BY <1>3, <1>4

LEMMA RowShutdown ==
    ASSUME IInv, StoreInv, ~LostReplies, Shutdown \/ ShutsDown
    PROVE  StoreInv'
<1>1. TypeOK /\ TimersCounted /\ Alive
  BY DEF IInv, Alive, Shutdown, ShutsDown, ShutdownTeardown, ShutdownCloses, ShutdownDone
<1>2. CASE Shutdown
  BY <1>1, <1>2, RowFrame DEF Shutdown
<1>3. CASE ShutdownTeardown
  <2>1. \A s \in Sim : Stopped(object[s]).input = object[s].input
    BY <1>1, StoppedType DEF TypeOK, TimersCounted
  <2>2. \A s \in Sim : object'[s].input = object[s].input
    BY <1>3, <2>1 DEF ShutdownTeardown
  <2> QED
    BY <1>1, <1>3, <2>2, RowFrame DEF ShutdownTeardown, queueVars
<1>4. ASSUME NEW s \in Sim, NEW c \in Maybe(Conn), ShutdownCloses(s, c)
      PROVE  StoreInv'
  <2>1. object \in [Sim -> Object] /\ object' = [object EXCEPT ![s] = [@ EXCEPT !.link = None]]
    BY <1>1, <1>4 DEF TypeOK, ShutdownCloses
  <2>2. object[s] \in Object /\ object'[s] = [object[s] EXCEPT !.link = None]
    BY <2>1
  <2>3. object'[s].input = object[s].input
    BY <2>2 DEF Object
  <2>4. \A x \in Sim : object'[x].input = object[x].input
    BY <2>1, <2>3
  <2> QED
    BY <1>1, <1>4, <2>4, RowFrame DEF ShutdownCloses, queueVars
<1>5. CASE ShutdownDone
  BY <1>5 DEF ShutdownDone, StoreInv, Alive
<1> QED
  BY <1>2, <1>3, <1>4, <1>5 DEF ShutsDown

LEMMA NextStoreInv == IInv /\ StoreInv /\ [Next]_vars => StoreInv'
<1> SUFFICES ASSUME IInv, StoreInv, [Next]_vars, ~LostReplies PROVE StoreInv'
  BY DEF StoreInv
<1>1. CASE Resume
  BY <1>1, RowResumes DEF StoreInv
<1>2. CASE Restart
  BY <1>2 DEF Restart, StoreInv, Alive
<1>3. CASE UNCHANGED vars
  BY <1>3 DEF StoreInv, RowShape, Alive, Listed, Written, Memory, Changing, vars, queueVars
<1> QED
  BY <1>1, <1>2, <1>3, RowStep, RowQueues, RowShutdown DEF Next

LEMMA StoreInductive == Spec => []StoreInv
<1>1. Init => StoreInv
  BY DEF Init, StoreInv, Alive
<1> QED
  BY <1>1, NextStoreInv, Inductive, PTL DEF Spec

\* What a restart would resume is what is registered, or what the running change
\* is about to register: the database and the memory of the service never drift
\* apart, whatever interleaves, as long as the answers of the database arrive.
THEOREM StoreAgreement == Spec => []StoreAgrees
<1>1. IInv /\ StoreInv => StoreAgrees
  <2> SUFFICES ASSUME IInv, StoreInv, Alive, ~LostReplies, NEW id \in Id
               PROVE  \/ Listed(id) = Memory(id)
                      \/ job[id].stage = "committed" /\ Listed(id) = Written(id)
                      \/ /\ Listed(id) = None
                         /\ job[id].stage \in {"starting", "preparing", "saving", "undoing"}
                         /\ Changing(id) = "put" /\ job[id].old = None
                      \/ /\ Listed(id) = None
                         /\ job[id].stage = "releasing" /\ Changing(id) = "remove"
    BY DEF StoreAgrees
  <2>1. job[id] \in Job /\ Shape(id) /\ RowShape(id)
    BY DEF IInv, TypeOK, StoreInv
  <2>2. job[id].stage \in Stage
    BY <2>1 DEF Job
  <2>3. job[id].stage = "releasing" /\ Changing(id) = "put" => job[id].old # None
    BY <2>1 DEF Shape, RunningShape, PutShape
  <2> QED
    BY <2>1, <2>2, <2>3 DEF RowShape, Stage
<1> QED
  BY <1>1, StoreInductive, Inductive, PTL

-----------------------------------------------------------------------------
(* The cap, and what Settings promises: as long as the answers of the      *)
(* database arrive, and if what is resumed at first is under the cap.      *)

\* The two premises.  Without them the claims are false: an INSERT whose answer
\* is lost leaves a row that memory forgets, and nobody counts what is resumed.
FewAtFirst ==
    \A rows \in FirstStores : Cardinality({id \in Id : Readable(rows[id])}) <= MaxSimulations

\* The ids a restart would resume.
Kept == {id \in Id : Listed(id) # None}

\* What is kept is registered, so that the cap on the one bounds the other.
KeptIsRegistered == Alive => Kept \subseteq Registered

CapInv == /\ Cardinality(Kept) <= MaxSimulations
          /\ Alive => Cardinality(Registered) <= MaxSimulations

-----------------------------------------------------------------------------
(* Lemmas                                                                  *)

LEMMA Finite ==
    /\ IsFiniteSet(Registered) /\ Cardinality(Registered) \in Nat
    /\ IsFiniteSet(Kept) /\ Cardinality(Kept) \in Nat
<1>1. IsFiniteSet(Id) /\ Registered \subseteq Id /\ Kept \subseteq Id
  BY BoundsAssumption DEF Registered, Kept
<1>2. IsFiniteSet(Registered) /\ IsFiniteSet(Kept)
  BY <1>1, FS_Subset
<1> QED
  BY <1>2, FS_CardinalityType

LEMMA FewerAreFewer ==
    ASSUME NEW S, NEW T, IsFiniteSet(S), T \subseteq S, NEW n \in Nat, Cardinality(S) <= n
    PROVE  Cardinality(T) <= n
<1>1. IsFiniteSet(T) /\ Cardinality(T) <= Cardinality(S)
  BY FS_Subset
<1>2. Cardinality(T) \in Nat /\ Cardinality(S) \in Nat
  BY <1>1, FS_CardinalityType
<1> QED
  BY <1>1, <1>2

\* A row that is listed is one of a registered simulation.
LEMMA ListedIsRegistered == ~LostReplies /\ IInv /\ StoreInv => KeptIsRegistered
<1> SUFFICES ASSUME ~LostReplies, IInv, StoreInv, Alive, NEW id \in Id, Listed(id) # None
             PROVE  simulations[id] # None
  BY DEF KeptIsRegistered, Kept, Registered
<1>1. TypeOK /\ Shape(id) /\ RowShape(id)
  BY DEF IInv, StoreInv
<1>2. CASE job[id].stage = "committed"
  <2>1. RunningShape(id) /\ Changing(id) \in Kind /\ job[id].sim \in Sim
    BY <1>1, <1>2, RunningFacts DEF Shape
  <2>2. job[id].sim # None
    BY <2>1, NoneAssumption
  <2>3. CASE Changing(id) = "put"
    BY <1>2, <2>1, <2>2, <2>3 DEF RunningShape, PutShape
  <2>4. CASE Changing(id) # "put"
    BY <2>1, <2>2, <2>4 DEF RunningShape, StopShape, StartShape, Kind
  <2> QED
    BY <2>3, <2>4
<1>3. CASE job[id].stage # "committed"
  <2>1. Memory(id) # None
    BY <1>1, <1>3 DEF RowShape
  <2> QED
    BY <2>1 DEF Memory
<1> QED
  BY <1>2, <1>3

\* Who is registered after a step: the one a put() adds under the cap, all that is
\* listed after a start, and otherwise nobody new.
LEMMA RegisteredSteps ==
    ASSUME IInv, [Next]_vars, Alive', ~Resume, ~ \E id \in Id : BeginPut(id)
    PROVE  Registered' \subseteq Registered /\ Alive
<1> SUFFICES ASSUME Alive' PROVE Registered' \subseteq Registered /\ Alive
  OBVIOUS
<1>1. CASE UNCHANGED vars
  BY <1>1 DEF vars, Registered, Alive
<1>2. ASSUME NEW id \in Id, Steps(id) PROVE Registered' \subseteq Registered /\ Alive
  <2>1. /\ Alive /\ TypeOK /\ Shape(id)
        /\ \A i \in Id \ {id} : simulations'[i] = simulations[i]
    BY <1>2, StepFrame
  <2>2. simulations'[id] # None => simulations[id] # None
    <3>1. CASE PutSaved(id)
      <4>1. RunningShape(id) /\ job[id].sim \in Sim /\ job[id].sim # None /\ Changing(id) = "put"
        BY <2>1, <3>1, RunningFacts, NoneAssumption DEF PutSaved, At, Shape
      <4> QED
        BY <4>1, <3>1 DEF RunningShape, PutShape, PutSaved, At
    <3>2. CASE ~PutSaved(id)
      BY <1>2, <2>1, <3>2 DEF Steps, BeginStop, BeginStart, Moot, Connected, Prepared, StartFailed,
         Commit, SaveFailed, SwitchOnSaved, StopSaved, Undone, Released, TypeOK
    <3> QED
      BY <3>1, <3>2
  <2> QED
    BY <2>1, <2>2 DEF Registered
<1>3. CASE Restart
  BY <1>3 DEF Restart, Alive
<1>4. CASE Shutdown \/ ShutsDown
  BY <1>4 DEF Shutdown, ShutsDown, ShutdownTeardown, ShutdownCloses, ShutdownDone, Registered, Alive
<1>5. ASSUME NEW id \in Id, NEW change \in Calls, Call(id, change)
      PROVE  Registered' \subseteq Registered /\ Alive
  BY <1>5 DEF Call, Registered, Alive
<1>6. ASSUME NEW s \in Sim, RetryFires(s) PROVE Registered' \subseteq Registered /\ Alive
  BY <1>6 DEF RetryFires, Registered, Alive
<1> QED
  BY <1>1, <1>2, <1>3, <1>4, <1>5, <1>6 DEF Next

LEMMA BeginPutCap ==
    ASSUME IInv, NEW id \in Id, BeginPut(id), Cardinality(Registered) <= MaxSimulations
    PROVE  Cardinality(Registered') <= MaxSimulations
<1>1. \A i \in Id \ {id} : simulations'[i] = simulations[i]
  BY StepFrame DEF Steps
<1>2. simulations[id] # None => simulations'[id] # None
  BY DEF BeginPut, IInv, TypeOK
<1>3. CASE simulations[id] # None
  <2>1. Registered' = Registered
    BY <1>1, <1>2, <1>3 DEF Registered
  <2> QED
    BY <2>1
<1>4. CASE simulations[id] = None
  <2>1. Cardinality(Registered) < MaxSimulations
    BY <1>4 DEF BeginPut, HasRoom
  <2>2. Registered' \subseteq Registered \cup {id}
    BY <1>1 DEF Registered
  <2>3. /\ IsFiniteSet(Registered \cup {id})
        /\ Cardinality(Registered \cup {id}) <= MaxSimulations
    <3>1. /\ IsFiniteSet(Registered \cup {id})
          /\ Cardinality(Registered \cup {id}) \in {Cardinality(Registered), Cardinality(Registered) + 1}
      BY Finite, FS_AddElement
    <3> QED
      BY <2>1, <3>1, Finite, BoundsAssumption
  <2> QED
    BY <2>2, <2>3, FewerAreFewer, BoundsAssumption
<1> QED
  BY <1>3, <1>4

LEMMA ResumeKeeps ==
    ASSUME IInv, Resume
    PROVE  Registered' \subseteq Kept
<1> SUFFICES ASSUME NEW id \in Id, simulations'[id] # None PROVE Listed(id) # None
  BY DEF Registered, Kept
<1>1. Readable(store[id])
  BY DEF Resume
<1> QED
  BY <1>1 DEF Listed, Readable

\* The rows change only when a statement takes effect.
LEMMA RowsStay ==
    ASSUME [Next]_vars, ~ \E id \in Id : Commit(id)
    PROVE  store' = store
  BY DEF Next, vars, Call, Steps, BeginPut, BeginStop, BeginStart, Moot, Connected, Prepared,
     StartFailed, SaveFailed, PutSaved, SwitchOnSaved, StopSaved, Undone, Released, RetryFires,
     Resume, Shutdown, ShutsDown, ShutdownTeardown, ShutdownCloses, ShutdownDone, Restart

LEMMA CapInvStep ==
    ASSUME ~LostReplies, IInv, StoreInv, CapInv, [Next]_vars, IInv', StoreInv'
    PROVE  CapInv'
<1>1. Alive' => Cardinality(Registered') <= MaxSimulations
  <2>1. CASE Resume
    BY <2>1, ResumeKeeps, Finite, FewerAreFewer, BoundsAssumption DEF CapInv
  <2>2. ASSUME NEW id \in Id, BeginPut(id) PROVE Cardinality(Registered') <= MaxSimulations
    <3>1. Alive
      BY <2>2 DEF BeginPut, MayBegin
    <3> QED
      BY <2>2, <3>1, BeginPutCap DEF CapInv
  <2>3. CASE ~Resume /\ ~ \E id \in Id : BeginPut(id)
    BY <2>3, RegisteredSteps, Finite, FewerAreFewer, BoundsAssumption DEF CapInv
  <2> QED
    BY <2>1, <2>2, <2>3
<1>2. Cardinality(Kept') <= MaxSimulations
  <2>1. CASE Alive'
    <3>1. Kept' \subseteq Registered'
      <4>1. KeptIsRegistered'
        BY ListedIsRegistered, PTL
      <4> QED
        BY <2>1, <4>1 DEF KeptIsRegistered
    <3>2. IsFiniteSet(Registered')
      <4>1. Registered' \subseteq Id
        BY DEF Registered
      <4> QED
        BY <4>1, BoundsAssumption, FS_Subset
    <3> QED
      BY <1>1, <2>1, <3>1, <3>2, FewerAreFewer, BoundsAssumption
  <2>2. CASE ~Alive'
    <3>1. ASSUME NEW id \in Id, Commit(id) PROVE FALSE
      BY <2>2, <3>1 DEF Commit, At, Alive
    <3>2. store' = store
      BY <3>1, RowsStay
    <3>3. Kept' = Kept
      BY <3>2 DEF Kept, Listed
    <3> QED
      BY <3>3 DEF CapInv
  <2> QED
    BY <2>1, <2>2
<1> QED
  BY <1>1, <1>2 DEF CapInv

LEMMA CapInvInit ==
    ASSUME FewAtFirst, Init
    PROVE  CapInv
<1>1. Kept = {id \in Id : Readable(store[id])}
  BY DEF Kept, Listed, Readable
<1> QED
  BY <1>1 DEF FewAtFirst, Init, CapInv, Alive

\* MAX_SIMULATIONS bounds what is registered, however many new ids come in at once,
\* however often the service crashes and resumes, whatever fails.
THEOREM CapIsKept ==
    ASSUME ~LostReplies, FewAtFirst
    PROVE  Spec => []CapHolds
<1>1. IInv /\ StoreInv /\ CapInv /\ [Next]_vars /\ IInv' /\ StoreInv' => CapInv'
  BY CapInvStep
<1>2. Init => CapInv
  BY CapInvInit
<1>3. CapInv => CapHolds
  BY DEF CapInv, CapHolds
<1> QED
  BY <1>1, <1>2, <1>3, Inductive, StoreInductive, PTL DEF Spec

-----------------------------------------------------------------------------
(* Registry implements Settings                                            *)

\* The abstract state.
Resumable == [id \in Id |-> Listed(id)]

LEMMA KeptType ==
    ASSUME TypeOK
    PROVE  Resumable \in [Id -> Input \cup {None}]
  BY DEF TypeOK, Resumable, Listed, Readable, Maybe

\* Settings counts its entries as Registry does.
LEMMA SameCount ==
    /\ Promise!Kept = Kept
    /\ Promise!Cardinality(Kept) = Cardinality(Kept)
  BY DEF Promise!Kept, Kept, Promise!Cardinality, Cardinality

\* A statement that takes effect is one call of the abstract specification: the
\* write of a put(), a delete, or a switch.
LEMMA CommitImplements ==
    ASSUME ~LostReplies, IInv, StoreInv, CapInv, NEW id \in Id, Commit(id)
    PROVE  Promise!Next
<1>1. /\ TypeOK /\ Alive /\ Shape(id) /\ RowShape(id) /\ job[id].stage = "saving"
      /\ store' = [store EXCEPT ![id] = Written(id)]
  BY DEF IInv, StoreInv, Commit, At
<1>2. /\ RunningShape(id) /\ Changing(id) \in Kind
      /\ object[job[id].sim].input \in Input /\ Readable(object[job[id].sim].input)
      /\ job[id].sim # None /\ Head(pending[id]) \in Change
  BY <1>1, RunningFacts, NoneAssumption DEF Shape
<1>3. ASSUME NEW setting, Written(id) = setting, setting = None \/ Readable(setting)
      PROVE  Resumable' = [Resumable EXCEPT ![id] = setting]
  <2>1. \A i \in Id : Listed(i)' = IF i = id THEN setting ELSE Listed(i)
    BY <1>1, <1>3 DEF Listed, Readable, TypeOK
  <2> QED
    BY <2>1 DEF Resumable
<1>4. CASE Changing(id) = "put"
  <2> DEFINE i == Head(pending[id]).input
  <2>1. i \in Input /\ Readable(i)
    BY <1>2, <1>4 DEF RunningShape, PutShape
  <2>2. Resumable' = [Resumable EXCEPT ![id] = i]
    BY <1>3, <1>4, <2>1 DEF Written
  <2>3. id \in Kept \/ Cardinality(Kept) < MaxSimulations
    <3>1. Kept \subseteq Registered /\ id \in Registered
      <4>1. simulations[id] # None
        BY <1>2, <1>4 DEF RunningShape, PutShape
      <4> QED
        BY <1>1, <4>1, ListedIsRegistered DEF KeptIsRegistered, Registered
    <3>2. CASE id \notin Kept
      <4>1. Kept \subseteq Registered \ {id}
        BY <3>1, <3>2
      <4>2. /\ IsFiniteSet(Registered \ {id})
            /\ Cardinality(Registered \ {id}) = Cardinality(Registered) - 1
        BY <3>1, Finite, FS_RemoveElement
      <4>3. Cardinality(Registered) <= MaxSimulations /\ Cardinality(Registered) \in Nat
        BY <1>1, Finite DEF CapInv
      <4>4. Cardinality(Kept) <= Cardinality(Registered) - 1
        BY <4>1, <4>2, FS_Subset
      <4> QED
        BY <4>3, <4>4, Finite, BoundsAssumption
    <3> QED
      BY <3>2
  <2>4. Promise!Set(id, i)
    BY <2>2, <2>3, SameCount DEF Promise!Set, Resumable
  <2> QED
    BY <2>1, <2>4 DEF Promise!Next
<1>5. CASE Changing(id) = "remove"
  <2>1. Resumable' = [Resumable EXCEPT ![id] = None]
    BY <1>3, <1>5 DEF Written
  <2> QED
    BY <2>1 DEF Promise!Next, Promise!Forget, Resumable
<1>6. CASE Changing(id) \in {"switchOn", "switchOff"}
  <2> DEFINE s == object[job[id].sim].input
             b == (Changing(id) = "switchOn")
  <2>1. s \in Input /\ s.enabled = ~b /\ simulations[id] = job[id].sim
    BY <1>1, <1>2, <1>6 DEF RunningShape, StartShape, StopShape, Input
  <2>2. Listed(id) = s
    BY <1>1, <1>2, <1>6, <2>1 DEF RowShape, Memory
  <2>3. Written(id) = [s EXCEPT !.enabled = b]
    BY <1>6 DEF Written
  <2>4. [s EXCEPT !.enabled = b] \in Input /\ Readable([s EXCEPT !.enabled = b])
    BY <1>2, <2>1, SwitchedInput
  <2>5. Resumable' = [Resumable EXCEPT ![id] = [s EXCEPT !.enabled = b]]
    BY <1>3, <2>3, <2>4
  <2>6. Resumable[id] = s /\ id \in Kept /\ b = ~s.enabled
    BY <1>2, <2>1, <2>2, NoneAssumption DEF Resumable, Kept, Readable
  <2>7. Promise!Switch(id)
    <3>1. [Resumable EXCEPT ![id].enabled = ~@] = [Resumable EXCEPT ![id] = [s EXCEPT !.enabled = b]]
      BY <2>6
    <3>2. Resumable' = [Resumable EXCEPT ![id].enabled = ~@]
      BY <2>5, <3>1
    <3> QED
      BY <2>6, <3>2, SameCount DEF Promise!Switch, Resumable
  <2> QED
    BY <2>7 DEF Promise!Next
<1>7. Changing(id) # "retry"
  BY <1>1, <1>2 DEF RunningShape, StartShape
<1> QED
  BY <1>2, <1>4, <1>5, <1>6, <1>7 DEF Kind

\* The registry, its queues, its connections and its database do what Settings
\* promises: a call changes one entry at once or not at all, a switch changes
\* `enabled` only, never more than MaxSimulations are kept, and neither failures
\* nor crashes change what is stored.
THEOREM ImplementsSettings ==
    ASSUME ~LostReplies, FewAtFirst
    PROVE  Spec => KeepsPromise
<1>1. Init => Promise!Init
  <2> SUFFICES ASSUME Init PROVE Promise!Init
    OBVIOUS
  <2>1. Resumable \in [Id -> Input \cup {None}]
    BY InitIInv, KeptType DEF IInv
  <2>2. Promise!Cardinality(Promise!Kept) <= MaxSimulations
    BY CapInvInit, SameCount DEF CapInv
  <2> QED
    BY <2>1, <2>2 DEF Promise!Init, Resumable
<1>2. IInv /\ StoreInv /\ CapInv /\ [Next]_vars => [Promise!Next]_Resumable
  <2> SUFFICES ASSUME IInv, StoreInv, CapInv, [Next]_vars PROVE [Promise!Next]_Resumable
    OBVIOUS
  <2>1. CASE \E id \in Id : Commit(id)
    BY <2>1, CommitImplements
  <2>2. CASE ~ \E id \in Id : Commit(id)
    <3>1. store' = store
      BY <2>2, RowsStay
    <3> QED
      BY <3>1 DEF Resumable, Listed
  <2> QED
    BY <2>1, <2>2
<1>3. IInv /\ StoreInv /\ CapInv /\ [Next]_vars /\ IInv' /\ StoreInv' => CapInv'
  BY CapInvStep
<1>4. Init => CapInv
  BY CapInvInit
<1> QED
  BY <1>1, <1>2, <1>3, <1>4, Inductive, StoreInductive, PTL DEF Spec, KeepsPromise, Promise!Spec, Resumable

-----------------------------------------------------------------------------
(* What runs: the inductive invariant                                      *)

Halted(s) == ~object[s].timer /\ ~object[s].retry
Clean(s)  == object[s].link = None /\ Halted(s)
Enabled(s) == object[s].input.enabled

\* Which object the teardown of a running change is about.
Target(id) ==
    IF job[id].stage = "releasing" /\ Changing(id) = "put" THEN job[id].old ELSE job[id].sim

\* The running change may have given its own object a connection or a timer,
\* before or while that object is registered as enabled.
MayHold(id) ==
    \/ Changing(id) = "put" /\ Enabled(job[id].sim)
    \/ Changing(id) = "switchOn"
    \/ Changing(id) = "switchOff" /\ job[id].stage = "releasing"

InUse(id, s) ==
    \/ s = simulations[id] /\ Enabled(s)
    \/ s = job[id].sim /\ MayHold(id)
    \/ s = job[id].old /\ job[id].stage = "releasing" /\ Changing(id) = "put"

\* An object that holds something is in use; a teardown starts with the timers.
Holding(id) ==
    /\ \A s \in Own(id) : Clean(s) \/ InUse(id, s)
    /\ job[id].stage \in {"undoing", "releasing"} => Halted(Target(id))
    /\ job[id].stage \in {"starting", "preparing"} /\ Changing(id) = "put" => Enabled(job[id].sim)

\* Every connection an object holds is open and no other object's.
Linked(id) ==
    \A s \in Own(id) : object[s].link # None =>
        /\ object[s].link \in Own(id) \cap open
        /\ \A x \in Own(id) \ {s} : object[x].link # object[s].link

\* What a change enables runs before it is stored.
SavedRuns(id) ==
    /\ job[id].stage = "preparing" => object[job[id].sim].link # None
    /\ /\ job[id].stage \in {"saving", "committed"}
       /\ Changing(id) = "switchOn" \/ (Changing(id) = "put" /\ Enabled(job[id].sim))
       => Running(job[id].sim)

\* ActiveMeansRunning for one id, and the retry that is running.
RunsOrWill(id, s) ==
    \/ Running(s) \/ object[s].retry \/ RetryQueued(s)
    \/ job[id].sim = s /\ job[id].stage \in {"starting", "preparing", "undoing"}
    \/ job[id].stage = "releasing" /\ Changing(id) = "remove"

ActiveRuns(id) ==
    /\ job[id].stage # "idle" /\ Changing(id) = "retry" => Head(pending[id]).sim = job[id].sim
    /\ simulations[id] # None /\ Enabled(simulations[id]) => RunsOrWill(id, simulations[id])

Works(id) == Holding(id) /\ Linked(id) /\ SavedRuns(id) /\ ActiveRuns(id)

WorkInv == phase \in {"ready", "stopping"} => \A id \in Id : Works(id)

-----------------------------------------------------------------------------
(* What a step does to the fields of an object                             *)

LEMMA StoppedFields ==
    ASSUME NEW o \in Object
    PROVE  /\ Stopped(o).link = o.link /\ Stopped(o).input = o.input
           /\ ~Stopped(o).timer /\ ~Stopped(o).retry
<1> DEFINE n == IF o.timer THEN o.ticking - 1 ELSE o.ticking
<1>1. Stopped(o) = [o EXCEPT !.timer = FALSE, !.retry = FALSE, !.ticking = n]
  BY DEF Stopped
<1> HIDE DEF n
<1> QED
  BY <1>1 DEF Object

LEMMA ArmedFields ==
    ASSUME NEW o \in Object
    PROVE  /\ Armed(o).link = o.link /\ Armed(o).input = o.input
           /\ Armed(o).timer /\ Armed(o).retry = o.retry
<1> DEFINE n == o.ticking + 1
<1>1. Armed(o) = [o EXCEPT !.timer = TRUE, !.ticking = n]
  BY DEF Armed
<1> HIDE DEF n
<1> QED
  BY <1>1 DEF Object

LEMMA StopTimersFields ==
    ASSUME TypeOK, NEW s \in Sim, StopTimers(s)
    PROVE  /\ open' = open
           /\ \A x \in Sim \ {s} : object'[x] = object[x]
           /\ object'[s].link = object[s].link /\ object'[s].input = object[s].input
           /\ ~object'[s].timer /\ ~object'[s].retry
<1>1. object \in [Sim -> Object] /\ object[s] \in Object
  BY DEF TypeOK
<1>2. object' = [object EXCEPT ![s] = Stopped(object[s])] /\ open' = open
  BY DEF StopTimers
<1> QED
  BY <1>1, <1>2, StoppedFields

LEMMA DisconnectFields ==
    ASSUME TypeOK, NEW s \in Sim, NEW after \in Object, Disconnect(s, after)
    PROVE  /\ open' = open \ {object[s].link}
           /\ \A x \in Sim \ {s} : object'[x] = object[x]
           /\ object'[s].link = None /\ object'[s].input = after.input
           /\ object'[s].timer = after.timer /\ object'[s].retry = after.retry
<1> DEFINE o == [after EXCEPT !.link = None]
<1>1. o.link = None /\ o.input = after.input /\ o.timer = after.timer /\ o.retry = after.retry
  BY DEF Object
<1>2. object' = [object EXCEPT ![s] = o] /\ open' = open \ {object[s].link}
  BY DEF Disconnect
<1> HIDE DEF o
<1> QED
  BY <1>1, <1>2 DEF TypeOK

LEMMA ForgottenFields ==
    ASSUME NEW o \in Object
    PROVE  Forgotten(o) \in Object /\ Forgotten(o).timer = o.timer /\ Forgotten(o).retry = o.retry
  BY DEF Forgotten, Object, Maybe

LEMMA RetriedFields ==
    ASSUME NEW o \in Object
    PROVE  /\ Retried(o) \in Object /\ Retried(o).timer = o.timer /\ Retried(o).retry
           /\ Retried(o).input = o.input
  BY DEF Retried, Object

\* A connection is fresh: not open, and no object holds it.
LEMMA ConnectedFields ==
    ASSUME TypeOK, NEW id \in Id, job[id].sim \in Sim, Connected(id)
    PROVE  LET s == job[id].sim
               c == NewConn(id)
           IN  /\ c \in Own(id) /\ c \notin open /\ open' = open \cup {c}
               /\ \A x \in Sim : object[x].link # c
               /\ \A x \in Sim \ {s} : object'[x] = object[x]
               /\ object'[s].link = c /\ object'[s].input = object[s].input
               /\ object'[s].retry = object[s].retry
               /\ \/ Await(id, "preparing") /\ object'[s].timer = object[s].timer
                  \/ Started(id) /\ object'[s].timer
<1> DEFINE s == job[id].sim
           c == NewConn(id)
           linked == [object[s] EXCEPT !.link = c]
<1>1. c \in FreeConns(id) /\ open' = open \cup {c}
  BY DEF Connected, NewConn
<1>2. c \in Own(id) /\ c \notin open /\ \A x \in Sim : object[x].link # c
  BY <1>1 DEF FreeConns
<1>3. object[s] \in Object /\ object \in [Sim -> Object]
  BY DEF TypeOK
<1>4. c \in Maybe(Conn)
  BY <1>2 DEF Own, Conn, Maybe
<1>5. /\ linked \in Object /\ linked.link = c /\ linked.input = object[s].input
      /\ linked.retry = object[s].retry /\ linked.timer = object[s].timer
  <2> HIDE DEF s, c
  <2> QED
    BY <1>3, <1>4 DEF Object
<1>6. /\ Armed(linked).link = c /\ Armed(linked).input = object[s].input
      /\ Armed(linked).retry = object[s].retry /\ Armed(linked).timer
  BY <1>5, ArmedFields
<1>7. \/ object' = [object EXCEPT ![s] = linked] /\ Await(id, "preparing")
      \/ object' = [object EXCEPT ![s] = Armed(linked)] /\ Started(id)
  BY DEF Connected
<1> HIDE DEF s, c, linked
<1> QED
  BY <1>1, <1>2, <1>3, <1>5, <1>6, <1>7 DEF s, c

LEMMA PreparedFields ==
    ASSUME TypeOK, NEW id \in Id, job[id].sim \in Sim, Prepared(id)
    PROVE  LET s == job[id].sim
           IN  /\ open' = open /\ Started(id)
               /\ \A x \in Sim \ {s} : object'[x] = object[x]
               /\ object'[s].link = object[s].link /\ object'[s].input = object[s].input
               /\ object'[s].retry = object[s].retry
               /\ object'[s].timer \/ object[s].input.version \in FillVersion
<1> DEFINE s == job[id].sim
           o == IF object[s].input.version \in FillVersion THEN object[s] ELSE Armed(object[s])
<1>1. object[s] \in Object /\ object \in [Sim -> Object]
  BY DEF TypeOK
<1>2. /\ o.link = object[s].link /\ o.input = object[s].input /\ o.retry = object[s].retry
      /\ o.timer \/ object[s].input.version \in FillVersion
  BY <1>1, ArmedFields
<1>3. object' = [object EXCEPT ![s] = o] /\ open' = open /\ Started(id)
  BY DEF Prepared
<1> HIDE DEF s, o
<1> QED
  BY <1>1, <1>2, <1>3 DEF s

-----------------------------------------------------------------------------
(* Queues                                                                  *)

LEMMA OwnFacts ==
    ASSUME NEW id \in Id, NEW s \in Own(id)
    PROVE  s \in Sim /\ s[1] = id /\ s # None
  BY NoneAssumption DEF Own, Sim

LEMMA NoLinkIsNone == TypeOK => None \notin open
  BY NoneAssumption DEF TypeOK, Conn, Sim

\* A settled change leaves the starts that wait behind it.
LEMMA StillQueued ==
    ASSUME TypeOK, NEW id \in Id, pending[id] # <<>>, Settle(id),
           NEW s \in Own(id), RetryQueued(s), Head(pending[id]).sim # s
    PROVE  RetryQueued(s)'
<1>1. s[1] = id
  BY OwnFacts
<1>2. pending[id] \in Seq(Change) /\ pending'[id] = Tail(pending[id])
  BY DEF TypeOK, Settle
<1>3. PICK i \in DOMAIN pending[id] : pending[id][i].sim = s
  BY <1>1 DEF RetryQueued
<1>4. i # 1 /\ i \in 1 .. Len(pending[id])
  BY <1>2, <1>3
<1>5. i - 1 \in DOMAIN Tail(pending[id]) /\ Tail(pending[id])[i - 1] = pending[id][i]
  <2> DEFINE q == pending[id]
  <2>1. q \in Seq(Change) /\ q # <<>> /\ i - 1 \in 1 .. Len(q) - 1
    BY <1>2, <1>4
  <2> HIDE DEF q
  <2>2. Len(Tail(q)) = Len(q) - 1 /\ \A k \in 1 .. Len(q) - 1 : Tail(q)[k] = q[k + 1]
    BY <2>1
  <2>3. DOMAIN Tail(q) = 1 .. Len(q) - 1
    BY <2>1, <2>2
  <2> QED
    BY <1>4, <2>1, <2>2, <2>3 DEF q
<1> QED
  BY <1>1, <1>2, <1>3, <1>5 DEF RetryQueued

\* A call that joins a queue leaves them too; a start that joins is one of them.
LEMMA JoinQueue ==
    ASSUME TypeOK, NEW id \in Id, NEW c \in Change, pending' = [pending EXCEPT ![id] = Append(@, c)]
    PROVE  /\ \A i \in Id : pending[i] # <<>> =>
                 pending'[i] # <<>> /\ Head(pending'[i]) = Head(pending[i])
           /\ \A i \in Id : \A s \in Own(i) : RetryQueued(s) => RetryQueued(s)'
           /\ \A s \in Own(id) : c.sim = s => RetryQueued(s)'
<1> DEFINE q == Append(pending[id], c)
<1>1. pending[id] \in Seq(Change) /\ pending \in [Id -> Seq(Change)]
  BY DEF TypeOK
<1>2. /\ pending[id] # <<>> => q # <<>> /\ Head(q) = Head(pending[id])
      /\ \A k \in DOMAIN pending[id] : k \in DOMAIN q /\ q[k] = pending[id][k]
      /\ \E k \in DOMAIN q : q[k] = c
  <2>1. Len(q) = Len(pending[id]) + 1 /\ q[Len(pending[id]) + 1] = c
    BY <1>1
  <2>2. Len(pending[id]) + 1 \in DOMAIN q
    BY <1>1, <2>1
  <2>3. \A k \in DOMAIN pending[id] : k \in DOMAIN q /\ q[k] = pending[id][k]
    BY <1>1
  <2>4. pending[id] # <<>> => q # <<>> /\ Head(q) = Head(pending[id])
    BY <1>1, AppendKeepsHead
  <2> QED
    BY <2>1, <2>2, <2>3, <2>4
<1>3. pending'[id] = q /\ \A i \in Id \ {id} : pending'[i] = pending[i]
  BY <1>1
<1> HIDE DEF q
<1>4. \A i \in Id : pending[i] # <<>> => pending'[i] # <<>> /\ Head(pending'[i]) = Head(pending[i])
  BY <1>2, <1>3
<1>5. ASSUME NEW i \in Id, NEW s \in Own(i), RetryQueued(s) PROVE RetryQueued(s)'
  <2>1. s[1] = i
    BY OwnFacts
  <2> QED
    BY <1>2, <1>3, <1>5, <2>1 DEF RetryQueued
<1>6. ASSUME NEW s \in Own(id), c.sim = s PROVE RetryQueued(s)'
  <2>1. s[1] = id
    BY OwnFacts
  <2> QED
    BY <1>2, <1>3, <1>6, <2>1 DEF RetryQueued
<1> QED
  BY <1>4, <1>5, <1>6

-----------------------------------------------------------------------------
(* A step that is none of id's business                                    *)

LEMMA WorksStable ==
    ASSUME NEW id \in Id, TypeOK, Shape(id), Works(id),
           simulations'[id] = simulations[id], job'[id] = job[id],
           pending[id] # <<>> => pending'[id] # <<>> /\ Head(pending'[id]) = Head(pending[id]),
           \A s \in Own(id) : RetryQueued(s) => RetryQueued(s)',
           \A s \in Own(id) : object'[s] = object[s],
           Own(id) \cap open \subseteq open'
    PROVE  Works(id)'
<1>1. \A s \in Own(id) : /\ s \in Sim /\ s # None
                         /\ (Clean(s)' <=> Clean(s)) /\ (Halted(s)' <=> Halted(s))
                         /\ (Enabled(s)' <=> Enabled(s))
  BY OwnFacts DEF Clean, Halted, Enabled
<1>2. {simulations[id], job[id].sim, job[id].old} \subseteq Maybe(Own(id))
  BY DEF Shape
<1>3. Linked(id)'
  BY DEF Works, Linked
<1>4. ASSUME NEW s \in Own(id), Running(s) PROVE Running(s)'
  <2>1. object[s].link \in Own(id) \cap open
    BY <1>4, NoLinkIsNone DEF Works, Linked, Running
  <2> QED
    BY <1>4, <2>1 DEF Running
<1>5. CASE job[id].stage = "idle"
  <2>1. job[id].sim = None /\ job[id].old = None
    BY <1>5 DEF Shape, Idle
  <2>2. Holding(id)'
    BY <1>1, <1>2, <1>5, <2>1 DEF Works, Holding, InUse, Maybe
  <2>3. SavedRuns(id)'
    BY <1>5 DEF SavedRuns
  <2>4. ActiveRuns(id)'
    BY <1>1, <1>2, <1>4, <1>5, <2>1 DEF Works, ActiveRuns, RunsOrWill, Maybe
  <2> QED
    BY <1>3, <2>2, <2>3, <2>4 DEF Works
<1>6. CASE job[id].stage # "idle"
  <2>1. /\ Changing(id)' = Changing(id) /\ Head(pending'[id]) = Head(pending[id])
        /\ job[id].sim \in Own(id)
        /\ job[id].old # None => job[id].old \in Own(id)
        /\ job[id].stage = "releasing" /\ Changing(id) = "put" => job[id].old # None
    BY <1>6, RunningFacts DEF Shape, RunningShape, PutShape, Changing
  <2>2. Holding(id)'
    <3>1. \A s \in Own(id) : InUse(id, s) => InUse(id, s)'
      BY <1>1, <1>2, <2>1 DEF InUse, MayHold
    <3>2. job[id].stage \in {"undoing", "releasing"} => Halted(Target(id))'
      BY <1>1, <2>1 DEF Works, Holding, Target
    <3> QED
      BY <1>1, <2>1, <3>1, <3>2 DEF Works, Holding
  <2>3. SavedRuns(id)'
    BY <1>1, <1>4, <2>1 DEF Works, SavedRuns
  <2>4. ActiveRuns(id)'
    BY <1>1, <1>2, <1>4, <2>1 DEF Works, ActiveRuns, RunsOrWill, Maybe
  <2> QED
    BY <1>3, <2>2, <2>3, <2>4 DEF Works
<1> QED
  BY <1>5, <1>6

-----------------------------------------------------------------------------
(* What most steps of a change have in common                              *)

\* What holds when id's own change makes a step.
Stepping(id) ==
    /\ TypeOK /\ TimersCounted /\ Shape(id) /\ Shape(id)' /\ Works(id)
    /\ Own(id) \subseteq Sim /\ None \notin open
    /\ \A s \in Own(id) : s # None

LEMMA SteppingFacts ==
    ASSUME IInv, WorkInv, NEW id \in Id, Steps(id), phase \in {"ready", "stopping"}
    PROVE  Stepping(id)
<1>1. TypeOK /\ TimersCounted /\ Alive /\ Shape(id) /\ Works(id) /\ phase' = phase
  BY StepFrame DEF WorkInv, IInv
<1>2. Shape(id)'
  <2>1. IInv'
    BY NextIInv DEF Next
  <2> QED
    BY <1>1, <2>1 DEF IInv, Alive
<1>3. Own(id) \subseteq Sim /\ \A s \in Own(id) : s # None
  BY OwnFacts
<1> QED
  BY <1>1, <1>2, <1>3, NoLinkIsNone DEF Stepping

\* Connections while none is opened, when one is closed and when one is opened.
LEMMA LinkedKept ==
    ASSUME NEW id \in Id, Linked(id), Own(id) \cap open \subseteq open',
           \A s \in Own(id) : object'[s].link = object[s].link
    PROVE  Linked(id)'
  BY DEF Linked

LEMMA LinkedLost ==
    ASSUME NEW id \in Id, Linked(id), NEW t \in Own(id), open' = open \ {object[t].link},
           object'[t].link = None, \A s \in Own(id) \ {t} : object'[s] = object[s]
    PROVE  Linked(id)'
  BY DEF Linked

LEMMA LinkedGained ==
    ASSUME NEW id \in Id, Linked(id), NEW t \in Own(id), NEW c \in Own(id),
           open' = open \cup {c}, \A s \in Own(id) : object[s].link # c,
           object'[t].link = c, \A s \in Own(id) \ {t} : object'[s] = object[s]
    PROVE  Linked(id)'
  BY DEF Linked

\* An object the step does not touch goes on running: its connection stays open.
LEMMA GoesOn ==
    ASSUME NEW id \in Id, Linked(id), NEW s \in Own(id), Running(s), None \notin open,
           object'[s].link = object[s].link, object'[s].timer = object[s].timer,
           object'[s].input.version = object[s].input.version,
           \/ open \subseteq open'
           \/ \E t \in Own(id) \ {s} : open' = open \ {object[t].link}
    PROVE  Running(s)'
  BY DEF Linked, Running

LEMMA AwaitJob ==
    ASSUME TypeOK, NEW id \in Id, NEW stage \in Stage, Await(id, stage)
    PROVE  /\ pending' = pending /\ Changing(id)' = Changing(id)
           /\ job'[id].stage = stage
           /\ job'[id].sim = job[id].sim /\ job'[id].old = job[id].old
  BY DEF TypeOK, Await, Job, Changing

LEMMA StartedJob ==
    ASSUME TypeOK, NEW id \in Id, Started(id)
    PROVE  \/ Changing(id) = "retry" /\ Settle(id)
           \/ /\ Changing(id) # "retry" /\ pending' = pending /\ Changing(id)' = Changing(id)
              /\ job'[id].stage = "saving"
              /\ job'[id].sim = job[id].sim /\ job'[id].old = job[id].old
  BY AwaitJob DEF Started, Stage

\* A change settles: only what is registered and enabled may hold anything.
LEMMA SettledWorks ==
    ASSUME NEW id \in Id, TypeOK, pending[id] # <<>>, Settle(id), Linked(id)',
           \A s \in Own(id) : Clean(s)' \/ (s = simulations'[id] /\ Enabled(s)'),
           simulations'[id] \in Maybe(Own(id)),
           \A s \in Own(id) : s = simulations'[id] /\ Enabled(s)' =>
                Running(s)' \/ object'[s].retry \/ RetryQueued(s)'
    PROVE  Works(id)'
<1>1. job'[id] = Idle
  BY SettleType
<1>2. job'[id].stage = "idle" /\ job'[id].sim = None /\ job'[id].old = None
  BY <1>1 DEF Idle
<1>3. Holding(id)'
  BY <1>2 DEF Holding, InUse
<1>4. SavedRuns(id)'
  BY <1>2 DEF SavedRuns
<1>5. ActiveRuns(id)'
  <2>1. CASE simulations'[id] = None
    BY <1>2, <2>1 DEF ActiveRuns
  <2>2. ASSUME NEW s \in Own(id), s = simulations'[id] PROVE ActiveRuns(id)'
    BY <1>2, <2>2 DEF ActiveRuns, RunsOrWill, Enabled
  <2> QED
    BY <2>1, <2>2 DEF Maybe
<1> QED
  BY <1>3, <1>4, <1>5 DEF Works

-----------------------------------------------------------------------------
(* A change begins                                                         *)

LEMMA MootWorks ==
    ASSUME NEW id \in Id, Stepping(id), Moot(id)
    PROVE  Works(id)'
<1>1. /\ job[id].stage = "idle" /\ job[id].sim = None /\ job[id].old = None
      /\ pending[id] # <<>> /\ Settle(id) /\ object' = object /\ open' = open /\ simulations' = simulations
  BY DEF Stepping, Moot, MayBegin, Shape, Idle
<1>2. Linked(id)'
  BY <1>1, LinkedKept DEF Stepping, Works
<1>3. \A s \in Own(id) : Clean(s)' \/ (s = simulations'[id] /\ Enabled(s)')
  BY <1>1 DEF Stepping, Works, Holding, InUse, Clean, Halted, Enabled
<1>4. ASSUME NEW s \in Own(id), s = simulations[id], Enabled(s)
      PROVE  Running(s)' \/ object'[s].retry \/ RetryQueued(s)'
  <2>1. s # None
    BY DEF Stepping
  <2>2. Running(s) \/ object[s].retry \/ RetryQueued(s)
    BY <1>1, <1>4, <2>1 DEF Stepping, Works, ActiveRuns, RunsOrWill
  <2>3. Head(pending[id]).sim # s
    <3>1. Head(pending[id]) \in Change
      BY <1>1 DEF Stepping, TypeOK
    <3>2. CASE Changing(id) = "retry"
      BY <1>1, <1>4, <3>2, <2>1 DEF Moot, Enabled
    <3>3. CASE Changing(id) # "retry"
      BY <2>1, <3>1, <3>3 DEF Changing, Change, Calls, PutOf, RetryOf, NoChange
    <3> QED
      BY <3>2, <3>3
  <2>4. RetryQueued(s) => RetryQueued(s)'
    BY <1>1, <2>3, StillQueued DEF Stepping
  <2> QED
    BY <1>1, <2>2, <2>4 DEF Running
<1>5. \A s \in Own(id) : Enabled(s)' <=> Enabled(s)
  BY <1>1 DEF Enabled
<1>6. simulations'[id] \in Maybe(Own(id))
  BY DEF Stepping, Shape
<1>7. TypeOK
  BY DEF Stepping
<1> QED
  BY <1>1, <1>2, <1>3, <1>4, <1>5, <1>6, <1>7, SettledWorks

\* A change that begins on what is registered disturbs nothing.
LEMMA BeginWorks ==
    ASSUME NEW id \in Id, Stepping(id), BeginStop(id) \/ BeginStart(id)
    PROVE  Works(id)'
<1>1. /\ job[id].stage = "idle" /\ job[id].sim = None /\ job[id].old = None
      /\ pending' = pending /\ object' = object /\ open' = open /\ simulations' = simulations
      /\ simulations[id] # None /\ Changing(id)' = Changing(id)
      /\ Changing(id) = "switchOn" \/ Changing(id) = "retry" \/ Changing(id) \in {"remove", "switchOff"}
  BY DEF Stepping, BeginStop, BeginStart, MayBegin, Shape, Idle, Begin, Changing
<1>2. /\ job'[id].sim = simulations[id] /\ job'[id].old = None
      /\ BeginStop(id) => job'[id].stage = "saving" /\ Changing(id) \in {"remove", "switchOff"}
      /\ BeginStart(id) => /\ job'[id].stage = "starting" /\ Changing(id) \in {"switchOn", "retry"}
                           /\ Changing(id) = "retry" => simulations[id] = Head(pending[id]).sim
  BY DEF Stepping, TypeOK, BeginStop, BeginStart, Begin, MayBegin
<1>3. \A s \in Own(id) : /\ (Clean(s)' <=> Clean(s)) /\ (Enabled(s)' <=> Enabled(s))
                         /\ Running(s)' <=> Running(s)
  BY <1>1 DEF Clean, Halted, Enabled, Running
<1>4. Holding(id)'
  BY <1>1, <1>2, <1>3 DEF Stepping, Works, Holding, InUse
<1>5. Linked(id)'
  BY <1>1, LinkedKept DEF Stepping, Works
<1>6. SavedRuns(id)'
  BY <1>1, <1>2 DEF SavedRuns
<1>7. ActiveRuns(id)'
  <2>1. simulations[id] \in Own(id)
    BY <1>1 DEF Stepping, Shape, Maybe
  <2>2. RetryQueued(simulations[id]) => RetryQueued(simulations[id])'
    BY <1>1 DEF RetryQueued
  <2> QED
    BY <1>1, <1>2, <1>3, <2>1, <2>2 DEF Stepping, Works, ActiveRuns, RunsOrWill, Enabled
<1> QED
  BY <1>4, <1>5, <1>6, <1>7 DEF Works

LEMMA BeginPutWorks ==
    ASSUME NEW id \in Id, Stepping(id), BeginPut(id)
    PROVE  Works(id)'
<1>1. /\ job[id].stage = "idle" /\ job[id].sim = None /\ job[id].old = None
      /\ pending' = pending /\ open' = open /\ Changing(id) = "put" /\ Changing(id)' = "put"
  BY DEF Stepping, BeginPut, MayBegin, Shape, Idle, Begin, Changing
<1>2. PICK new \in Own(id) :
        /\ new = NewSim(id) /\ new # simulations[id] /\ object[new].link = None
  BY DEF BeginPut, NewSim, FreeSims
<1>3. PICK old \in Maybe(Own(id)) : old = simulations[id]
  BY DEF Stepping, Shape
<1>4. PICK i : i = Head(pending[id]).input
  OBVIOUS
<1>5. /\ \A s \in Own(id) \ {new} : object'[s] = object[s]
      /\ object'[new].link = None /\ ~object'[new].timer /\ ~object'[new].retry
      /\ object'[new].input = i
  <2>1. object' = [object EXCEPT ![new] = [Blank EXCEPT !.input = i]]
    BY <1>2, <1>4 DEF BeginPut
  <2>2. new \in Sim /\ object \in [Sim -> Object] /\ Own(id) \subseteq Sim
    BY DEF Stepping, TypeOK
  <2>3. object'[new] = [Blank EXCEPT !.input = i]
    BY <2>1, <2>2
  <2> QED
    BY <2>1, <2>2, <2>3 DEF Blank
<1>6. /\ job'[id].sim = new /\ job'[id].old = old
      /\ job'[id].stage = IF i.enabled THEN "starting" ELSE "saving"
      /\ simulations'[id] = IF old = None THEN new ELSE old
  BY <1>2, <1>3, <1>4 DEF Stepping, TypeOK, BeginPut, Begin, FirstStage
<1>7. new # None
  BY DEF Stepping
<1>8. (Enabled(new)' <=> i.enabled) /\ Clean(new)'
  BY <1>5 DEF Enabled, Clean, Halted
<1>9. Holding(id)'
  <2>1. ASSUME NEW s \in Own(id) \ {new} PROVE Clean(s)' \/ InUse(id, s)'
    <3>1. Clean(s) \/ (s = simulations[id] /\ Enabled(s))
      BY <1>1, <2>1 DEF Stepping, Works, Holding, InUse
    <3>2. s = simulations[id] => s = simulations'[id]
      BY <1>3, <1>6 DEF Stepping
    <3> QED
      BY <1>5, <3>1, <3>2 DEF Clean, Halted, Enabled, InUse
  <2> QED
    BY <1>1, <1>6, <1>8, <2>1 DEF Holding, Enabled
<1>10. Linked(id)'
  BY <1>1, <1>5 DEF Stepping, Works, Linked
<1>11. SavedRuns(id)'
  BY <1>1, <1>6, <1>8 DEF SavedRuns, Enabled
<1>12. ActiveRuns(id)'
  <2>1. CASE old = None
    BY <1>1, <1>6, <1>8, <2>1 DEF ActiveRuns, RunsOrWill, Enabled
  <2>2. CASE old # None
    <3>1. old \in Own(id) \ {new} /\ simulations'[id] = old /\ old = simulations[id]
      BY <1>2, <1>3, <1>6, <2>2 DEF Maybe
    <3>2. (Enabled(old)' <=> Enabled(old)) /\ object'[old] = object[old]
      BY <1>5, <3>1 DEF Enabled
    <3>3. Enabled(old) => Running(old) \/ object[old].retry \/ RetryQueued(old)
      BY <1>1, <2>2, <3>1 DEF Stepping, Works, ActiveRuns, RunsOrWill
    <3>4. Enabled(old)' => Running(old)' \/ object'[old].retry \/ RetryQueued(old)'
      BY <1>1, <3>2, <3>3 DEF Running, RetryQueued
    <3> QED
      BY <1>1, <3>1, <3>4 DEF ActiveRuns, RunsOrWill, Enabled
  <2> QED
    BY <2>1, <2>2
<1> QED
  BY <1>9, <1>10, <1>11, <1>12 DEF Works

-----------------------------------------------------------------------------
(* A start goes on, or fails                                               *)

\* The kinds of change that start something.
LEMMA StartingKinds ==
    ASSUME NEW id \in Id, Stepping(id), job[id].stage \in {"starting", "preparing", "undoing"}
    PROVE  /\ pending[id] # <<>> /\ job[id].sim \in Own(id) /\ RunningShape(id)
           /\ Changing(id) \in {"put", "switchOn", "retry"}
           /\ Changing(id) = "retry" => simulations[id] = job[id].sim /\ Enabled(job[id].sim)
           /\ Changing(id) = "switchOn" => simulations[id] = job[id].sim /\ ~Enabled(job[id].sim)
<1>1. /\ Changing(id) \in Kind /\ job[id].sim \in Own(id) /\ RunningShape(id) /\ pending[id] # <<>>
      /\ job[id].stage # "idle"
  BY RunningFacts DEF Stepping, Shape
<1>2. Changing(id) \notin {"remove", "switchOff"}
  BY <1>1 DEF RunningShape, StopShape
<1> QED
  BY <1>1, <1>2 DEF Kind, RunningShape, StartShape, Enabled

\* The objects of id other than the one a change works on.
LEMMA OtherObjects ==
    ASSUME NEW id \in Id, Stepping(id), job[id].stage # "releasing",
           NEW x \in Own(id) \ {job[id].sim}, object'[x] = object[x], simulations' = simulations
    PROVE  /\ Clean(x)' \/ (x = simulations'[id] /\ Enabled(x)')
           /\ x = simulations[id] /\ Enabled(x) =>
                Running(x) \/ object[x].retry \/ RetryQueued(x)
<1>1. Clean(x) \/ (x = simulations[id] /\ Enabled(x))
  BY DEF Stepping, Works, Holding, InUse
<1>2. x # None
  BY DEF Stepping
<1> QED
  BY <1>1, <1>2 DEF Clean, Halted, Enabled, Stepping, Works, ActiveRuns, RunsOrWill

LEMMA StartWorks ==
    ASSUME NEW id \in Id, Stepping(id), job[id].stage \in {"starting", "preparing"},
           NEW s \in Own(id), s = job[id].sim, simulations' = simulations, Linked(id)',
           \A x \in Own(id) \ {s} : object'[x] = object[x],
           object'[s].link # None, object'[s].input = object[s].input,
           open \subseteq open',
           \/ Await(id, "preparing")
           \/ Started(id) /\ Running(s)'
    PROVE  Works(id)'
<1>1. /\ Changing(id) \in {"put", "switchOn", "retry"} /\ pending[id] # <<>>
      /\ Changing(id) = "retry" => simulations[id] = s /\ Enabled(s)
      /\ Changing(id) = "put" => Enabled(s)
      /\ Changing(id) = "retry" => Head(pending[id]).sim = s
      /\ TypeOK /\ s # None
  BY StartingKinds DEF Stepping, Works, Holding, ActiveRuns
<1>2. Enabled(s)' <=> Enabled(s)
  BY DEF Enabled
<1>3. \A x \in Own(id) \ {s} : Clean(x)' \/ (x = simulations'[id] /\ Enabled(x)')
  BY OtherObjects
<1>4. ASSUME NEW x \in Own(id) \ {s}, x = simulations'[id], Enabled(x)'
      PROVE  Running(x)' \/ object'[x].retry \/ RetryQueued(x)
  <2>1. Enabled(x)
    BY <1>4 DEF Enabled
  <2>2. Running(x) \/ object[x].retry \/ RetryQueued(x)
    BY <1>4, <2>1, OtherObjects
  <2>3. Running(x) => Running(x)'
    BY GoesOn DEF Stepping, Works
  <2> QED
    BY <2>2, <2>3
<1>5. CASE Started(id) /\ Running(s)' /\ Changing(id) = "retry"
  <2>1. Settle(id)
    BY <1>5 DEF Started
  <2>2. simulations'[id] \in Maybe(Own(id))
    BY DEF Stepping, Shape
  <2>3. \A x \in Own(id) : Clean(x)' \/ (x = simulations'[id] /\ Enabled(x)')
    BY <1>1, <1>2, <1>3, <1>5
  <2>4. \A x \in Own(id) : x = simulations'[id] /\ Enabled(x)' => Running(x)'
    BY <1>1, <1>5
  <2> QED
    BY <1>1, <2>1, <2>2, <2>3, <2>4, SettledWorks
<1>6. CASE Await(id, "preparing") \/ (Started(id) /\ Running(s)' /\ Changing(id) # "retry")
  <2>1. /\ pending' = pending /\ Changing(id)' = Changing(id)
        /\ job'[id].sim = s /\ job'[id].old = job[id].old
        /\ job'[id].stage = "preparing" \/ (job'[id].stage = "saving" /\ Running(s)')
    BY <1>1, <1>6, AwaitJob, StartedJob DEF Stage
  <2>2. Holding(id)'
    <3>1. Clean(s)' \/ InUse(id, s)'
      BY <1>1, <1>2, <2>1 DEF InUse, MayHold, Enabled
    <3>2. \A x \in Own(id) \ {s} : Clean(x)' \/ InUse(id, x)'
      BY <1>3 DEF InUse
    <3> QED
      BY <1>1, <1>2, <2>1, <3>1, <3>2 DEF Holding, Enabled
  <2>3. SavedRuns(id)'
    BY <2>1 DEF SavedRuns
  <2>4. ActiveRuns(id)'
    <3>1. \A x \in Own(id) : RetryQueued(x) <=> RetryQueued(x)'
      BY <2>1 DEF RetryQueued
    <3>2. simulations'[id] \in Maybe(Own(id))
      BY DEF Stepping, Shape
    <3>3. CASE simulations'[id] = None \/ simulations'[id] = s
      BY <1>1, <2>1, <3>3 DEF ActiveRuns, RunsOrWill
    <3>4. ASSUME NEW x \in Own(id) \ {s}, x = simulations'[id] PROVE ActiveRuns(id)'
      BY <1>1, <1>4, <2>1, <3>1, <3>4 DEF ActiveRuns, RunsOrWill, Enabled
    <3> QED
      BY <3>2, <3>3, <3>4 DEF Maybe
  <2> QED
    BY <2>2, <2>3, <2>4 DEF Works
<1> QED
  BY <1>5, <1>6

LEMMA ConnectedWorks ==
    ASSUME NEW id \in Id, Stepping(id), Connected(id)
    PROVE  Works(id)'
<1>1. job[id].stage = "starting" /\ simulations' = simulations /\ TypeOK /\ Own(id) \subseteq Sim
  BY DEF Connected, At, Stepping
<1>2. PICK s \in Own(id) : s = job[id].sim
  BY <1>1, StartingKinds
<1>3. PICK c \in Own(id) : c = NewConn(id)
  BY <1>1, <1>2, ConnectedFields
<1>4. /\ c \notin open /\ open' = open \cup {c} /\ \A x \in Sim : object[x].link # c
      /\ \A x \in Sim \ {s} : object'[x] = object[x]
      /\ object'[s].link = c /\ object'[s].input = object[s].input
      /\ Await(id, "preparing") \/ (Started(id) /\ object'[s].timer)
  BY <1>1, <1>2, <1>3, ConnectedFields
<1>5. Linked(id)'
  BY <1>1, <1>4, LinkedGained DEF Stepping, Works
<1>6. c # None
  BY DEF Stepping
<1>7. Await(id, "preparing") \/ (Started(id) /\ Running(s)')
  BY <1>4 DEF Running
<1> QED
  BY <1>1, <1>2, <1>4, <1>5, <1>6, <1>7, StartWorks

LEMMA PreparedWorks ==
    ASSUME NEW id \in Id, Stepping(id), Prepared(id)
    PROVE  Works(id)'
<1>1. job[id].stage = "preparing" /\ simulations' = simulations /\ TypeOK /\ Own(id) \subseteq Sim
  BY DEF Prepared, At, Stepping
<1>2. PICK s \in Own(id) : s = job[id].sim
  BY <1>1, StartingKinds
<1>3. /\ open' = open /\ Started(id)
      /\ \A x \in Sim \ {s} : object'[x] = object[x]
      /\ object'[s].link = object[s].link /\ object'[s].input = object[s].input
      /\ object'[s].timer \/ object[s].input.version \in FillVersion
  BY <1>1, <1>2, PreparedFields
<1>4. object[s].link # None /\ object[s].link \in open
  BY <1>1, <1>2 DEF Stepping, Works, SavedRuns, Linked
<1>5. Linked(id)'
  BY <1>1, <1>3, LinkedKept DEF Stepping, Works
<1>6. Running(s)'
  BY <1>3, <1>4 DEF Running
<1> QED
  BY <1>1, <1>2, <1>3, <1>4, <1>5, <1>6, StartWorks

\* The teardown of what a change started begins.
LEMMA UndoWorks ==
    ASSUME NEW id \in Id, Stepping(id), Changing(id) \in {"put", "switchOn", "retry"},
           job[id].stage \in {"starting", "preparing", "saving", "committed"},
           simulations' = simulations, StopTimers(job[id].sim), Await(id, "undoing")
    PROVE  Works(id)'
<1>1. TypeOK /\ job[id].sim \in Own(id) /\ Own(id) \subseteq Sim
  BY RunningFacts DEF Stepping
<1>2. PICK s \in Own(id) : s = job[id].sim
  BY <1>1
<1>3. /\ open' = open
      /\ \A x \in Own(id) \ {s} : object'[x] = object[x]
      /\ object'[s].link = object[s].link /\ object'[s].input = object[s].input
      /\ ~object'[s].timer /\ ~object'[s].retry
  BY <1>1, <1>2, StopTimersFields
<1>4. /\ pending' = pending /\ Changing(id)' = Changing(id)
      /\ job'[id].stage = "undoing" /\ job'[id].sim = s
  BY <1>1, <1>2, AwaitJob DEF Stage
<1>5. (Enabled(s)' <=> Enabled(s)) /\ (Clean(s) => Clean(s)') /\ Halted(s)'
  BY <1>3 DEF Enabled, Clean, Halted
<1>6. Holding(id)'
  <2>1. Clean(s)' \/ InUse(id, s)'
    <3>1. Clean(s) \/ InUse(id, s)
      BY DEF Stepping, Works, Holding
    <3>2. InUse(id, s) => InUse(id, s)'
      BY <1>2, <1>4, <1>5 DEF InUse, MayHold, Enabled
    <3> QED
      BY <1>5, <3>1, <3>2
  <2>2. \A x \in Own(id) \ {s} : Clean(x)' \/ InUse(id, x)'
    BY <1>2, <1>3, OtherObjects DEF InUse
  <2>3. Halted(Target(id))'
    BY <1>4, <1>5 DEF Target, Halted
  <2> QED
    BY <1>4, <2>1, <2>2, <2>3 DEF Holding
<1>7. Linked(id)'
  BY <1>3, LinkedKept DEF Stepping, Works
<1>8. SavedRuns(id)'
  BY <1>4 DEF SavedRuns
<1>9. ActiveRuns(id)'
  <2>1. Changing(id) = "retry" => Head(pending'[id]).sim = s
    BY <1>2, <1>4 DEF Stepping, Works, ActiveRuns
  <2>2. simulations'[id] \in Maybe(Own(id))
    BY DEF Stepping, Shape
  <2>3. CASE simulations'[id] = None \/ simulations'[id] = s
    BY <1>4, <2>1, <2>3 DEF ActiveRuns, RunsOrWill
  <2>4. ASSUME NEW x \in Own(id) \ {s}, x = simulations'[id] PROVE ActiveRuns(id)'
    <3>1. Enabled(x)' <=> Enabled(x)
      BY <1>3 DEF Enabled
    <3>2. Enabled(x) => Running(x) \/ object[x].retry \/ RetryQueued(x)
      BY <1>2, <1>3, <2>4, OtherObjects
    <3>3. Running(x) => Running(x)'
      BY <1>3 DEF Running
    <3>4. RetryQueued(x) => RetryQueued(x)'
      BY <1>4 DEF RetryQueued
    <3> QED
      BY <1>3, <1>4, <2>1, <2>4, <3>1, <3>2, <3>3, <3>4 DEF ActiveRuns, RunsOrWill, Enabled
  <2> QED
    BY <2>2, <2>3, <2>4 DEF Maybe
<1> QED
  BY <1>6, <1>7, <1>8, <1>9 DEF Works

LEMMA StartFailedWorks ==
    ASSUME NEW id \in Id, Stepping(id), StartFailed(id)
    PROVE  Works(id)'
<1>1. /\ job[id].stage \in {"starting", "preparing"} /\ simulations' = simulations
      /\ StopTimers(job[id].sim) /\ Await(id, "undoing")
  BY DEF StartFailed, At
<1> QED
  BY <1>1, StartingKinds, UndoWorks

-----------------------------------------------------------------------------
(* The answer of the database                                              *)

LEMMA OnlyRetriesName ==
    ASSUME NEW id \in Id, Stepping(id), job[id].stage # "idle", Changing(id) # "retry"
    PROVE  Head(pending[id]).sim = None
<1>1. Head(pending[id]) \in Change
  BY RunningFacts DEF Stepping
<1> QED
  BY <1>1 DEF Changing, Change, Calls, PutOf, RetryOf, NoChange

\* The kinds of change that write.
LEMMA SavingKinds ==
    ASSUME NEW id \in Id, Stepping(id), job[id].stage \in {"saving", "committed"}
    PROVE  /\ pending[id] # <<>> /\ job[id].sim \in Own(id) /\ RunningShape(id)
           /\ Changing(id) \in {"put", "remove", "switchOn", "switchOff"}
           /\ Changing(id) \in {"remove", "switchOn", "switchOff"} => simulations[id] = job[id].sim
           /\ Changing(id) = "switchOff" => Enabled(job[id].sim)
           /\ Changing(id) = "switchOn" => ~Enabled(job[id].sim)
<1>1. /\ Changing(id) \in Kind /\ job[id].sim \in Own(id) /\ RunningShape(id) /\ pending[id] # <<>>
      /\ job[id].stage # "idle"
  BY RunningFacts DEF Stepping, Shape
<1>2. Changing(id) # "retry"
  BY <1>1 DEF RunningShape, StartShape
<1> QED
  BY <1>1, <1>2 DEF Kind, RunningShape, StartShape, StopShape, Enabled

LEMMA CommitWorks ==
    ASSUME NEW id \in Id, Stepping(id), Commit(id)
    PROVE  Works(id)'
<1>1. /\ job[id].stage = "saving" /\ simulations' = simulations /\ object' = object /\ open' = open
      /\ TypeOK
  BY DEF Commit, At, Stepping
<1>2. /\ pending' = pending /\ Changing(id)' = Changing(id)
      /\ job'[id].stage = "committed" /\ job'[id].sim = job[id].sim /\ job'[id].old = job[id].old
  BY <1>1, AwaitJob DEF Commit, Stage
<1>3. job[id].sim \in Own(id)
  BY <1>1, SavingKinds
<1>4. \A s \in Own(id) : /\ (Clean(s)' <=> Clean(s)) /\ (Enabled(s)' <=> Enabled(s))
                         /\ (Running(s)' <=> Running(s)) /\ (RetryQueued(s)' <=> RetryQueued(s))
  BY <1>1, <1>2 DEF Clean, Halted, Enabled, Running, RetryQueued
<1>5. Holding(id)'
  BY <1>1, <1>2, <1>3, <1>4 DEF Stepping, Works, Holding, InUse, MayHold, Enabled
<1>6. Linked(id)'
  BY <1>1, LinkedKept DEF Stepping, Works
<1>7. SavedRuns(id)'
  BY <1>1, <1>2, <1>3, <1>4 DEF Stepping, Works, SavedRuns, Enabled, Running
<1>8. ActiveRuns(id)'
  <2>1. simulations[id] \in Maybe(Own(id))
    BY DEF Stepping, Shape
  <2> QED
    BY <1>1, <1>2, <1>4, <2>1 DEF Stepping, Works, ActiveRuns, RunsOrWill, Enabled, Maybe, Running, RetryQueued
<1> QED
  BY <1>5, <1>6, <1>7, <1>8 DEF Works

LEMMA SaveFailedWorks ==
    ASSUME NEW id \in Id, Stepping(id), SaveFailed(id)
    PROVE  Works(id)'
<1>1. job[id].stage \in {"saving", "committed"} /\ simulations' = simulations /\ TypeOK
  BY DEF SaveFailed, At, Stepping
<1>2. CASE Changing(id) \in {"put", "switchOn"}
  BY <1>1, <1>2, UndoWorks DEF SaveFailed
<1>3. CASE Changing(id) \in {"remove", "switchOff"}
  <2>1. Settle(id) /\ object' = object /\ open' = open
    BY <1>3 DEF SaveFailed
  <2>2. Linked(id)'
    BY <2>1, LinkedKept DEF Stepping, Works
  <2>3. PICK s \in Own(id) : s = job[id].sim
    BY <1>1, SavingKinds
  <2>4. simulations'[id] = s /\ pending[id] # <<>>
    BY <1>1, <1>3, <2>3, SavingKinds
  <2>5. \A x \in Own(id) : Clean(x)' \/ (x = simulations'[id] /\ Enabled(x)')
    BY <1>1, <1>3, <2>1, <2>3, <2>4 DEF Stepping, Works, Holding, InUse, MayHold, Clean, Halted, Enabled
  <2>6. ASSUME Enabled(s)' PROVE Running(s)' \/ object'[s].retry \/ RetryQueued(s)'
    <3>1. Running(s) \/ object[s].retry \/ RetryQueued(s)
      BY <1>1, <2>1, <2>3, <2>4, <2>6 DEF Stepping, Works, ActiveRuns, RunsOrWill, Enabled
    <3>2. Head(pending[id]).sim # s
      BY <1>1, <1>3, OnlyRetriesName DEF Stepping
    <3>3. RetryQueued(s) => RetryQueued(s)'
      BY <1>1, <2>1, <2>4, <3>2, StillQueued
    <3> QED
      BY <2>1, <3>1, <3>3 DEF Running
  <2> QED
    BY <1>1, <2>1, <2>2, <2>4, <2>5, <2>6, SettledWorks DEF Maybe
<1> QED
  BY <1>2, <1>3 DEF SaveFailed

LEMMA PutSavedWorks ==
    ASSUME NEW id \in Id, Stepping(id), PutSaved(id)
    PROVE  Works(id)'
<1>1. /\ job[id].stage = "committed" /\ Changing(id) = "put" /\ TypeOK /\ Own(id) \subseteq Sim
      /\ PutShape(id) /\ pending[id] # <<>>
  BY SavingKinds DEF PutSaved, At, Stepping, RunningShape
<1>2. PICK s \in Own(id) : s = job[id].sim
  BY <1>1, SavingKinds
<1>3. PICK old \in Maybe(Own(id)) : old = job[id].old
  BY DEF Stepping, Shape
<1>4. simulations'[id] = s /\ s # old /\ simulations[id] = (IF old = None THEN s ELSE old)
  BY <1>1, <1>2, <1>3 DEF PutSaved, PutShape, TypeOK
<1>5. /\ Enabled(s) => Running(s)
      /\ \A x \in Own(id) : Clean(x) \/ (x = simulations[id] /\ Enabled(x)) \/ (x = s /\ Enabled(s))
  BY <1>1, <1>2 DEF Stepping, Works, SavedRuns, Holding, InUse, MayHold
<1>6. CASE old = None /\ Settle(id) /\ UNCHANGED <<object, open>>
  <2>1. Linked(id)'
    BY <1>6, LinkedKept DEF Stepping, Works
  <2>2. \A x \in Own(id) : Clean(x)' \/ (x = simulations'[id] /\ Enabled(x)')
    BY <1>4, <1>5, <1>6 DEF Clean, Halted, Enabled
  <2>3. Enabled(s)' => Running(s)'
    BY <1>5, <1>6 DEF Enabled, Running
  <2> QED
    BY <1>1, <1>4, <1>6, <2>1, <2>2, <2>3, SettledWorks DEF Maybe
<1>7. CASE old # None /\ StopTimers(old) /\ Await(id, "releasing")
  <2>1. old \in Own(id)
    BY <1>3, <1>7 DEF Maybe
  <2>2. /\ open' = open
        /\ \A x \in Own(id) \ {old} : object'[x] = object[x]
        /\ object'[old].link = object[old].link
        /\ ~object'[old].timer /\ ~object'[old].retry
    BY <1>1, <1>7, <2>1, StopTimersFields
  <2>3. /\ pending' = pending /\ Changing(id)' = "put"
        /\ job'[id].stage = "releasing" /\ job'[id].sim = s /\ job'[id].old = old
    BY <1>1, <1>2, <1>3, <1>7, AwaitJob DEF Stage
  <2>4. Holding(id)'
    <3>1. \A x \in Own(id) \ {old} : Clean(x)' \/ (x = s /\ Enabled(s)')
      BY <1>4, <1>5, <1>7, <2>2 DEF Clean, Halted, Enabled
    <3>2. \A x \in Own(id) : Clean(x)' \/ InUse(id, x)'
      BY <1>4, <2>3, <3>1 DEF InUse
    <3>3. Halted(Target(id))'
      BY <2>2, <2>3 DEF Target, Halted
    <3> QED
      BY <2>3, <3>2, <3>3 DEF Holding
  <2>5. Linked(id)'
    BY <2>2, LinkedKept DEF Stepping, Works
  <2>6. SavedRuns(id)'
    BY <2>3 DEF SavedRuns
  <2>7. Enabled(s)' => Running(s)'
    BY <1>4, <1>5, <2>2 DEF Enabled, Running
  <2>8. ActiveRuns(id)'
    BY <1>4, <2>3, <2>7 DEF ActiveRuns, RunsOrWill, Enabled, Running
  <2> QED
    BY <2>4, <2>5, <2>6, <2>8 DEF Works
<1> QED
  BY <1>3, <1>6, <1>7 DEF PutSaved

\* `enabled` of an object is set and its other fields are as in o.
LEMMA SwitchedFields ==
    ASSUME NEW o \in Object, o.input \in Input, NEW b \in BOOLEAN
    PROVE  LET n == [o EXCEPT !.input.enabled = b]
           IN  /\ n.link = o.link /\ n.timer = o.timer /\ n.retry = o.retry
               /\ n.input.enabled = b /\ n.input.version = o.input.version
  BY DEF Object, Input

LEMMA SwitchOnSavedWorks ==
    ASSUME NEW id \in Id, Stepping(id), SwitchOnSaved(id)
    PROVE  Works(id)'
<1>1. /\ job[id].stage = "committed" /\ Changing(id) = "switchOn" /\ TypeOK /\ Own(id) \subseteq Sim
      /\ pending[id] # <<>> /\ Settle(id) /\ simulations' = simulations /\ open' = open
  BY SavingKinds DEF SwitchOnSaved, At, Stepping
<1>2. PICK s \in Own(id) : s = job[id].sim
  BY <1>1, SavingKinds
<1>3. simulations[id] = s /\ object[s].input \in Input /\ object[s] \in Object
  BY <1>1, <1>2, SavingKinds, RunningFacts DEF Stepping, TypeOK
<1>4. /\ \A x \in Own(id) \ {s} : object'[x] = object[x]
      /\ object'[s].link = object[s].link /\ object'[s].timer = object[s].timer
      /\ object'[s].input.version = object[s].input.version
      /\ Enabled(s)'
  <2>1. object' = [object EXCEPT ![s] = [object[s] EXCEPT !.input.enabled = TRUE]]
    BY <1>2 DEF SwitchOnSaved
  <2>2. object'[s] = [object[s] EXCEPT !.input.enabled = TRUE]
    BY <1>1, <2>1 DEF TypeOK
  <2> QED
    BY <1>1, <1>3, <2>1, <2>2, SwitchedFields DEF TypeOK, Enabled
<1>5. Running(s)'
  <2>1. Running(s)
    BY <1>1, <1>2 DEF Stepping, Works, SavedRuns
  <2> QED
    BY <1>1, <1>4, <2>1 DEF Running
<1>6. \A x \in Own(id) : Clean(x)' \/ (x = simulations'[id] /\ Enabled(x)')
  BY <1>1, <1>2, <1>3, <1>4, OtherObjects
<1>7. Linked(id)'
  BY <1>1, <1>4, LinkedKept DEF Stepping, Works
<1> QED
  BY <1>1, <1>3, <1>5, <1>6, <1>7, SettledWorks DEF Maybe

LEMMA StopSavedWorks ==
    ASSUME NEW id \in Id, Stepping(id), StopSaved(id)
    PROVE  Works(id)'
<1>1. /\ job[id].stage = "committed" /\ Changing(id) \in {"remove", "switchOff"}
      /\ TypeOK /\ Own(id) \subseteq Sim
      /\ Await(id, "releasing") /\ simulations' = simulations /\ open' = open
  BY DEF StopSaved, At, Stepping, StopTimers
<1>2. PICK s \in Own(id) : s = job[id].sim
  BY <1>1, SavingKinds
<1>3. simulations[id] = s /\ object[s].input \in Input /\ object[s] \in Object
  BY <1>1, <1>2, SavingKinds, RunningFacts DEF Stepping, TypeOK
<1>4. /\ \A x \in Own(id) \ {s} : object'[x] = object[x]
      /\ object'[s].link = object[s].link /\ Halted(s)'
      /\ Enabled(s)' <=> (Changing(id) = "remove" /\ Enabled(s))
  <2>1. CASE Changing(id) = "remove"
    BY <1>1, <1>2, <2>1, StopTimersFields DEF StopSaved, Halted, Enabled
  <2>2. CASE Changing(id) = "switchOff"
    <3> DEFINE o == Stopped(object[s])
    <3>1. object' = [object EXCEPT ![s] = [o EXCEPT !.input.enabled = FALSE]]
      BY <1>2, <2>2 DEF StopSaved
    <3>2. o \in Object /\ o.link = object[s].link /\ o.input = object[s].input /\ ~o.timer /\ ~o.retry
      BY <1>1, <1>2, <1>3, StoppedType, StoppedFields DEF Stepping, TimersCounted
    <3> HIDE DEF o
    <3>3. object'[s] = [o EXCEPT !.input.enabled = FALSE]
      BY <1>1, <3>1 DEF TypeOK
    <3>4. /\ object'[s].link = object[s].link /\ ~object'[s].timer /\ ~object'[s].retry
          /\ object'[s].input.enabled = FALSE
      <4>1. o \in Object /\ o.input \in Input /\ FALSE \in BOOLEAN
        BY <1>3, <3>2
      <4>2. /\ object'[s].link = o.link /\ object'[s].timer = o.timer /\ object'[s].retry = o.retry
            /\ object'[s].input.enabled = FALSE
        BY ONLY <4>1, <3>3, SwitchedFields
      <4> QED
        BY <3>2, <4>2
    <3> QED
      BY <1>1, <2>2, <3>1, <3>4 DEF TypeOK, Halted, Enabled
  <2> QED
    BY <1>1, <2>1, <2>2
<1>5. /\ pending' = pending /\ Changing(id)' = Changing(id)
      /\ job'[id].stage = "releasing" /\ job'[id].sim = s
  BY <1>1, <1>2, AwaitJob DEF Stage
<1>6. Holding(id)'
  <2>1. \A x \in Own(id) \ {s} : Clean(x)' \/ InUse(id, x)'
    BY <1>1, <1>2, <1>4, OtherObjects DEF InUse
  <2>2. Clean(s)' \/ InUse(id, s)'
    <3>1. Clean(s) \/ Enabled(s)
      BY <1>1, <1>2 DEF Stepping, Works, Holding, InUse, MayHold
    <3>2. CASE Changing(id) = "switchOff"
      BY <1>5, <3>2 DEF InUse, MayHold
    <3>3. CASE Changing(id) = "remove"
      BY <1>1, <1>3, <1>4, <3>1, <3>3 DEF InUse, Clean
    <3> QED
      BY <1>1, <3>2, <3>3
  <2>3. Halted(Target(id))'
    BY <1>1, <1>4, <1>5 DEF Target, Halted
  <2> QED
    BY <1>1, <1>5, <2>1, <2>2, <2>3 DEF Holding
<1>7. Linked(id)'
  BY <1>1, <1>4, LinkedKept DEF Stepping, Works
<1>8. SavedRuns(id)'
  BY <1>5 DEF SavedRuns
<1>9. ActiveRuns(id)'
  BY <1>1, <1>3, <1>4, <1>5 DEF ActiveRuns, RunsOrWill, Enabled
<1> QED
  BY <1>6, <1>7, <1>8, <1>9 DEF Works

-----------------------------------------------------------------------------
(* A teardown is over                                                      *)

LEMMA UndoneWorks ==
    ASSUME NEW id \in Id, Stepping(id), Undone(id)
    PROVE  Works(id)'
<1>1. /\ job[id].stage = "undoing" /\ TypeOK /\ Own(id) \subseteq Sim /\ Settle(id)
      /\ pending[id] # <<>> /\ Changing(id) \in {"put", "switchOn", "retry"}
  BY StartingKinds DEF Undone, At, Stepping
<1>2. PICK s \in Own(id) : s = job[id].sim
  BY <1>1, StartingKinds
<1>3. object[s] \in Object /\ Halted(s) /\ s # None
  BY <1>1, <1>2 DEF Stepping, TypeOK, Works, Holding, Target
<1>4. PICK after \in Object :
        /\ Disconnect(s, after) /\ ~after.timer
        /\ after.retry => Changing(id) = "retry"
        /\ Changing(id) # "put" => after.input = object[s].input
        /\ Changing(id) = "retry" => after.retry
  BY <1>1, <1>2, <1>3, ForgottenFields, RetriedFields DEF Undone, Halted
<1>5. /\ open' = open \ {object[s].link}
      /\ \A x \in Own(id) \ {s} : object'[x] = object[x]
      /\ object'[s].link = None /\ object'[s].input = after.input
      /\ object'[s].timer = after.timer /\ object'[s].retry = after.retry
  BY <1>1, <1>4, DisconnectFields
<1>6. Linked(id)'
  BY <1>5, LinkedLost DEF Stepping, Works
<1>7. /\ Changing(id) = "put" => simulations[id] # s \/ job[id].old = None
      /\ Changing(id) # "put" => simulations[id] = s
      /\ Changing(id) = "retry" => Enabled(s)
      /\ Changing(id) = "switchOn" => ~Enabled(s)
      /\ Changing(id) = "put" /\ job[id].old = None => simulations[id] = s
  BY <1>1, <1>2, StartingKinds DEF RunningShape, PutShape
<1>8. simulations'[id] = IF Changing(id) = "put" /\ job[id].old = None THEN None ELSE simulations[id]
  BY <1>1 DEF Undone, TypeOK
<1>9. Clean(s)' \/ (Changing(id) = "retry" /\ Enabled(s)')
  BY <1>1, <1>4, <1>5, <1>7 DEF Clean, Halted, Enabled
<1>10. ASSUME NEW x \in Own(id) \ {s} PROVE Clean(x)' \/ (x = simulations'[id] /\ Enabled(x)')
  <2>1. Clean(x) \/ (x = simulations[id] /\ Enabled(x))
    BY <1>1, <1>2 DEF Stepping, Works, Holding, InUse
  <2> QED
    BY <1>5, <1>7, <1>8, <2>1 DEF Clean, Halted, Enabled
<1>11. \A x \in Own(id) : Clean(x)' \/ (x = simulations'[id] /\ Enabled(x)')
  BY <1>7, <1>8, <1>9, <1>10
<1>12. ASSUME NEW x \in Own(id) \ {s}, x = simulations'[id], Enabled(x)'
       PROVE  Running(x)' \/ object'[x].retry \/ RetryQueued(x)'
  <2>1. x # None /\ x = simulations[id] /\ Enabled(x) /\ Changing(id) = "put"
    BY <1>5, <1>7, <1>8, <1>12 DEF Stepping, Enabled
  <2>2. Running(x) \/ object[x].retry \/ RetryQueued(x)
    BY <1>1, <1>2, <2>1 DEF Stepping, Works, ActiveRuns, RunsOrWill
  <2>3. Running(x) => Running(x)'
    BY <1>5, GoesOn DEF Stepping, Works
  <2>4. RetryQueued(x) => RetryQueued(x)'
    BY <1>1, <2>1, OnlyRetriesName, StillQueued
  <2> QED
    BY <1>5, <2>2, <2>3, <2>4
<1>13. s = simulations'[id] /\ Enabled(s)' => object'[s].retry
  BY <1>1, <1>3, <1>4, <1>5, <1>7, <1>8 DEF Enabled
<1>14. simulations'[id] \in Maybe(Own(id))
  BY DEF Stepping, Shape
<1> QED
  BY <1>1, <1>6, <1>11, <1>12, <1>13, <1>14, SettledWorks

LEMMA ReleasedWorks ==
    ASSUME NEW id \in Id, Stepping(id), Released(id)
    PROVE  Works(id)'
<1>1. /\ job[id].stage = "releasing" /\ TypeOK /\ Own(id) \subseteq Sim /\ Settle(id)
      /\ RunningShape(id) /\ pending[id] # <<>> /\ Changing(id) \in {"put", "remove", "switchOff"}
  BY DEF Released, At, Stepping, Shape, RunningShape
<1>2. PICK s \in Own(id) : s = job[id].sim
  BY <1>1, RunningFacts DEF Stepping
<1>3. simulations[id] = s /\ s # None
  BY <1>1, <1>2 DEF RunningShape, PutShape, StopShape, Stepping
<1>4. /\ Changing(id) = "put" => job[id].old \in Own(id) \ {s}
      /\ Changing(id) = "switchOff" => ~Enabled(s)
      /\ simulations'[id] = IF Changing(id) = "remove" THEN None ELSE s
  BY <1>1, <1>2, <1>3, RunningFacts DEF RunningShape, PutShape, StopShape, Released, TypeOK, Stepping, Enabled
<1>5. PICK t \in Own(id) : t = Target(id)
  BY <1>1, <1>2, <1>4 DEF Target
<1>6. object[t] \in Object /\ Halted(t)
  BY <1>1, <1>5 DEF Stepping, TypeOK, Works, Holding
<1>7. PICK after \in Object :
        /\ Disconnect(t, after) /\ ~after.timer /\ ~after.retry
        /\ Changing(id) = "switchOff" => after.input = object[t].input
  BY <1>1, <1>5, <1>6, ForgottenFields DEF Released, Halted, Target
<1>8. /\ open' = open \ {object[t].link}
      /\ \A x \in Own(id) \ {t} : object'[x] = object[x]
      /\ object'[t].link = None /\ object'[t].input = after.input
      /\ ~object'[t].timer /\ ~object'[t].retry
  BY <1>1, <1>7, DisconnectFields
<1>9. Linked(id)'
  BY <1>8, LinkedLost DEF Stepping, Works
<1>10. Clean(t)'
  BY <1>8 DEF Clean, Halted
<1>11. ASSUME NEW x \in Own(id) \ {t} PROVE Clean(x)' \/ (x = simulations'[id] /\ Enabled(x)')
  <2>1. CASE Changing(id) = "put"
    BY <1>1, <1>2, <1>3, <1>4, <1>5, <1>8, <1>11, <2>1
       DEF Stepping, Works, Holding, InUse, MayHold, Target, Clean, Halted, Enabled
  <2>2. CASE Changing(id) # "put"
    <3>1. t = s
      BY <1>2, <1>5, <2>2 DEF Target
    <3>2. Clean(x)
      BY <1>1, <1>2, <1>3, <2>2, <3>1 DEF Stepping, Works, Holding, InUse
    <3> QED
      BY <1>8, <3>2 DEF Clean, Halted
  <2> QED
    BY <2>1, <2>2
<1>12. ASSUME NEW x \in Own(id), x = simulations'[id], Enabled(x)'
       PROVE  Running(x)' \/ object'[x].retry \/ RetryQueued(x)'
  <2>1. x = s /\ Changing(id) # "remove"
    BY <1>4, <1>12 DEF Stepping
  <2>2. Changing(id) = "put" /\ t # s
    <3>1. CASE Changing(id) = "switchOff"
      <4>1. t = s /\ Enabled(s)' = Enabled(s)
        BY <1>2, <1>5, <1>7, <1>8, <3>1 DEF Target, Enabled
      <4> QED
        BY <1>4, <1>12, <2>1, <3>1, <4>1 DEF Enabled
    <3> QED
      BY <1>1, <1>4, <1>5, <2>1, <3>1 DEF Target
  <2>3. Enabled(s) /\ object'[s] = object[s]
    BY <1>8, <1>12, <2>1, <2>2 DEF Enabled
  <2>4. Running(s) \/ object[s].retry \/ RetryQueued(s)
    BY <1>1, <1>2, <1>3, <2>2, <2>3 DEF Stepping, Works, ActiveRuns, RunsOrWill
  <2>5. Running(s) => Running(s)'
    BY <1>8, <2>2, <2>3, GoesOn DEF Stepping, Works
  <2>6. RetryQueued(s) => RetryQueued(s)'
    BY <1>1, <1>3, <2>2, OnlyRetriesName, StillQueued
  <2> QED
    BY <2>1, <2>3, <2>4, <2>5, <2>6
<1>13. simulations'[id] \in Maybe(Own(id))
  BY DEF Stepping, Shape
<1> QED
  BY <1>1, <1>9, <1>10, <1>11, <1>12, <1>13, SettledWorks

-----------------------------------------------------------------------------
(* Every step preserves the invariant                                      *)

LEMMA OwnWorks ==
    ASSUME NEW id \in Id, Stepping(id), Steps(id)
    PROVE  Works(id)'
  BY MootWorks, BeginWorks, BeginPutWorks, ConnectedWorks, PreparedWorks, StartFailedWorks,
     CommitWorks, SaveFailedWorks, PutSavedWorks, SwitchOnSavedWorks, StopSavedWorks,
     UndoneWorks, ReleasedWorks DEF Steps

\* A change of id touches no object and no connection of another id.
LEMMA OthersKeep ==
    ASSUME NEW id \in Id, Stepping(id), Steps(id), NEW i \in Id \ {id}
    PROVE  /\ \A s \in Own(i) : object'[s] = object[s]
           /\ Own(i) \cap open \subseteq open'
<1>1. /\ TypeOK /\ Own(id) \subseteq Sim /\ Own(i) \subseteq Sim /\ Own(i) \cap Own(id) = {}
      /\ None \notin Own(i)
  BY OwnFacts DEF Stepping, Own, Sim
<1>2. CASE BeginPut(id)
  <2>1. NewSim(id) \in Own(id)
    BY <1>2 DEF BeginPut, NewSim, FreeSims
  <2> QED
    BY <1>1, <1>2, <2>1 DEF BeginPut, TypeOK
<1>3. CASE BeginStop(id) \/ BeginStart(id) \/ Moot(id) \/ Commit(id)
  BY <1>1, <1>3 DEF BeginStop, BeginStart, Moot, Commit
<1>4. CASE job[id].stage # "idle" /\ ~Commit(id)
  <2>1. job[id].sim \in Own(id) /\ (job[id].old # None => job[id].old \in Own(id))
    BY <1>4, RunningFacts DEF Stepping
  <2>2. ASSUME NEW t \in Own(id), StopTimers(t)
        PROVE  (\A s \in Own(i) : object'[s] = object[s]) /\ open' = open
    BY <1>1, <2>2 DEF StopTimers, TypeOK
  <2>3. ASSUME NEW t \in Own(id), NEW after, Disconnect(t, after)
        PROVE  (\A s \in Own(i) : object'[s] = object[s]) /\ Own(i) \cap open \subseteq open'
    <3>1. object[t].link \notin Own(i)
      BY <1>1, <2>3 DEF Stepping, Works, Linked
    <3> QED
      BY <1>1, <2>3, <3>1 DEF Disconnect, TypeOK
  <2>4. CASE Connected(id) \/ Prepared(id)
    <3>1. /\ \A x \in Sim \ {job[id].sim} : object'[x] = object[x]
          /\ open \subseteq open'
      BY <1>1, <2>1, <2>4, ConnectedFields, PreparedFields
    <3> QED
      BY <1>1, <2>1, <3>1
  <2>5. CASE StartFailed(id) \/ SaveFailed(id) \/ PutSaved(id)
    BY <1>1, <2>1, <2>2, <2>5 DEF StartFailed, SaveFailed, PutSaved
  <2>6. CASE SwitchOnSaved(id) \/ StopSaved(id)
    BY <1>1, <2>1, <2>2, <2>6 DEF SwitchOnSaved, StopSaved, TypeOK
  <2>7. CASE Undone(id)
    BY <2>1, <2>3, <2>7 DEF Undone
  <2>8. CASE Released(id)
    <3>1. Changing(id) = "put" => job[id].old # None
      BY <2>8 DEF Released, At, Stepping, Shape, RunningShape, PutShape
    <3> QED
      BY <2>1, <2>3, <2>8, <3>1 DEF Released
  <2> QED
    BY <1>4, <2>4, <2>5, <2>6, <2>7, <2>8 DEF Steps, BeginPut, BeginStop, BeginStart, Moot, MayBegin
<1> QED
  BY <1>2, <1>3, <1>4 DEF Steps, Connected, Prepared, StartFailed, SaveFailed, PutSaved,
     SwitchOnSaved, StopSaved, Undone, Released, At

LEMMA StepsWork ==
    ASSUME IInv, WorkInv, phase \in {"ready", "stopping"}, NEW id \in Id, Steps(id)
    PROVE  WorkInv'
<1>1. Stepping(id)
  BY SteppingFacts
<1>2. Works(id)'
  BY <1>1, OwnWorks
<1>3. ASSUME NEW i \in Id \ {id} PROVE Works(i)'
  <2>1. /\ simulations'[i] = simulations[i] /\ job'[i] = job[i] /\ pending'[i] = pending[i]
        /\ TypeOK /\ Shape(i) /\ Works(i)
    BY StepFrame DEF IInv, WorkInv
  <2>2. \A s \in Own(i) : RetryQueued(s) => RetryQueued(s)'
    BY <2>1, OwnFacts DEF RetryQueued
  <2>3. (\A s \in Own(i) : object'[s] = object[s]) /\ Own(i) \cap open \subseteq open'
    BY <1>1, OthersKeep
  <2> QED
    BY <2>1, <2>2, <2>3, WorksStable
<1> QED
  BY <1>2, <1>3 DEF WorkInv

LEMMA CallWorks ==
    ASSUME IInv, WorkInv, NEW id \in Id, NEW change \in Calls, Call(id, change)
    PROVE  WorkInv'
<1> SUFFICES ASSUME phase' \in {"ready", "stopping"}, NEW i \in Id PROVE Works(i)'
  BY DEF WorkInv
<1>1. TypeOK /\ Shape(i) /\ Works(i) /\ change \in Change
  BY DEF IInv, WorkInv, Call, Alive, Change
<1>2. pending' = [pending EXCEPT ![id] = Append(@, change)]
  BY DEF Call
<1> QED
  BY <1>1, <1>2, JoinQueue, WorksStable DEF Call

\* A retry timer fires: the start it puts off is now in the queue.
LEMMA RetryFiresWorks ==
    ASSUME IInv, WorkInv, NEW s \in Sim, RetryFires(s)
    PROVE  WorkInv'
<1> SUFFICES ASSUME phase' \in {"ready", "stopping"}, NEW id \in Id PROVE Works(id)'
  BY DEF WorkInv
<1>1. /\ TypeOK /\ Shape(id) /\ Works(id) /\ RetryOf(s) \in Change /\ s[1] \in Id /\ s \in Own(s[1])
      /\ Own(id) \subseteq Sim
  BY DEF IInv, WorkInv, RetryFires, Alive, Change, Sim, Own
<1>2. pending' = [pending EXCEPT ![s[1]] = Append(@, RetryOf(s))]
  BY DEF RetryFires
<1>3. /\ pending[id] # <<>> => pending'[id] # <<>> /\ Head(pending'[id]) = Head(pending[id])
      /\ \A x \in Own(id) : RetryQueued(x) => RetryQueued(x)'
      /\ \A x \in Own(s[1]) : RetryOf(s).sim = x => RetryQueued(x)'
  BY <1>1, <1>2, JoinQueue
<1>4. RetryQueued(s)'
  BY <1>1, <1>3 DEF RetryOf, NoChange
<1>5. CASE s \notin Own(id)
  <2>1. \A x \in Own(id) : object'[x] = object[x]
    BY <1>1, <1>5 DEF RetryFires, TypeOK
  <2> QED
    BY <1>1, <1>3, <2>1, WorksStable DEF RetryFires
<1>6. CASE s \in Own(id)
  <2>1. /\ \A x \in Own(id) \ {s} : object'[x] = object[x]
        /\ object'[s].link = object[s].link /\ object'[s].timer = object[s].timer
        /\ object'[s].input = object[s].input /\ ~object'[s].retry
        /\ open' = open /\ job' = job /\ simulations' = simulations
    <3>1. object[s] \in Object /\ object' = [object EXCEPT ![s] = [object[s] EXCEPT !.retry = FALSE]]
      BY <1>1 DEF RetryFires, TypeOK
    <3> QED
      BY <1>1, <3>1 DEF RetryFires, TypeOK, Object
  <2>2. \A x \in Own(id) : /\ Clean(x) => Clean(x)'
                           /\ Halted(x) => Halted(x)'
                           /\ Enabled(x)' <=> Enabled(x)
                           /\ Running(x)' <=> Running(x)
    BY <2>1 DEF Clean, Halted, Enabled, Running
  <2>3. simulations[id] \in Maybe(Own(id)) /\ \A x \in Own(id) : x # None
    BY <1>1, OwnFacts DEF Shape
  <2>4. Linked(id)'
    BY <1>1, <2>1, LinkedKept DEF Works
  <2>5. CASE job[id].stage = "idle"
    <3>1. job[id].sim = None /\ job[id].old = None
      BY <1>1, <2>5 DEF Shape, Idle
    <3>2. Holding(id)'
      BY <1>1, <2>1, <2>2, <2>3, <2>5, <3>1 DEF Works, Holding, InUse
    <3>3. SavedRuns(id)'
      BY <2>1, <2>5 DEF SavedRuns
    <3>4. ActiveRuns(id)'
      BY <1>1, <1>3, <1>4, <2>1, <2>2, <2>3, <2>5, <3>1 DEF Works, ActiveRuns, RunsOrWill, Maybe, Enabled, Running
    <3> QED
      BY <2>4, <3>2, <3>3, <3>4 DEF Works
  <2>6. CASE job[id].stage # "idle"
    <3>1. /\ Changing(id)' = Changing(id) /\ Head(pending'[id]) = Head(pending[id])
          /\ job[id].sim \in Own(id)
          /\ job[id].old # None => job[id].old \in Own(id)
          /\ job[id].stage = "releasing" /\ Changing(id) = "put" => job[id].old # None
      BY <1>1, <1>3, <2>6, RunningFacts DEF Shape, RunningShape, PutShape, Changing
    <3>2. Holding(id)'
      <4>1. \A x \in Own(id) : InUse(id, x) => InUse(id, x)'
        BY <2>1, <2>2, <2>3, <3>1 DEF InUse, MayHold, Enabled
      <4>2. job[id].stage \in {"undoing", "releasing"} => Halted(Target(id))'
        BY <1>1, <2>1, <2>2, <3>1 DEF Works, Holding, Target, Halted
      <4> QED
        BY <1>1, <2>1, <2>2, <3>1, <4>1, <4>2 DEF Works, Holding, Enabled
    <3>3. SavedRuns(id)'
      BY <1>1, <2>1, <2>2, <3>1 DEF Works, SavedRuns, Enabled, Running
    <3>4. ActiveRuns(id)'
      BY <1>1, <1>3, <1>4, <2>1, <2>2, <2>3, <3>1 DEF Works, ActiveRuns, RunsOrWill, Maybe, Enabled, Running
    <3> QED
      BY <2>4, <3>2, <3>3, <3>4 DEF Works
  <2> QED
    BY <2>5, <2>6
<1> QED
  BY <1>5, <1>6

\* resume(): nothing holds anything yet, and what is enabled has its start queued.
LEMMA ResumeWorks ==
    ASSUME IInv, Resume
    PROVE  WorkInv'
<1> SUFFICES ASSUME NEW id \in Id PROVE Works(id)'
  BY DEF WorkInv
<1> DEFINE resumed == [i \in Id |-> IF Readable(store[i]) THEN NewSim(i) ELSE None]
<1>1. /\ Shape(id)' /\ Own(id) \subseteq Sim /\ \A s \in Own(id) : s # None /\ s[1] = id
      /\ job'[id] = Idle
  <2>1. IInv'
    BY ResumeStep
  <2> QED
    BY <2>1, OwnFacts DEF IInv, Vacant, Resume, Alive
<1>2. /\ job'[id].stage = "idle" /\ job'[id].sim = None /\ job'[id].old = None
      /\ simulations'[id] \in Maybe(Own(id))
  BY <1>1 DEF Idle, Shape
<1>3. \A s \in Sim : /\ object'[s].link = None /\ ~object'[s].timer /\ ~object'[s].retry
                     /\ s = resumed[s[1]] => object'[s].input = store[s[1]]
  <2>1. object' = [s \in Sim |-> IF s = resumed[s[1]] THEN [Blank EXCEPT !.input = store[s[1]]] ELSE Blank]
    BY DEF Resume
  <2> HIDE DEF resumed
  <2> QED
    BY <2>1 DEF Blank
<1>4. Holding(id)' /\ Linked(id)' /\ SavedRuns(id)'
  BY <1>1, <1>2, <1>3 DEF Holding, Linked, SavedRuns, Clean, Halted
<1>5. ActiveRuns(id)'
  <2>1. CASE simulations'[id] = None
    BY <1>2, <2>1 DEF ActiveRuns
  <2>2. ASSUME NEW s \in Own(id), s = simulations'[id] PROVE Enabled(s)' => RetryQueued(s)'
    <3>1. Readable(store[id]) /\ s = resumed[id] /\ s[1] = id /\ s \in Sim
      BY <1>1, <2>2 DEF Resume
    <3>2. Enabled(s)' => store[id].enabled
      BY <1>3, <3>1 DEF Enabled
    <3>3. store[id].enabled => pending'[id] = <<RetryOf(s)>>
      BY <3>1 DEF Resume
    <3>4. RetryOf(s).sim = s
      BY DEF RetryOf, NoChange
    <3>5. pending'[id] = <<RetryOf(s)>> => 1 \in DOMAIN pending'[id] /\ pending'[id][1] = RetryOf(s)
      OBVIOUS
    <3> QED
      BY <3>1, <3>2, <3>3, <3>4, <3>5 DEF RetryQueued
  <2> QED
    BY <1>2, <2>1, <2>2 DEF ActiveRuns, RunsOrWill, Maybe, Enabled, RetryQueued
<1> QED
  BY <1>4, <1>5 DEF Works

LEMMA NextWorks == IInv /\ WorkInv /\ [Next]_vars => WorkInv'
<1> SUFFICES ASSUME IInv, WorkInv, [Next]_vars PROVE WorkInv'
  OBVIOUS
<1>1. ASSUME NEW id \in Id, Steps(id) PROVE WorkInv'
  <2>1. phase' = phase
    BY <1>1, StepFrame
  <2> QED
    BY <1>1, <2>1, StepsWork DEF WorkInv
<1>2. CASE Shutdown \/ UNCHANGED vars
  <2> SUFFICES ASSUME phase' \in {"ready", "stopping"}, NEW id \in Id PROVE Works(id)'
    BY DEF WorkInv
  <2>1. /\ phase \in {"ready", "stopping"} /\ TypeOK /\ Shape(id) /\ Works(id)
        /\ simulations' = simulations /\ job' = job /\ pending' = pending /\ object' = object /\ open' = open
    BY <1>2 DEF Shutdown, vars, queueVars, IInv, WorkInv, Alive
  <2>2. \A s \in Own(id) : RetryQueued(s) => RetryQueued(s)'
    BY <2>1 DEF RetryQueued
  <2> QED
    BY <2>1, <2>2, WorksStable
<1>3. CASE ShutsDown \/ Restart
  BY <1>3 DEF ShutsDown, ShutdownTeardown, ShutdownCloses, ShutdownDone, Restart, WorkInv
<1> QED
  BY <1>1, <1>2, <1>3, CallWorks, RetryFiresWorks, ResumeWorks DEF Next

LEMMA WorkInductive == Spec => []WorkInv
<1>1. Init => WorkInv
  BY DEF Init, WorkInv
<1> QED
  BY <1>1, NextWorks, Inductive, PTL DEF Spec

-----------------------------------------------------------------------------
(* Theorems                                                                *)

\* What is paused, replaced or deleted remembers no connection and no timer and will
\* not start by itself: a stop that fails half-way, a retry that was queued before
\* the switch and a replacement that loses its race leave nothing in its fields.
\* What a second start has overwritten there is not seen: PausedHoldsNothing.
THEOREM PausedIsReleased == Spec => []PausedMeansReleased
<1>1. IInv /\ WorkInv => PausedMeansReleased
  <2> SUFFICES ASSUME IInv, WorkInv, phase \in {"ready", "stopping"}, NEW s \in Sim, OutOfUse(s)
               PROVE  object[s].link = None /\ ~object[s].timer /\ ~object[s].retry
    BY DEF PausedMeansReleased
  <2>1. s[1] \in Id /\ s \in Own(s[1])
    BY DEF Sim, Own
  <2>2. Holding(s[1])
    BY <2>1 DEF WorkInv, Works
  <2>3. ~InUse(s[1], s)
    BY DEF OutOfUse, InUse, Enabled
  <2> QED
    BY <2>1, <2>2, <2>3 DEF Holding, Clean, Halted
<1> QED
  BY <1>1, Inductive, WorkInductive, PTL

\* What is registered as enabled runs, is about to, or is being deleted: however
\* calls, failures, retries and replacements interleave, no simulation is marked
\* active with nothing running behind it.
THEOREM ActiveIsRunning == Spec => []ActiveMeansRunning
<1>1. WorkInv => ActiveMeansRunning
  BY DEF WorkInv, Works, ActiveRuns, RunsOrWill, ActiveMeansRunning, Enabled, Running, RetryQueued
<1> QED
  BY <1>1, WorkInductive, PTL

\* A configuration that is stored as enabled was running when it was stored, so
\* that a version that cannot start is never kept.
THEOREM StoredIsRunning == Spec => StoredOnlyOnceRunning
<1> DEFINE A == \A id \in Id :
                  phase \in {"ready", "stopping"} /\ store'[id] \notin {store[id], None} =>
                      (store'[id].enabled => Running(job[id].sim))
<1>1. IInv /\ WorkInv /\ [Next]_vars => [A]_vars
  <2> SUFFICES ASSUME IInv, WorkInv, Next, NEW id \in Id, phase \in {"ready", "stopping"},
                      store'[id] \notin {store[id], None}, store'[id].enabled
               PROVE  Running(job[id].sim)
    OBVIOUS
  <2>1. Commit(id)
    <3>1. ASSUME NEW i \in Id \ {id}, Commit(i) PROVE store'[id] = store[id]
      BY <3>1 DEF Commit, IInv, TypeOK
    <3> QED
      BY <3>1 DEF Next, Call, Steps, BeginPut, BeginStop, BeginStart, Moot, Connected, Prepared,
         StartFailed, SaveFailed, PutSaved, SwitchOnSaved, StopSaved, Undone, Released, RetryFires,
         Resume, Shutdown, ShutsDown, ShutdownTeardown, ShutdownCloses, ShutdownDone, Restart
  <2>2. Stepping(id)
    BY <2>1, SteppingFacts DEF Steps
  <2>3. job[id].stage = "saving" /\ store'[id] = Written(id)
    BY <2>1, <2>2 DEF Commit, At, Stepping, TypeOK
  <2>4. PutShape(id) \/ Changing(id) # "put"
    BY <2>2, <2>3, SavingKinds DEF RunningShape
  <2>5. \/ Changing(id) = "switchOn"
        \/ Changing(id) = "put" /\ Enabled(job[id].sim)
    <3>1. CASE Changing(id) = "put"
      BY <2>3, <2>4, <3>1 DEF Written, PutShape, Enabled
    <3>2. Changing(id) # "remove"
      BY <2>3 DEF Written
    <3>3. CASE Changing(id) = "switchOff"
      <4>1. Written(id).enabled = FALSE
        <5>1. object[job[id].sim].input \in Input
          BY <2>2, <2>3, RunningFacts DEF Stepping
        <5> QED
          BY <3>3, <5>1 DEF Written, Input
      <4> QED
        BY <2>3, <4>1
    <3> QED
      BY <2>2, <2>3, <3>1, <3>2, <3>3, SavingKinds
  <2> QED
    BY <2>2, <2>3, <2>5 DEF Stepping, Works, SavedRuns
<1> QED
  BY <1>1, Inductive, WorkInductive, PTL DEF Spec, StoredOnlyOnceRunning

-----------------------------------------------------------------------------
(* Nothing is left behind: every connection and every interval is some     *)
(* simulation's, and shutdown() leaves neither, if the service starts with *)
(* nothing to retry.                                                       *)

\* The premise.  A start that is retried can be queued twice, and the second one
\* overwrites the connection of the first: NothingUntracked is false as soon as
\* resume() finds a simulation that is on.
NothingToRetry ==
    /\ ~MayRestart
    /\ \A rows \in FirstStores, id \in Id : Readable(rows[id]) => ~rows[id].enabled

-----------------------------------------------------------------------------
(* The inductive invariant                                                 *)

Counted(s) == object[s].ticking = IF object[s].timer THEN 1 ELSE 0

\* The connections of id that are open are those of its objects, an object ticks
\* as its timer field says, and a start finds nothing to overwrite.
Tracked(id) ==
    /\ \A s \in Own(id) : Counted(s) /\ ~object[s].retry
    /\ \A c \in Own(id) \cap open : \E s \in Own(id) : object[s].link = c
    /\ job[id].stage = "starting" => object[job[id].sim].link = None
    /\ job[id].stage \in {"starting", "preparing"} => ~object[job[id].sim].timer
    /\ \A i \in DOMAIN pending[id] : pending[id][i].kind # "retry"

TrackInv ==
    /\ phase = "loading" => open = {} /\ \A id \in Id : Readable(store[id]) => ~store[id].enabled
    /\ phase \in {"ready", "stopping"} => \A id \in Id : Tracked(id)

-----------------------------------------------------------------------------
(* Lemmas                                                                  *)

LEMMA StoppedCounted ==
    ASSUME NEW o \in Object, o.ticking = IF o.timer THEN 1 ELSE 0
    PROVE  Stopped(o).ticking = 0
<1> DEFINE n == IF o.timer THEN o.ticking - 1 ELSE o.ticking
<1>1. Stopped(o) = [o EXCEPT !.timer = FALSE, !.retry = FALSE, !.ticking = n]
  BY DEF Stopped
<1>2. n = 0
  OBVIOUS
<1> HIDE DEF n
<1> QED
  BY <1>1, <1>2 DEF Object

LEMMA ArmedCounted ==
    ASSUME NEW o \in Object, o.ticking = 0
    PROVE  Armed(o).ticking = 1
<1> DEFINE n == o.ticking + 1
<1>1. Armed(o) = [o EXCEPT !.timer = TRUE, !.ticking = n]
  BY DEF Armed
<1>2. n = 1
  OBVIOUS
<1> HIDE DEF n
<1> QED
  BY <1>1, <1>2 DEF Object

\* What a step may do to the object it works on, as far as it counts here.
LEMMA StopTimersCounted ==
    ASSUME TypeOK, NEW s \in Sim, Counted(s), StopTimers(s)
    PROVE  Counted(s)' /\ ~object'[s].retry
<1>1. object[s] \in Object /\ object'[s] = Stopped(object[s])
  BY DEF TypeOK, StopTimers
<1>2. Stopped(object[s]).ticking = 0 /\ ~Stopped(object[s]).timer /\ ~Stopped(object[s]).retry
  BY <1>1, StoppedCounted, StoppedFields DEF Counted
<1> QED
  BY <1>1, <1>2 DEF Counted

LEMMA DisconnectCounted ==
    ASSUME TypeOK, NEW s \in Sim, Counted(s), NEW after \in Object, Disconnect(s, after),
           after.timer = object[s].timer, after.ticking = object[s].ticking, ~after.retry
    PROVE  Counted(s)' /\ ~object'[s].retry
<1>1. object'[s] = [after EXCEPT !.link = None]
  BY DEF TypeOK, Disconnect
<1>2. object'[s].timer = after.timer /\ object'[s].ticking = after.ticking /\ object'[s].retry = after.retry
  BY <1>1 DEF Object
<1> QED
  BY <1>2 DEF Counted

LEMMA ConnectedCounted ==
    ASSUME TypeOK, NEW id \in Id, job[id].sim \in Sim, Connected(id),
           Counted(job[id].sim), ~object[job[id].sim].timer
    PROVE  object'[job[id].sim].ticking = IF object'[job[id].sim].timer THEN 1 ELSE 0
<1> DEFINE s == job[id].sim
           linked == [object[s] EXCEPT !.link = NewConn(id)]
<1>1. object[s] \in Object /\ object \in [Sim -> Object] /\ object[s].ticking = 0 /\ ~object[s].timer
  BY DEF TypeOK, Counted
<1>2. NewConn(id) \in Maybe(Conn)
  BY DEF Connected, NewConn, FreeConns, Own, Conn, Maybe
<1>3. linked \in Object /\ linked.ticking = 0 /\ ~linked.timer
  BY <1>1, <1>2 DEF Object
<1>4. Armed(linked).ticking = 1 /\ Armed(linked).timer
  BY <1>3, ArmedCounted, ArmedFields
<1>5. object'[s] = linked \/ object'[s] = Armed(linked)
  BY <1>1 DEF Connected
<1> HIDE DEF linked, s
<1> QED
  BY <1>3, <1>4, <1>5 DEF s

LEMMA PreparedCounted ==
    ASSUME TypeOK, NEW id \in Id, job[id].sim \in Sim, Prepared(id),
           Counted(job[id].sim), ~object[job[id].sim].timer
    PROVE  object'[job[id].sim].ticking = IF object'[job[id].sim].timer THEN 1 ELSE 0
<1> DEFINE s == job[id].sim
<1>1. object[s] \in Object /\ object[s].ticking = 0 /\ ~object[s].timer
  BY DEF TypeOK, Counted
<1>2. Armed(object[s]).ticking = 1 /\ Armed(object[s]).timer
  BY <1>1, ArmedCounted, ArmedFields
<1>3. object'[s] = object[s] \/ object'[s] = Armed(object[s])
  BY DEF Prepared, TypeOK
<1> HIDE DEF s
<1> QED
  BY <1>1, <1>2, <1>3 DEF s

-----------------------------------------------------------------------------
(* Steps of a change                                                       *)

LEMMA NoRetryQueued ==
    ASSUME TypeOK, NEW id \in Id, pending[id] # <<>>,
           \A i \in DOMAIN pending[id] : pending[id][i].kind # "retry",
           pending'[id] \in {pending[id], Tail(pending[id])}
    PROVE  /\ \A i \in DOMAIN pending'[id] : pending'[id][i].kind # "retry"
           /\ Changing(id) # "retry"
<1> DEFINE q == pending[id]
<1>1. q \in Seq(Change) /\ q # <<>>
  BY DEF TypeOK
<1>2. Changing(id) # "retry"
  BY <1>1 DEF Changing
<1>3. CASE pending'[id] = q
  BY <1>2, <1>3
<1>4. CASE pending'[id] = Tail(q)
  <2> HIDE DEF q
  <2>1. DOMAIN Tail(q) = 1 .. Len(q) - 1 /\ \A k \in 1 .. Len(q) - 1 : Tail(q)[k] = q[k + 1]
    BY <1>1
  <2>2. \A k \in 1 .. Len(q) - 1 : k + 1 \in DOMAIN q
    BY <1>1
  <2>3. \A k \in DOMAIN Tail(q) : Tail(q)[k].kind # "retry"
    BY <2>1, <2>2 DEF q
  <2> QED
    BY <1>2, <1>4, <2>3
<1> QED
  BY <1>3, <1>4

\* What is left to show of a step that starts nothing.
LEMMA TrackedAfter ==
    ASSUME NEW id \in Id, Stepping(id), Tracked(id), pending[id] # <<>>,
           Settle(id) \/ pending' = pending,
           job'[id].stage \notin {"starting", "preparing"},
           \A s \in Own(id) : Counted(s)' /\ ~object'[s].retry,
           \A c \in Own(id) \cap open' : \E s \in Own(id) : object'[s].link = c
    PROVE  Tracked(id)'
<1>1. pending'[id] \in {pending[id], Tail(pending[id])}
  BY DEF Settle, Stepping, TypeOK
<1>2. \A i \in DOMAIN pending'[id] : pending'[id][i].kind # "retry"
  BY <1>1, NoRetryQueued DEF Tracked, Stepping
<1> QED
  BY <1>2 DEF Tracked

LEMMA SettledStage ==
    ASSUME TypeOK, NEW id \in Id, Settle(id)
    PROVE  job'[id].stage = "idle" /\ job'[id].sim = None /\ job'[id].old = None
  BY DEF TypeOK, Settle, Idle

\* A step that changes no connection and no timer.
LEMMA QuietTracked ==
    ASSUME NEW id \in Id, Stepping(id), Tracked(id),
           \/ BeginStop(id) \/ Moot(id) \/ Commit(id) \/ SwitchOnSaved(id)
           \/ SaveFailed(id) /\ Settle(id) /\ UNCHANGED <<object, open>>
           \/ PutSaved(id) /\ Settle(id) /\ UNCHANGED <<object, open>>
    PROVE  Tracked(id)'
<1>1. TypeOK /\ Own(id) \subseteq Sim
  BY DEF Stepping
<1>2. pending[id] # <<>> /\ (Settle(id) \/ pending' = pending)
  BY RunningFacts, <1>1 DEF Stepping, BeginStop, Begin, Moot, MayBegin, Commit, Await, SwitchOnSaved, At, SaveFailed, PutSaved
<1>3. job'[id].stage \notin {"starting", "preparing"}
  <2>1. Settle(id) \/ Await(id, "committed") \/ Begin(id, simulations[id], None, "saving")
    BY DEF BeginStop, Moot, Commit, SwitchOnSaved
  <2>2. Settle(id) => job'[id].stage = "idle"
    BY <1>1, SettledStage
  <2>3. Await(id, "committed") => job'[id].stage = "committed"
    BY <1>1, AwaitJob DEF Stage
  <2>4. Begin(id, simulations[id], None, "saving") => job'[id].stage = "saving"
    BY <1>1 DEF Begin, TypeOK
  <2> QED
    BY <2>1, <2>2, <2>3, <2>4
<1>4. open' = open /\ \A s \in Own(id) : /\ object'[s].link = object[s].link
                                         /\ object'[s].timer = object[s].timer
                                         /\ object'[s].retry = object[s].retry
                                         /\ object'[s].ticking = object[s].ticking
  <2>1. CASE SwitchOnSaved(id)
    <3>1. PICK t \in Own(id) : t = job[id].sim
      BY <1>1, <2>1, RunningFacts DEF Stepping, SwitchOnSaved, At
    <3>2. object[t] \in Object /\ object' = [object EXCEPT ![t] = [object[t] EXCEPT !.input.enabled = TRUE]]
      BY <1>1, <2>1, <3>1 DEF TypeOK, SwitchOnSaved
    <3>3. object'[t] = [object[t] EXCEPT !.input.enabled = TRUE]
      BY <1>1, <3>2 DEF TypeOK
    <3> QED
      BY <1>1, <2>1, <3>2, <3>3 DEF TypeOK, Object, SwitchOnSaved
  <2>2. CASE ~SwitchOnSaved(id)
    BY <2>2 DEF BeginStop, Moot, Commit
  <2> QED
    BY <2>1, <2>2
<1>5. \A s \in Own(id) : Counted(s)' /\ ~object'[s].retry
  BY <1>4 DEF Tracked, Counted
<1>6. \A c \in Own(id) \cap open' : \E s \in Own(id) : object'[s].link = c
  BY <1>4 DEF Tracked
<1> QED
  BY <1>2, <1>3, <1>5, <1>6, TrackedAfter

LEMMA BeginStartTracked ==
    ASSUME NEW id \in Id, Stepping(id), Tracked(id), BeginStart(id)
    PROVE  Tracked(id)'
<1>1. /\ TypeOK /\ Own(id) \subseteq Sim /\ pending[id] # <<>> /\ job[id] = Idle
      /\ simulations[id] # None
  BY DEF Stepping, BeginStart, MayBegin, Shape
<1>2. Changing(id) # "retry"
  BY <1>1, NoRetryQueued DEF Tracked, Changing, TypeOK
<1>3. PICK s \in Own(id) : s = simulations[id]
  BY <1>1 DEF Stepping, Shape, Maybe
<1>4. Clean(s)
  <2>1. ~Enabled(s)
    BY <1>2, <1>3 DEF BeginStart, Enabled
  <2>2. s # None
    BY DEF Stepping
  <2> QED
    BY <1>1, <1>3, <2>1, <2>2 DEF Stepping, Works, Holding, InUse, Idle
<1>5. job'[id].stage = "starting" /\ job'[id].sim = s /\ pending' = pending /\ object' = object /\ open' = open
  BY <1>1, <1>3 DEF BeginStart, Begin, TypeOK
<1> QED
  BY <1>4, <1>5 DEF Tracked, Counted, Clean, Halted

LEMMA BeginPutTracked ==
    ASSUME NEW id \in Id, Stepping(id), Tracked(id), BeginPut(id)
    PROVE  Tracked(id)'
<1>1. TypeOK /\ Own(id) \subseteq Sim /\ open' = open /\ pending' = pending
  BY DEF Stepping, BeginPut, Begin
<1>2. PICK new \in Own(id) : new = NewSim(id) /\ object[new].link = None
  BY DEF BeginPut, NewSim, FreeSims
<1>3. /\ \A s \in Own(id) \ {new} : object'[s] = object[s]
      /\ object'[new].link = None /\ ~object'[new].timer /\ ~object'[new].retry
      /\ object'[new].ticking = 0
  <2>1. object' = [object EXCEPT ![new] = [Blank EXCEPT !.input = Head(pending[id]).input]]
    BY <1>2 DEF BeginPut
  <2>2. object'[new] = [Blank EXCEPT !.input = Head(pending[id]).input]
    BY <1>1, <2>1 DEF TypeOK
  <2> QED
    BY <1>1, <2>1, <2>2 DEF Blank, TypeOK
<1>4. job'[id].sim = new
  BY <1>1, <1>2 DEF TypeOK, BeginPut, Begin
<1>5. \A s \in Own(id) : Counted(s)' /\ ~object'[s].retry
  BY <1>3 DEF Tracked, Counted
<1>6. \A c \in Own(id) \cap open' : \E s \in Own(id) : object'[s].link = c
  <2>1. None \notin open
    BY DEF Stepping
  <2> QED
    BY <1>1, <1>2, <1>3, <2>1 DEF Tracked
<1> QED
  BY <1>1, <1>3, <1>4, <1>5, <1>6 DEF Tracked

LEMMA StartTracked ==
    ASSUME NEW id \in Id, Stepping(id), Tracked(id), Connected(id) \/ Prepared(id)
    PROVE  Tracked(id)'
<1>1. /\ job[id].stage \in {"starting", "preparing"} /\ TypeOK /\ Own(id) \subseteq Sim
      /\ Connected(id) => job[id].stage = "starting"
  BY DEF Connected, Prepared, At, Stepping
<1>2. PICK s \in Own(id) : s = job[id].sim
  BY <1>1, StartingKinds
<1>3. pending[id] # <<>> /\ Changing(id) # "retry"
  <2>1. pending[id] # <<>>
    BY <1>1, StartingKinds
  <2> QED
    BY <1>1, <2>1 DEF Tracked, Changing, TypeOK
<1>4. Counted(s) /\ ~object[s].timer /\ ~object[s].retry
  BY <1>1, <1>2 DEF Tracked
<1>5. object'[s].ticking = IF object'[s].timer THEN 1 ELSE 0
  BY <1>1, <1>2, <1>4, ConnectedCounted, PreparedCounted
<1>6. /\ \A x \in Own(id) \ {s} : object'[x] = object[x]
      /\ object'[s].retry = object[s].retry
      /\ \/ Await(id, "preparing") /\ object'[s].timer = object[s].timer
         \/ Started(id)
  BY <1>1, <1>2, ConnectedFields, PreparedFields
<1>7. /\ pending' = pending
      /\ \/ job'[id].stage = "saving"
         \/ job'[id].stage = "preparing" /\ job'[id].sim = s /\ ~object'[s].timer
  BY <1>1, <1>2, <1>3, <1>4, <1>6, AwaitJob, StartedJob DEF Stage
<1>8. \A x \in Own(id) : Counted(x)' /\ ~object'[x].retry
  BY <1>4, <1>5, <1>6 DEF Tracked, Counted
<1>9. \A c \in Own(id) \cap open' : \E x \in Own(id) : object'[x].link = c
  <2>1. CASE Connected(id)
    <3>1. object[s].link = None /\ None \notin open
      BY <1>1, <1>2, <2>1 DEF Tracked, Stepping
    <3>2. open' = open \cup {NewConn(id)} /\ object'[s].link = NewConn(id)
      BY <1>1, <1>2, <2>1, ConnectedFields
    <3> QED
      BY <1>6, <3>1, <3>2 DEF Tracked
  <2>2. CASE Prepared(id)
    <3>1. open' = open /\ object'[s].link = object[s].link
      BY <1>1, <1>2, <2>2, PreparedFields
    <3> QED
      BY <1>6, <3>1 DEF Tracked
  <2> QED
    BY <2>1, <2>2
<1> QED
  BY <1>7, <1>8, <1>9 DEF Tracked

\* A teardown begins: the timers of its object go.
LEMMA TeardownTracked ==
    ASSUME NEW id \in Id, Stepping(id), Tracked(id), job[id].stage # "idle", NEW t \in Own(id),
           NEW stage \in {"undoing", "releasing"}, Await(id, stage),
           \/ StopTimers(t)
           \/ /\ object' = [object EXCEPT ![t] = [Stopped(@) EXCEPT !.input.enabled = FALSE]]
              /\ object[t].input \in Input /\ open' = open
    PROVE  Tracked(id)'
<1>1. TypeOK /\ Own(id) \subseteq Sim /\ Counted(t)
  BY DEF Stepping, Tracked
<1>2. pending' = pending /\ job'[id].stage = stage /\ pending[id] # <<>>
  BY <1>1, AwaitJob, RunningFacts DEF Stage, Stepping
<1>3. /\ open' = open /\ object'[t].link = object[t].link
      /\ \A x \in Own(id) \ {t} : object'[x] = object[x]
      /\ Counted(t)' /\ ~object'[t].retry
  <2>1. CASE StopTimers(t)
    BY <1>1, <2>1, StopTimersFields, StopTimersCounted
  <2>2. CASE ~StopTimers(t)
    <3> DEFINE o == Stopped(object[t])
    <3>1. /\ object[t] \in Object /\ object[t].input \in Input
          /\ object' = [object EXCEPT ![t] = [o EXCEPT !.input.enabled = FALSE]]
      BY <1>1, <2>2 DEF TypeOK
    <3>2. /\ o \in Object /\ o.input \in Input /\ o.link = object[t].link
          /\ o.timer = FALSE /\ o.retry = FALSE /\ o.ticking = 0
      <4>1. o \in Object /\ o.input \in Input /\ o.link = object[t].link /\ ~o.timer /\ ~o.retry
        BY <1>1, <3>1, StoppedType, StoppedFields DEF Stepping, TimersCounted
      <4>2. o.ticking = 0
        BY <1>1, <3>1, StoppedCounted DEF Counted
      <4> HIDE DEF o
      <4> QED
        BY <4>1, <4>2 DEF Object
    <3> HIDE DEF o
    <3>3. object'[t] = [o EXCEPT !.input.enabled = FALSE]
      BY <1>1, <3>1 DEF TypeOK
    <3>4. /\ object'[t].link = o.link /\ object'[t].timer = FALSE /\ object'[t].retry = FALSE
          /\ object'[t].ticking = 0
      BY <3>2, <3>3 DEF Object
    <3> QED
      BY <1>1, <2>2, <3>1, <3>2, <3>4 DEF TypeOK, Counted
  <2> QED
    BY <2>1, <2>2
<1>4. \A x \in Own(id) : Counted(x)' /\ ~object'[x].retry
  BY <1>3 DEF Tracked, Counted
<1>5. \A c \in Own(id) \cap open' : \E x \in Own(id) : object'[x].link = c
  BY <1>3 DEF Tracked
<1> QED
  BY <1>2, <1>4, <1>5, TrackedAfter

\* A teardown is over: the connection of its object goes.
LEMMA ReleaseTracked ==
    ASSUME NEW id \in Id, Stepping(id), Tracked(id), Undone(id) \/ Released(id)
    PROVE  Tracked(id)'
<1>1. /\ TypeOK /\ Own(id) \subseteq Sim /\ Settle(id) /\ job[id].stage # "idle"
      /\ RunningShape(id) /\ pending[id] # <<>>
  BY DEF Stepping, Undone, Released, At, Shape, RunningShape
<1>2. Changing(id) # "retry"
  BY <1>1 DEF Tracked, Changing, TypeOK
<1>3. /\ job[id].sim \in Own(id)
      /\ Released(id) /\ Changing(id) = "put" => job[id].old \in Own(id)
  BY <1>1, RunningFacts DEF Stepping, Released, At, RunningShape, PutShape
<1>4. PICK t \in Own(id), after \in Object :
        /\ Disconnect(t, after) /\ ~after.retry
        /\ after.timer = object[t].timer /\ after.ticking = object[t].ticking
  <2>1. ASSUME NEW x \in Own(id), Disconnect(x, Forgotten(object[x])) \/ Disconnect(x, object[x])
        PROVE  \E after \in Object :
                 /\ Disconnect(x, after) /\ ~after.retry
                 /\ after.timer = object[x].timer /\ after.ticking = object[x].ticking
    <3>1. object[x] \in Object /\ ~object[x].retry
      BY <1>1 DEF TypeOK, Tracked
    <3>2. /\ Forgotten(object[x]) \in Object /\ ~Forgotten(object[x]).retry
          /\ Forgotten(object[x]).timer = object[x].timer
          /\ Forgotten(object[x]).ticking = object[x].ticking
      BY <3>1, ForgottenType, ForgottenFields
    <3> QED
      BY <2>1, <3>1, <3>2
  <2>2. \E x \in Own(id) : Disconnect(x, Forgotten(object[x])) \/ Disconnect(x, object[x])
    BY <1>2, <1>3 DEF Undone, Released
  <2> QED
    BY <2>1, <2>2
<1>5. /\ open' = open \ {object[t].link} /\ object'[t].link = None
      /\ \A x \in Own(id) \ {t} : object'[x] = object[x]
  BY <1>1, <1>4, DisconnectFields
<1>6. Counted(t)' /\ ~object'[t].retry
  BY <1>1, <1>4, DisconnectCounted DEF Tracked
<1>7. \A x \in Own(id) : Counted(x)' /\ ~object'[x].retry
  BY <1>5, <1>6 DEF Tracked, Counted
<1>8. \A c \in Own(id) \cap open' : \E x \in Own(id) : object'[x].link = c
  BY <1>5 DEF Tracked
<1>9. job'[id].stage = "idle"
  BY <1>1, SettledStage
<1> QED
  BY <1>1, <1>7, <1>8, <1>9, TrackedAfter

LEMMA OwnTracked ==
    ASSUME NEW id \in Id, Stepping(id), Tracked(id), Steps(id)
    PROVE  Tracked(id)'
<1>1. CASE StartFailed(id) \/ SaveFailed(id) \/ PutSaved(id) \/ StopSaved(id)
  <2>1. /\ TypeOK /\ job[id].stage # "idle" /\ job[id].sim \in Own(id)
        /\ job[id].old # None => job[id].old \in Own(id)
        /\ object[job[id].sim].input \in Input
    BY <1>1, RunningFacts DEF Stepping, StartFailed, SaveFailed, PutSaved, StopSaved, At
  <2>2. CASE StartFailed(id)
    BY <2>1, <2>2, TeardownTracked DEF StartFailed
  <2>3. CASE SaveFailed(id)
    BY <2>1, <2>3, TeardownTracked, QuietTracked DEF SaveFailed
  <2>4. CASE PutSaved(id)
    BY <2>1, <2>4, TeardownTracked, QuietTracked DEF PutSaved
  <2>5. CASE StopSaved(id)
    BY <2>1, <2>5, TeardownTracked DEF StopSaved
  <2> QED
    BY <1>1, <2>2, <2>3, <2>4, <2>5
<1> QED
  BY <1>1, QuietTracked, BeginStartTracked, BeginPutTracked, StartTracked, ReleaseTracked DEF Steps

-----------------------------------------------------------------------------
(* Every step keeps track                                                  *)

\* What a change of id opens is id's.
LEMMA OpensOwn ==
    ASSUME NEW id \in Id, Steps(id)
    PROVE  open' \subseteq open \cup Own(id)
<1>1. CASE Connected(id)
  <2>1. NewConn(id) \in Own(id)
    BY <1>1 DEF Connected, NewConn, FreeConns
  <2> QED
    BY <1>1, <2>1 DEF Connected
<1>2. CASE ~Connected(id)
  BY <1>2 DEF Steps, BeginPut, BeginStop, BeginStart, Moot, Prepared, StartFailed, Commit, SaveFailed,
     PutSaved, SwitchOnSaved, StopSaved, Undone, Released, StopTimers, Disconnect
<1> QED
  BY <1>1, <1>2

LEMMA StepsTracked ==
    ASSUME IInv, WorkInv, TrackInv, NEW id \in Id, Steps(id)
    PROVE  TrackInv'
<1>1. phase' = phase /\ phase # "loading" /\ TypeOK
  BY StepFrame DEF Alive
<1> SUFFICES ASSUME phase \in {"ready", "stopping"}, NEW i \in Id PROVE Tracked(i)'
  BY <1>1 DEF TrackInv
<1>2. Stepping(id)
  BY SteppingFacts
<1>3. CASE i = id
  BY <1>2, <1>3, OwnTracked DEF TrackInv
<1>4. CASE i # id
  <2>1. /\ job'[i] = job[i] /\ pending'[i] = pending[i] /\ Tracked(i) /\ Shape(i)
        /\ \A s \in Own(i) : object'[s] = object[s]
    BY <1>2, <1>4, StepFrame, OthersKeep DEF TrackInv, IInv
  <2>2. Own(i) \cap open' \subseteq open
    BY <1>4, OpensOwn DEF Own
  <2>3. job[i].stage \in {"starting", "preparing"} => job[i].sim \in Own(i)
    BY <1>1, <2>1, RunningFacts
  <2> QED
    BY <2>1, <2>2, <2>3 DEF Tracked, Counted
<1> QED
  BY <1>3, <1>4

LEMMA CallTracked ==
    ASSUME IInv, TrackInv, NEW id \in Id, NEW change \in Calls, Call(id, change)
    PROVE  TrackInv'
<1>1. phase' = phase /\ phase # "loading" /\ TypeOK
  BY DEF Call, IInv
<1> SUFFICES ASSUME phase \in {"ready", "stopping"}, NEW i \in Id PROVE Tracked(i)'
  BY <1>1 DEF TrackInv
<1>2. /\ pending' = [pending EXCEPT ![id] = Append(pending[id], change)]
      /\ job' = job /\ object' = object /\ open' = open /\ Tracked(i)
  BY DEF Call, TrackInv
<1>3. change \in Change /\ change.kind # "retry"
  BY DEF Change, Calls, PutOf, NoChange
<1>4. \A k \in DOMAIN pending'[i] : pending'[i][k].kind # "retry"
  <2>1. CASE i = id
    <3> DEFINE q == Append(pending[id], change)
    <3>1. pending[id] \in Seq(Change) /\ pending'[i] = q
      BY <1>1, <1>2, <2>1 DEF TypeOK
    <3>2. DOMAIN q = 1 .. Len(pending[id]) + 1 /\ q[Len(pending[id]) + 1] = change
          /\ \A k \in 1 .. Len(pending[id]) : q[k] = pending[id][k] /\ k \in DOMAIN pending[id]
      BY <3>1
    <3>3. \A k \in DOMAIN q : k = Len(pending[id]) + 1 \/ k \in 1 .. Len(pending[id])
      BY <3>1, <3>2
    <3> HIDE DEF q
    <3> QED
      BY <1>2, <1>3, <2>1, <3>1, <3>2, <3>3 DEF Tracked
  <2>2. CASE i # id
    BY <1>1, <1>2, <2>2 DEF TypeOK, Tracked
  <2> QED
    BY <2>1, <2>2
<1> QED
  BY <1>2, <1>4 DEF Tracked, Counted

\* resume() finds nothing that is on.
LEMMA ResumeTracked ==
    ASSUME IInv, TrackInv, Resume
    PROVE  TrackInv'
<1>1. phase' = "ready" /\ phase = "loading"
  BY DEF Resume
<1> SUFFICES ASSUME NEW id \in Id PROVE Tracked(id)'
  BY <1>1 DEF TrackInv
<1>2. /\ open' = {} /\ job'[id] = Idle /\ pending'[id] = <<>> /\ Own(id) \subseteq Sim
  BY <1>1, OwnFacts DEF Resume, TrackInv, IInv, Vacant
<1>3. \A s \in Sim : ~object'[s].timer /\ ~object'[s].retry /\ object'[s].ticking = 0
  BY DEF Resume, Blank
<1> QED
  BY <1>2, <1>3 DEF Tracked, Counted, Idle

LEMMA NextTracked ==
    ASSUME NothingToRetry
    PROVE  IInv /\ WorkInv /\ TrackInv /\ [Next]_vars => TrackInv'
<1> SUFFICES ASSUME IInv, WorkInv, TrackInv, [Next]_vars PROVE TrackInv'
  OBVIOUS
<1>1. CASE Shutdown \/ UNCHANGED vars
  BY <1>1 DEF Shutdown, vars, queueVars, TrackInv, Tracked, Counted
<1>2. CASE ShutsDown
  BY <1>2 DEF ShutsDown, ShutdownTeardown, ShutdownCloses, ShutdownDone, TrackInv
<1>3. ~Restart
  BY DEF NothingToRetry, Restart
<1>4. ASSUME NEW s \in Sim, RetryFires(s) PROVE TrackInv'
  <2>1. s[1] \in Id /\ s \in Own(s[1])
    BY DEF Sim, Own
  <2>2. phase' = phase /\ phase # "loading"
    BY <1>4 DEF RetryFires, Alive
  <2>3. phase \notin {"ready", "stopping"}
    BY <1>4, <2>1 DEF TrackInv, Tracked, RetryFires
  <2> QED
    BY <2>2, <2>3 DEF TrackInv
<1> QED
  BY <1>1, <1>2, <1>3, <1>4, StepsTracked, CallTracked, ResumeTracked DEF Next

LEMMA TrackInductive ==
    ASSUME NothingToRetry
    PROVE  Spec => []TrackInv
<1>1. Init => TrackInv
  BY DEF Init, TrackInv, NothingToRetry
<1>2. IInv /\ WorkInv /\ TrackInv /\ [Next]_vars => TrackInv'
  BY NextTracked
<1> QED
  BY <1>1, <1>2, Inductive, WorkInductive, PTL DEF Spec

\* No overlapping saves, switches or deletes leave an untracked publisher behind:
\* every open connection is the registered simulation's or is being worked on, and
\* no interval ticks that a timer field has forgotten.
THEOREM EverythingTracked ==
    ASSUME NothingToRetry
    PROVE  Spec => []NothingUntracked
<1>1. IInv /\ WorkInv /\ TrackInv => NothingUntracked
  <2> SUFFICES ASSUME IInv, WorkInv, TrackInv, phase \in {"ready", "stopping"}
               PROVE  /\ open = {object[s].link : s \in Sim} \ {None}
                      /\ \A s \in Sim :
                           /\ object[s].ticking = IF object[s].timer THEN 1 ELSE 0
                           /\ object[s].link # None =>
                                s \in {simulations[s[1]], job[s[1]].sim, job[s[1]].old}
    BY DEF NothingUntracked
  <2>1. \A s \in Sim : s[1] \in Id /\ s \in Own(s[1])
    BY DEF Sim, Own
  <2>2. \A id \in Id : Tracked(id) /\ Holding(id) /\ Linked(id) /\ Own(id) \subseteq Sim
    BY OwnFacts DEF TrackInv, WorkInv, Works
  <2>3. open \subseteq {object[s].link : s \in Sim}
    <3> SUFFICES ASSUME NEW c \in open PROVE \E s \in Sim : object[s].link = c
      OBVIOUS
    <3>1. c[1] \in Id /\ c \in Own(c[1])
      BY DEF IInv, TypeOK, Conn, Own
    <3> QED
      BY <2>2, <3>1 DEF Tracked
  <2>4. \A s \in Sim : object[s].link # None => object[s].link \in open
    BY <2>1, <2>2 DEF Linked
  <2>5. None \notin open
    BY NoLinkIsNone DEF IInv
  <2>6. \A s \in Sim : object[s].link # None => s \in {simulations[s[1]], job[s[1]].sim, job[s[1]].old}
    BY <2>1, <2>2 DEF Holding, Clean, InUse
  <2> QED
    BY <2>1, <2>2, <2>3, <2>4, <2>5, <2>6 DEF Tracked, Counted
<1>2. Spec => []TrackInv
  BY TrackInductive
<1> QED
  BY <1>1, <1>2, Inductive, WorkInductive, PTL

\* What is out of use does not tick, and every open connection belongs to something
\* in use, whatever the fields of the others remember.
NothingHeld ==
    phase \in {"ready", "stopping"} =>
        /\ \A s \in Sim : OutOfUse(s) => object[s].ticking = 0
        /\ \A c \in open : \E s \in Sim : object[s].link = c /\ ~OutOfUse(s)

\* Without starts that are retried, what is paused, replaced or deleted holds no
\* interval and no connection, forgotten ones included (switch off, put and remove
\* tear down the object they leave behind).
THEOREM PausedHoldsNothing ==
    ASSUME NothingToRetry
    PROVE  Spec => []NothingHeld
<1>1. PausedMeansReleased /\ NothingUntracked => NothingHeld
  <2> SUFFICES ASSUME PausedMeansReleased, NothingUntracked, phase \in {"ready", "stopping"}
               PROVE  /\ \A s \in Sim : OutOfUse(s) => object[s].ticking = 0
                      /\ \A c \in open : \E s \in Sim : object[s].link = c /\ ~OutOfUse(s)
    BY DEF NothingHeld
  <2>1. \A s \in Sim : OutOfUse(s) => object[s].link = None /\ ~object[s].timer
    BY DEF PausedMeansReleased
  <2>2. ASSUME NEW s \in Sim, OutOfUse(s) PROVE object[s].ticking = 0
    BY <2>1, <2>2 DEF NothingUntracked
  <2>3. ASSUME NEW c \in open PROVE \E s \in Sim : object[s].link = c /\ ~OutOfUse(s)
    <3>1. c # None /\ \E s \in Sim : object[s].link = c
      BY <2>3 DEF NothingUntracked
    <3> QED
      BY <2>1, <3>1
  <2> QED
    BY <2>2, <2>3
<1> QED
  BY <1>1, PausedIsReleased, EverythingTracked, PTL

-----------------------------------------------------------------------------
(* The shutdown                                                            *)

\* shutdown() waits for what is in the queues, and nothing joins them any more.
AwaitsAll == phase = "stopping" => \A id \in Id : awaited[id] = Len(pending[id])

\* Then nothing is queued, nothing ticks, and what is open is being closed.
ClosesAll ==
    phase \in {"closing", "stopped"} =>
        /\ \A id \in Id : pending[id] = <<>> /\ job[id].stage = "idle"
        /\ \A s \in Sim : object[s].ticking = 0 /\ ~object[s].retry
        /\ \A c \in open : \E s \in Sim : <<s, c>> \in closing
        /\ phase = "stopped" => closing = {}

StopInv == AwaitsAll /\ ClosesAll

LEMMA StepsAwait ==
    ASSUME IInv, StopInv, NEW id \in Id, Steps(id)
    PROVE  StopInv'
<1>1. phase' = phase /\ TypeOK /\ Alive /\ Shape(id)
  BY StepFrame
<1>2. pending[id] # <<>>
  BY <1>1, RunningFacts DEF Steps, BeginPut, BeginStop, BeginStart, Moot, MayBegin, Connected, Prepared,
     StartFailed, Commit, SaveFailed, PutSaved, SwitchOnSaved, StopSaved, Undone, Released, At
<1>3. ClosesAll'
  <2>1. phase \notin {"closing", "stopped"}
    BY <1>1, <1>2 DEF StopInv, ClosesAll
  <2> QED
    BY <1>1, <2>1 DEF ClosesAll
<1>4. AwaitsAll'
  <2> SUFFICES ASSUME phase = "stopping", NEW i \in Id PROVE awaited'[i] = Len(pending'[i])
    BY <1>1 DEF AwaitsAll
  <2>1. awaited[i] = Len(pending[i]) /\ pending[i] \in Seq(Change) /\ awaited \in [Id -> Nat]
        /\ pending \in [Id -> Seq(Change)]
    BY <1>1 DEF StopInv, AwaitsAll, TypeOK
  <2>2. Settle(id) \/ UNCHANGED <<pending, awaited>>
    BY DEF Steps, BeginPut, BeginStop, BeginStart, Moot, Connected, Prepared, StartFailed, Started,
       Commit, SaveFailed, PutSaved, SwitchOnSaved, StopSaved, Undone, Released, Await, Begin
  <2>3. CASE Settle(id) /\ i = id
    <3>1. pending'[i] = Tail(pending[i]) /\ awaited'[i] = IF awaited[i] > 0 THEN awaited[i] - 1 ELSE 0
      BY <2>1, <2>3 DEF Settle
    <3>2. Len(Tail(pending[i])) = Len(pending[i]) - 1 /\ Len(pending[i]) \in Nat /\ Len(pending[i]) > 0
      BY <1>2, <2>1, <2>3
    <3> QED
      BY <2>1, <3>1, <3>2
  <2>4. CASE Settle(id) /\ i # id
    BY <2>1, <2>4 DEF Settle
  <2> QED
    BY <2>1, <2>2, <2>3, <2>4
<1> QED
  BY <1>3, <1>4 DEF StopInv

\* When everything awaited has settled, whatever holds something is registered.
LEMMA TeardownCloses ==
    ASSUME IInv, WorkInv, TrackInv, StopInv, ShutdownTeardown
    PROVE  ClosesAll'
<1>1. phase = "stopping" /\ phase' = "closing" /\ pending' = pending /\ job' = job /\ open' = open
  BY DEF ShutdownTeardown, queueVars
<1>2. TypeOK /\ TimersCounted /\ \A s \in Sim : s[1] \in Id /\ s \in Own(s[1]) /\ s # None
  BY NoneAssumption DEF IInv, Sim, Own
<1>3. ASSUME NEW id \in Id PROVE pending[id] = <<>> /\ job[id] = Idle
  <2>1. pending[id] \in Seq(Change) /\ Len(pending[id]) = 0
    BY <1>1, <1>2 DEF ShutdownTeardown, Drained, StopInv, AwaitsAll, TypeOK
  <2>2. pending[id] = <<>>
    BY <2>1
  <2> QED
    BY <1>1, <2>2 DEF IInv, Alive, Shape, RunningShape
<1>4. ASSUME NEW s \in Sim PROVE s = simulations[s[1]] \/ Clean(s)
  BY <1>1, <1>2, <1>3 DEF WorkInv, Works, Holding, InUse, Idle
<1> DEFINE all == {simulations[id] : id \in Registered}
<1>5. \A s \in Sim : s = simulations[s[1]] <=> s \in all
  <2>1. \A id \in Id : simulations[id] # None => simulations[id] \in Own(id) /\ simulations[id][1] = id
    BY <1>1, OwnFacts DEF IInv, Alive, Shape, Maybe
  <2> QED
    BY <1>2, <2>1 DEF Registered
<1>6. /\ object' = [s \in Sim |-> IF s \in all THEN Stopped(object[s]) ELSE object[s]]
      /\ closing' = {<<s, object[s].link>> : s \in all}
  BY DEF ShutdownTeardown
<1> HIDE DEF all
<1>7. ASSUME NEW s \in Sim PROVE object'[s].ticking = 0 /\ ~object'[s].retry
  <2>1. object[s] \in Object /\ Counted(s) /\ ~object[s].retry
    BY <1>1, <1>2 DEF TypeOK, TrackInv, Tracked
  <2>2. Stopped(object[s]).ticking = 0 /\ ~Stopped(object[s]).retry
    BY <2>1, StoppedCounted, StoppedFields DEF Counted
  <2>3. s \notin all => object[s].ticking = 0
    BY <1>4, <1>5, <2>1 DEF Clean, Halted, Counted
  <2> QED
    BY <1>6, <2>1, <2>2, <2>3
<1>8. ASSUME NEW c \in open PROVE \E s \in Sim : <<s, c>> \in closing'
  <2>1. c[1] \in Id /\ c \in Own(c[1]) /\ c # None /\ Own(c[1]) \subseteq Sim
    BY <1>2, NoneAssumption DEF TypeOK, Conn, Sim, Own
  <2>2. PICK s \in Own(c[1]) : object[s].link = c
    BY <1>1, <2>1 DEF TrackInv, Tracked
  <2>3. s \in Sim /\ s \in all
    BY <1>4, <1>5, <2>1, <2>2 DEF Clean
  <2> QED
    BY <1>6, <2>2, <2>3
<1> QED
  BY <1>1, <1>3, <1>7, <1>8 DEF ClosesAll, Idle

LEMMA NextStops ==
    ASSUME NothingToRetry, ~LateCalls
    PROVE  IInv /\ WorkInv /\ TrackInv /\ StopInv /\ [Next]_vars => StopInv'
<1> SUFFICES ASSUME IInv, WorkInv, TrackInv, StopInv, [Next]_vars PROVE StopInv'
  OBVIOUS
<1>1. TypeOK
  BY DEF IInv
<1>2. ASSUME NEW id \in Id, NEW change \in Calls, Call(id, change) PROVE StopInv'
  BY <1>2 DEF Call, StopInv, AwaitsAll, ClosesAll
<1>3. ASSUME NEW s \in Sim, RetryFires(s) PROVE StopInv'
  <2>1. s[1] \in Id /\ s \in Own(s[1])
    BY DEF Sim, Own
  <2> QED
    BY <1>3, <2>1 DEF RetryFires, Alive, TrackInv, Tracked, StopInv, ClosesAll
<1>4. CASE Resume
  BY <1>4 DEF Resume, StopInv, AwaitsAll, ClosesAll
<1>5. CASE Shutdown
  BY <1>5 DEF Shutdown, StopInv, AwaitsAll, ClosesAll
<1>6. CASE ShutdownTeardown
  <2>1. AwaitsAll'
    BY <1>6 DEF ShutdownTeardown, AwaitsAll
  <2> QED
    BY <1>6, <2>1, TeardownCloses DEF StopInv
<1>7. ASSUME NEW s \in Sim, NEW c \in Maybe(Conn), ShutdownCloses(s, c) PROVE StopInv'
  <2>1. /\ phase = "closing" /\ phase' = "closing" /\ pending' = pending /\ job' = job
        /\ open' = open \ {c} /\ closing' = closing \ {<<s, c>>}
    BY <1>7 DEF ShutdownCloses, queueVars
  <2>2. \A x \in Sim : object'[x].ticking = object[x].ticking /\ object'[x].retry = object[x].retry
    <3>1. object \in [Sim -> Object] /\ object' = [object EXCEPT ![s] = [object[s] EXCEPT !.link = None]]
      BY <1>1, <1>7 DEF TypeOK, ShutdownCloses
    <3>2. object[s] \in Object /\ object'[s] = [object[s] EXCEPT !.link = None]
      BY <3>1
    <3> QED
      BY <3>1, <3>2 DEF Object
  <2>3. \A x \in open' : \E y \in Sim : <<y, x>> \in closing'
    BY <2>1 DEF StopInv, ClosesAll
  <2> QED
    BY <2>1, <2>2, <2>3 DEF StopInv, AwaitsAll, ClosesAll
<1>8. CASE ShutdownDone
  BY <1>8 DEF ShutdownDone, queueVars, StopInv, AwaitsAll, ClosesAll
<1>9. ~Restart
  BY DEF NothingToRetry, Restart
<1>10. CASE UNCHANGED vars
  BY <1>10 DEF vars, queueVars, StopInv, AwaitsAll, ClosesAll
<1> QED
  BY <1>2, <1>3, <1>4, <1>5, <1>6, <1>7, <1>8, <1>9, <1>10, StepsAwait DEF Next, ShutsDown

\* After shutdown() nothing is connected, nothing ticks and nothing will be tried
\* again, whatever was running when the signal came.
THEOREM ShutdownIsComplete ==
    ASSUME NothingToRetry, ~LateCalls
    PROVE  Spec => []ShutdownLeavesNothing
<1>1. Init => StopInv
  BY DEF Init, StopInv, AwaitsAll, ClosesAll
<1>2. StopInv => ShutdownLeavesNothing
  BY DEF StopInv, ClosesAll, ShutdownLeavesNothing
<1>3. IInv /\ WorkInv /\ TrackInv /\ StopInv /\ [Next]_vars => StopInv'
  BY NextStops
<1>4. Spec => []TrackInv
  BY TrackInductive
<1> QED
  BY <1>1, <1>2, <1>3, <1>4, Inductive, WorkInductive, PTL DEF Spec
=============================================================================
