----------------------------- MODULE StartUpProofs -----------------------------
(***************************************************************************)
(* Theorems about StartUp: the migrations and what an instance serves, for *)
(* any number of instances of any builds, any rows, starts and outages.    *)
(***************************************************************************)
EXTENDS StartUp, TLAPS

Place == {"off", "begin", "wait", "list", "listed", "loaded", "broken", "exists"} \cup InTransaction

-----------------------------------------------------------------------------
(* The inductive invariant of the migrations                               *)

Types ==
  /\ db.applied \in Seq(Nat) /\ db.rows \subseteq Id /\ db = [applied |-> db.applied, rows |-> db.rows]
  /\ pc \in [Instance -> Place]
  /\ txn \in [Instance -> Seq(Nat)] /\ next \in [Instance -> Nat]
  /\ listed \in [Instance -> SUBSET Id]
  /\ ready \in [Instance -> BOOLEAN]
  /\ stage \in [Instance -> {"serving", "stopping", "closing"}]
  /\ registered \in [Instance -> SUBSET Id]
  /\ alone \in [Instance -> BOOLEAN]
  /\ up \in BOOLEAN /\ lock \in Instance \cup {None}

\* The lock is held exactly from its grant to the end of the transaction.
LockIsHeld == \A p \in Instance : pc[p] \in {"read", "apply"} <=> lock = p

\* Nothing is pending outside of "apply", and there it is what comes next.
TxnContinues ==
  \A p \in Instance :
    /\ pc[p] # "apply" => txn[p] = <<>>
    /\ pc[p] = "apply" => /\ next[p] = Len(db.applied) + Len(txn[p]) + 1
                          /\ \A i \in DOMAIN txn[p] : txn[p][i] = Len(db.applied) + i

GateIsOpen == \A p \in Instance : ready[p] <=> pc[p] = "loaded"

IInv == Types /\ LockIsHeld /\ TxnContinues /\ GateIsOpen /\ AppliedInOrder /\ NeverTwice

LEMMA InitIInv == Init => IInv
<1> SUFFICES ASSUME Init PROVE IInv
  OBVIOUS
<1>1. Types
  <2>1. db.applied \in Seq(Nat) /\ db.rows \subseteq Id /\ db = [applied |-> db.applied, rows |-> db.rows]
    <3>1. CASE db = [applied |-> <<>>, rows |-> {}]
      BY <3>1
    <3>2. CASE db = [applied |-> <<1>>, rows |-> Id]
      BY <3>2
    <3> QED
      BY <3>1, <3>2 DEF Init
  <2>2. pc \in [Instance -> Place] /\ txn \in [Instance -> Seq(Nat)] /\ next \in [Instance -> Nat]
    BY DEF Init, Each, Place
  <2>3. /\ listed \in [Instance -> SUBSET Id] /\ registered \in [Instance -> SUBSET Id]
        /\ ready \in [Instance -> BOOLEAN] /\ alone \in [Instance -> BOOLEAN]
        /\ stage \in [Instance -> {"serving", "stopping", "closing"}]
    BY DEF Init, Each
  <2> QED
    BY <2>1, <2>2, <2>3 DEF Init, Types
<1>2. LockIsHeld /\ TxnContinues /\ GateIsOpen /\ NeverTwice
  BY InstanceAssumption DEF Init, LockIsHeld, TxnContinues, GateIsOpen, NeverTwice, Each
<1>3. AppliedInOrder
  BY DEF Init, AppliedInOrder
<1> QED
  BY <1>1, <1>2, <1>3 DEF IInv

\* A move of the load that leaves the database, the lock and the transactions alone.
LEMMA MoveStep ==
  ASSUME IInv, NEW p \in Instance, NEW here \in Place \ {"read", "apply", "loaded"},
         NEW there \in Place \ {"read", "apply", "loaded", "exists"},
         At(p, here, there), UNCHANGED <<shared, txn, next>>, LoadOnly,
         listed' \in [Instance -> SUBSET Id]
  PROVE  IInv'
<1>1. /\ pc' = [pc EXCEPT ![p] = there] /\ pc[p] = here
      /\ UNCHANGED <<db, up, lock, txn, next, ready, stage, registered, alone>>
  BY DEF At, LoadOnly, shared, bounds
<1>2. Types'
  BY <1>1 DEF IInv, Types
<1>3. LockIsHeld' /\ TxnContinues' /\ GateIsOpen' /\ NeverTwice'
  BY <1>1 DEF IInv, Types, LockIsHeld, TxnContinues, GateIsOpen, NeverTwice
<1>4. AppliedInOrder'
  BY <1>1 DEF IInv, AppliedInOrder
<1> QED
  BY <1>2, <1>3, <1>4 DEF IInv

LEMMA LockStep ==
  ASSUME IInv, NEW p \in Instance, Lock(p)
  PROVE  IInv'
<1>1. /\ pc' = [pc EXCEPT ![p] = "read"] /\ pc[p] = "lock" /\ lock = None /\ lock' = p
      /\ UNCHANGED <<db, up, txn, next, listed, ready, stage, registered, alone>>
  BY DEF Lock, At, LoadOnly, bounds, free
<1>2. Types'
  BY <1>1 DEF IInv, Types, Place, InTransaction
<1>3. \A q \in Instance : pc[q] \notin {"read", "apply"}
  BY <1>1, InstanceAssumption DEF IInv, LockIsHeld
<1>4. LockIsHeld' /\ TxnContinues' /\ GateIsOpen' /\ NeverTwice'
  BY <1>1, <1>3 DEF IInv, Types, LockIsHeld, TxnContinues, GateIsOpen, NeverTwice
<1>5. AppliedInOrder'
  BY <1>1 DEF IInv, AppliedInOrder
<1> QED
  BY <1>2, <1>4, <1>5 DEF IInv

LEMMA ReadStep ==
  ASSUME IInv, NEW p \in Instance, Read(p)
  PROVE  IInv'
<1>1. /\ pc' = [pc EXCEPT ![p] = "apply"] /\ pc[p] = "read"
      /\ next' = [next EXCEPT ![p] = Len(db.applied) + 1]
      /\ UNCHANGED <<db, up, lock, txn, listed, ready, stage, registered, alone>>
  BY DEF Read, At, LoadOnly, bounds, shared, toApply
<1>2. Len(db.applied) \in Nat
  BY DEF IInv, Types
<1>3. Types'
  BY <1>1, <1>2 DEF IInv, Types, Place, InTransaction
<1>4. TxnContinues'
  <2> SUFFICES ASSUME NEW q \in Instance
               PROVE  /\ pc'[q] # "apply" => txn'[q] = <<>>
                      /\ pc'[q] = "apply" => /\ next'[q] = Len(db'.applied) + Len(txn'[q]) + 1
                                             /\ \A i \in DOMAIN txn'[q] : txn'[q][i] = Len(db'.applied) + i
    BY DEF TxnContinues
  <2>1. CASE q = p
    <3>1. txn'[p] = <<>> /\ pc'[p] = "apply" /\ next'[p] = Len(db'.applied) + 1
      BY <1>1 DEF IInv, Types, TxnContinues
    <3> QED
      BY <1>2, <1>1, <2>1, <3>1
  <2>2. CASE q # p
    BY <1>1, <2>2 DEF IInv, Types, TxnContinues
  <2> QED
    BY <2>1, <2>2
<1>5. LockIsHeld' /\ GateIsOpen' /\ NeverTwice'
  BY <1>1 DEF IInv, Types, LockIsHeld, GateIsOpen, NeverTwice
<1>6. AppliedInOrder'
  BY <1>1 DEF IInv, AppliedInOrder
<1> QED
  BY <1>3, <1>4, <1>5, <1>6 DEF IInv

\* The next migration of a transaction is not applied yet.
LEMMA ApplyStep ==
  ASSUME IInv, NEW p \in Instance, Apply(p)
  PROVE  IInv'
<1>1. /\ pc[p] = "apply" /\ Len(db.applied) \in Nat /\ txn[p] \in Seq(Nat) /\ next[p] \in Nat
      /\ next[p] = Len(db.applied) + Len(txn[p]) + 1
      /\ \A i \in DOMAIN txn[p] : txn[p][i] = Len(db.applied) + i
  BY DEF Apply, IInv, Types, TxnContinues
<1>2. ~ \E i \in DOMAIN db.applied : db.applied[i] = next[p]
  <2> DEFINE a == db.applied
             n == next[p]
  <2>1. a \in Seq(Nat) /\ (\A i \in DOMAIN a : a[i] = i) /\ DOMAIN a = 1 .. Len(a)
    BY DEF IInv, Types, AppliedInOrder
  <2>2. n > Len(a) /\ n \in Nat /\ Len(a) \in Nat
    <3> DEFINE t == txn[p]
    <3>1. /\ t \in Seq(Nat) /\ Len(a) \in Nat /\ n \in Nat
          /\ n = Len(a) + Len(t) + 1
      BY <1>1
    <3> HIDE DEF t, n, a
    <3>2. Len(t) \in Nat
      BY <3>1
    <3> QED
      BY <3>1, <3>2
  <2> HIDE DEF a, n
  <2>3. ~ \E i \in DOMAIN a : a[i] = n
    BY <2>1, <2>2
  <2> QED
    BY <2>3 DEF a, n
<1>3. /\ txn' = [txn EXCEPT ![p] = Append(txn[p], next[p])]
      /\ next' = [next EXCEPT ![p] = next[p] + 1]
      /\ UNCHANGED <<db, up, lock, pc, listed, ready, stage, registered, alone>>
  BY <1>2 DEF Apply, LoadOnly, bounds, shared
<1>4. Types'
  BY <1>1, <1>3 DEF IInv, Types
<1>5. TxnContinues'
  <2> SUFFICES ASSUME NEW q \in Instance
               PROVE  /\ pc'[q] # "apply" => txn'[q] = <<>>
                      /\ pc'[q] = "apply" => /\ next'[q] = Len(db'.applied) + Len(txn'[q]) + 1
                                             /\ \A i \in DOMAIN txn'[q] : txn'[q][i] = Len(db'.applied) + i
    BY DEF TxnContinues
  <2>1. CASE q = p
    <3> DEFINE t == txn[p]
               n == next[p]
               a == Len(db.applied)
    <3>1. txn'[p] = Append(t, n) /\ next'[p] = n + 1 /\ pc'[p] = "apply"
      BY <1>1, <1>3 DEF IInv, Types
    <3>2. a \in Nat /\ n \in Nat /\ t \in Seq(Nat) /\ n = a + Len(t) + 1 /\ Len(db'.applied) = a
          /\ \A i \in DOMAIN t : t[i] = a + i
      BY <1>1, <1>3
    <3> HIDE DEF t, n, a
    <3>3. /\ Len(Append(t, n)) = Len(t) + 1 /\ DOMAIN Append(t, n) = 1 .. Len(t) + 1
          /\ DOMAIN t = 1 .. Len(t) /\ Len(t) \in Nat
          /\ \A i \in DOMAIN Append(t, n) : Append(t, n)[i] = IF i <= Len(t) THEN t[i] ELSE n
      BY <3>2
    <3>4. \A i \in DOMAIN Append(t, n) : Append(t, n)[i] = a + i
      BY <3>2, <3>3
    <3> QED
      BY <2>1, <3>1, <3>2, <3>3, <3>4
  <2>2. CASE q # p
    BY <1>3, <2>2 DEF IInv, Types, TxnContinues
  <2> QED
    BY <2>1, <2>2
<1>6. LockIsHeld' /\ GateIsOpen' /\ NeverTwice' /\ AppliedInOrder'
  BY <1>3 DEF IInv, LockIsHeld, GateIsOpen, NeverTwice, AppliedInOrder
<1> QED
  BY <1>4, <1>5, <1>6 DEF IInv

\* The end of a transaction by its instance, which goes on outside of it.
LEMMA ReleaseFacts ==
  ASSUME IInv, NEW p \in Instance, Release(p),
         pc' \in [Instance -> Place], pc'[p] \notin {"read", "apply"},
         \A q \in Instance \ {p} : pc'[q] = pc[q]
  PROVE  /\ txn' \in [Instance -> Seq(Nat)] /\ next' \in [Instance -> Nat]
         /\ lock' \in Instance \cup {None}
         /\ LockIsHeld'
         /\ txn'[p] = <<>>
         /\ \A q \in Instance \ {p} : txn'[q] = txn[q] /\ next'[q] = next[q]
  BY InstanceAssumption DEF Release, IInv, Types, LockIsHeld

LEMMA CommitStep ==
  ASSUME IInv, NEW p \in Instance, NEW answered \in BOOLEAN, Commit(p, answered)
  PROVE  IInv'
<1> DEFINE there == IF answered THEN "list" ELSE "broken"
<1>1. /\ pc[p] = "apply" /\ db.applied \in Seq(Nat) /\ txn[p] \in Seq(Nat)
      /\ \A i \in DOMAIN txn[p] : txn[p][i] = Len(db.applied) + i
      /\ \A i \in DOMAIN db.applied : db.applied[i] = i
  BY DEF Commit, IInv, Types, TxnContinues, AppliedInOrder
<1>2. /\ pc' = [pc EXCEPT ![p] = there] /\ there \in Place \ {"read", "apply", "loaded", "exists"}
      /\ Release(p)
      /\ UNCHANGED <<up, listed, ready, stage, registered, alone>>
  BY DEF Commit, LoadOnly, bounds, Place
<1> HIDE DEF there
<1>3. /\ db'.applied = db.applied \o txn[p] /\ db'.rows = db.rows
      /\ db' = [applied |-> db'.applied, rows |-> db'.rows]
  <2>1. db' = [db EXCEPT !.applied = db.applied \o txn[p]]
    BY DEF Commit
  <2>2. db = [applied |-> db.applied, rows |-> db.rows]
    BY DEF IInv, Types
  <2> QED
    BY <2>1, <2>2
<1>4. db'.applied \in Seq(Nat) /\ AppliedInOrder'
  <2> DEFINE a == db.applied
             t == txn[p]
  <2>1. a \in Seq(Nat) /\ t \in Seq(Nat) /\ (\A i \in DOMAIN a : a[i] = i)
        /\ \A i \in DOMAIN t : t[i] = Len(a) + i
    BY <1>1
  <2> HIDE DEF a, t
  <2>2. a \o t \in Seq(Nat) /\ \A i \in DOMAIN (a \o t) : (a \o t)[i] = i
    BY <2>1
  <2> QED
    BY <1>3, <2>2 DEF AppliedInOrder, a, t
<1>5. /\ pc' \in [Instance -> Place] /\ pc'[p] = there
      /\ \A q \in Instance \ {p} : pc'[q] = pc[q]
  BY <1>2 DEF IInv, Types
<1>6. /\ txn' \in [Instance -> Seq(Nat)] /\ next' \in [Instance -> Nat]
      /\ lock' \in Instance \cup {None}
      /\ LockIsHeld'
      /\ txn'[p] = <<>>
      /\ \A q \in Instance \ {p} : txn'[q] = txn[q] /\ next'[q] = next[q]
  BY <1>2, <1>5, ReleaseFacts
<1>7. Types'
  BY <1>2, <1>3, <1>4, <1>5, <1>6 DEF IInv, Types
<1>8. \A q \in Instance \ {p} : pc[q] # "apply"
  BY <1>1 DEF IInv, LockIsHeld
<1>9. TxnContinues' /\ GateIsOpen' /\ NeverTwice'
  BY <1>1, <1>2, <1>5, <1>6, <1>8 DEF IInv, TxnContinues, GateIsOpen, NeverTwice
<1> QED
  BY <1>4, <1>6, <1>7, <1>9 DEF IInv

LEMMA FailStep ==
  ASSUME IInv, NEW p \in Instance, Fail(p)
  PROVE  IInv'
<1>1. /\ pc' = [pc EXCEPT ![p] = "wait"] /\ pc[p] \notin {"loaded"} /\ Release(p)
      /\ UNCHANGED <<db, up, listed, ready, stage, registered, alone>>
  BY DEF Fail, LoadOnly, bounds
<1>2. /\ pc' \in [Instance -> Place] /\ pc'[p] = "wait"
      /\ \A q \in Instance \ {p} : pc'[q] = pc[q]
  BY <1>1 DEF IInv, Types, Place
<1>3. /\ txn' \in [Instance -> Seq(Nat)] /\ next' \in [Instance -> Nat]
      /\ lock' \in Instance \cup {None}
      /\ LockIsHeld'
      /\ txn'[p] = <<>>
      /\ \A q \in Instance \ {p} : txn'[q] = txn[q] /\ next'[q] = next[q]
  BY <1>1, <1>2, ReleaseFacts
<1>4. Types' /\ AppliedInOrder'
  BY <1>1, <1>2, <1>3 DEF IInv, Types, AppliedInOrder
<1>5. TxnContinues'
  <2> SUFFICES ASSUME NEW q \in Instance
               PROVE  /\ pc'[q] # "apply" => txn'[q] = <<>>
                      /\ pc'[q] = "apply" => /\ next'[q] = Len(db'.applied) + Len(txn'[q]) + 1
                                             /\ \A i \in DOMAIN txn'[q] : txn'[q][i] = Len(db'.applied) + i
    BY DEF TxnContinues
  <2>1. CASE q = p
    BY <1>2, <1>3, <2>1
  <2>2. CASE q # p
    <3>1. pc'[q] = pc[q] /\ txn'[q] = txn[q] /\ next'[q] = next[q] /\ db' = db
      BY <1>1, <1>2, <1>3, <2>2
    <3> QED
      BY <3>1 DEF IInv, TxnContinues
  <2> QED
    BY <2>1, <2>2
<1>6. GateIsOpen' /\ NeverTwice'
  BY <1>1, <1>2 DEF IInv, Types, GateIsOpen, NeverTwice
<1> QED
  BY <1>3, <1>4, <1>5, <1>6 DEF IInv

LEMMA ResumeStep ==
  ASSUME IInv, NEW p \in Instance, Resume(p)
  PROVE  IInv'
<1>1. /\ pc' = [pc EXCEPT ![p] = "loaded"] /\ pc[p] = "listed"
      /\ registered' = [registered EXCEPT ![p] = @ \cup listed[p]]
      /\ ready' = [ready EXCEPT ![p] = TRUE]
      /\ alone' = [q \in Instance |-> q = p /\ alone[p]]
      /\ listed' = [listed EXCEPT ![p] = {}]
      /\ UNCHANGED <<db, up, lock, txn, next, stage>>
  BY DEF Resume, At, shared
<1>2. Types'
  BY <1>1 DEF IInv, Types, Place
<1>3. LockIsHeld' /\ TxnContinues' /\ GateIsOpen' /\ NeverTwice' /\ AppliedInOrder'
  BY <1>1 DEF IInv, Types, LockIsHeld, TxnContinues, GateIsOpen, NeverTwice, AppliedInOrder
<1> QED
  BY <1>2, <1>3 DEF IInv

LEMMA LoadStep ==
  ASSUME IInv, NEW p \in Instance, Load(p)
  PROVE  IInv'
<1>1. CASE Begin(p)
  <2>1. At(p, "begin", "lock") /\ UNCHANGED <<shared, txn, next>> /\ LoadOnly /\ listed' = listed
    BY <1>1 DEF Begin
  <2>2. "begin" \in Place \ {"read", "apply", "loaded"} /\ "lock" \in Place \ {"read", "apply", "loaded", "exists"}
    BY DEF Place, InTransaction
  <2>3. listed' \in [Instance -> SUBSET Id]
    BY <2>1 DEF IInv, Types
  <2> QED
    BY <2>1, <2>2, <2>3, MoveStep
<1>2. CASE Timer(p)
  <2>1. At(p, "wait", "begin") /\ UNCHANGED <<shared, txn, next>> /\ LoadOnly /\ listed' = listed
    BY <1>2 DEF Timer, tryAgain
  <2>2. "wait" \in Place \ {"read", "apply", "loaded"} /\ "begin" \in Place \ {"read", "apply", "loaded", "exists"}
    BY DEF Place
  <2>3. listed' \in [Instance -> SUBSET Id]
    BY <2>1 DEF IInv, Types
  <2> QED
    BY <2>1, <2>2, <2>3, MoveStep
<1>3. CASE List(p)
  <2>1. At(p, "list", "listed") /\ UNCHANGED <<shared, txn, next>> /\ LoadOnly
        /\ listed' = [listed EXCEPT ![p] = db.rows \cap Fitting]
    BY <1>3 DEF List
  <2>2. "list" \in Place \ {"read", "apply", "loaded"} /\ "listed" \in Place \ {"read", "apply", "loaded", "exists"}
    BY DEF Place
  <2>3. listed' \in [Instance -> SUBSET Id]
    BY <2>1 DEF IInv, Types
  <2> QED
    BY <2>1, <2>2, <2>3, MoveStep
<1> QED
  BY <1>1, <1>2, <1>3, LockStep, ReadStep, ApplyStep, CommitStep, FailStep, ResumeStep DEF Load

LEMMA ExitStep ==
  ASSUME IInv, NEW p \in Instance, Exit(p)
  PROVE  IInv'
<1>1. /\ pc' = [pc EXCEPT ![p] = "off"] /\ Release(p)
      /\ listed' = [listed EXCEPT ![p] = {}]
      /\ ready' = [ready EXCEPT ![p] = FALSE] /\ stage' = [stage EXCEPT ![p] = "serving"]
      /\ registered' = [registered EXCEPT ![p] = {}]
      /\ alone' = [alone EXCEPT ![p] = FALSE]
      /\ UNCHANGED <<db, up>>
  BY DEF Exit
<1>2. /\ pc' \in [Instance -> Place] /\ pc'[p] = "off"
      /\ \A q \in Instance \ {p} : pc'[q] = pc[q]
  BY <1>1 DEF IInv, Types, Place
<1>3. /\ txn' \in [Instance -> Seq(Nat)] /\ next' \in [Instance -> Nat]
      /\ lock' \in Instance \cup {None}
      /\ LockIsHeld'
      /\ txn'[p] = <<>>
      /\ \A q \in Instance \ {p} : txn'[q] = txn[q] /\ next'[q] = next[q]
  BY <1>1, <1>2, ReleaseFacts
<1>4. Types' /\ AppliedInOrder'
  BY <1>1, <1>2, <1>3 DEF IInv, Types, AppliedInOrder
<1>5. TxnContinues'
  <2> SUFFICES ASSUME NEW q \in Instance
               PROVE  /\ pc'[q] # "apply" => txn'[q] = <<>>
                      /\ pc'[q] = "apply" => /\ next'[q] = Len(db'.applied) + Len(txn'[q]) + 1
                                             /\ \A i \in DOMAIN txn'[q] : txn'[q][i] = Len(db'.applied) + i
    BY DEF TxnContinues
  <2>1. CASE q = p
    BY <1>2, <1>3, <2>1
  <2>2. CASE q # p
    <3>1. pc'[q] = pc[q] /\ txn'[q] = txn[q] /\ next'[q] = next[q] /\ db' = db
      BY <1>1, <1>2, <1>3, <2>2
    <3> QED
      BY <3>1 DEF IInv, TxnContinues
  <2> QED
    BY <2>1, <2>2
<1>6. GateIsOpen' /\ NeverTwice'
  BY <1>1, <1>2 DEF IInv, Types, GateIsOpen, NeverTwice
<1> QED
  BY <1>3, <1>4, <1>5, <1>6 DEF IInv

LEMMA OutageStep ==
  ASSUME IInv, Outage
  PROVE  IInv'
<1>1. /\ up' = FALSE /\ lock' = None /\ txn' = Each(<<>>) /\ next' = Each(1)
      /\ pc' = [p \in Instance |-> IF Busy(p) THEN "broken" ELSE pc[p]]
      /\ UNCHANGED <<db, listed, ready, stage, registered, alone>>
  BY DEF Outage
<1>2. Types' /\ AppliedInOrder'
  <2>1. txn' \in [Instance -> Seq(Nat)] /\ next' \in [Instance -> Nat]
    BY <1>1 DEF Each
  <2>2. pc' \in [Instance -> Place]
    BY <1>1 DEF IInv, Types, Place
  <2> QED
    BY <1>1, <2>1, <2>2 DEF IInv, Types, AppliedInOrder
<1>3. \A p \in Instance : /\ pc'[p] \notin {"read", "apply", "exists"}
                          /\ pc'[p] = "loaded" <=> pc[p] = "loaded"
  BY <1>1 DEF Busy, InTransaction
<1>4. LockIsHeld' /\ TxnContinues' /\ GateIsOpen' /\ NeverTwice'
  BY <1>1, <1>3, InstanceAssumption DEF IInv, LockIsHeld, TxnContinues, GateIsOpen, NeverTwice, Each
<1> QED
  BY <1>2, <1>4 DEF IInv

\* Starts, calls, signals and the return of the database.
LEMMA OtherStep ==
  ASSUME IInv, NEW p \in Instance, Start(p) \/ Call(p) \/ Signal(p) \/ Shutdown(p) \/ Back
  PROVE  IInv'
<1>1. UNCHANGED <<lock, txn, next, listed, ready>>
  BY DEF Start, Call, Change, Signal, Shutdown, Back, shared, load, bounds
<1>2. CASE Start(p)
  <2>1. /\ pc' = [pc EXCEPT ![p] = "begin"] /\ pc[p] = "off" /\ UNCHANGED <<db, up, stage, registered>>
        /\ alone' = [alone EXCEPT ![p] = \A q \in Instance : ~ready[q]]
    BY <1>2 DEF Start, shared, Off
  <2>2. Types' /\ AppliedInOrder'
    BY <1>1, <2>1 DEF IInv, Types, Place, AppliedInOrder
  <2> QED
    BY <1>1, <2>1, <2>2 DEF IInv, Types, LockIsHeld, TxnContinues, GateIsOpen, NeverTwice
<1>3. CASE Call(p)
  <2>1. PICK id \in Fitting, put \in BOOLEAN : Change(p, id, put)
    BY <1>3 DEF Call
  <2>2. /\ db'.applied = db.applied /\ db'.rows \subseteq Id
        /\ db' = [applied |-> db'.applied, rows |-> db'.rows]
        /\ registered' \in [Instance -> SUBSET Id] /\ UNCHANGED <<up, pc, stage, alone>>
    <3>1. /\ db' = [db EXCEPT !.rows = IF put THEN db.rows \cup {id} ELSE db.rows \ {id}]
          /\ registered' = [registered EXCEPT ![p] = IF put THEN @ \cup {id} ELSE @ \ {id}]
          /\ UNCHANGED <<up, pc, stage, alone>>
      BY <2>1 DEF Change, load
    <3>2. db = [applied |-> db.applied, rows |-> db.rows] /\ db.rows \subseteq Id /\ id \in Id
      BY FittingAssumption DEF IInv, Types
    <3> QED
      BY <3>1, <3>2 DEF IInv, Types
  <2>3. Types' /\ AppliedInOrder'
    BY <1>1, <2>2 DEF IInv, Types, AppliedInOrder
  <2>4. TxnContinues'
    BY <1>1, <2>2 DEF IInv, TxnContinues
  <2> QED
    BY <1>1, <2>2, <2>3, <2>4 DEF IInv, LockIsHeld, GateIsOpen, NeverTwice
<1>4. CASE Signal(p) \/ Shutdown(p) \/ Back
  <2>1. UNCHANGED <<db, pc, alone>> /\ up' \in BOOLEAN
        /\ stage' \in [Instance -> {"serving", "stopping", "closing"}]
        /\ registered' \in [Instance -> SUBSET Id]
    BY <1>4 DEF IInv, Types, Signal, Shutdown, Back, shared, load
  <2>2. Types' /\ AppliedInOrder'
    BY <1>1, <2>1 DEF IInv, Types, AppliedInOrder
  <2> QED
    BY <1>1, <2>1, <2>2 DEF IInv, LockIsHeld, TxnContinues, GateIsOpen, NeverTwice
<1> QED
  BY <1>2, <1>3, <1>4

LEMMA NextIInv == IInv /\ [Next]_vars => IInv'
<1> SUFFICES ASSUME IInv, [Next]_vars PROVE IInv'
  OBVIOUS
<1>1. CASE UNCHANGED vars
  BY <1>1 DEF vars, shared, load, bounds, IInv, Types, LockIsHeld, TxnContinues, GateIsOpen,
              AppliedInOrder, NeverTwice
<1>2. ASSUME NEW p \in Instance, Start(p) \/ Load(p) \/ Call(p) \/ Signal(p) \/ Stop(p) \/ Crash(p)
      PROVE  IInv'
  BY <1>2, LoadStep, OtherStep, ExitStep DEF Stop, Closed, Crash
<1>3. CASE Outage
  BY <1>3, OutageStep
<1>4. CASE Back
  <2>1. /\ up' = TRUE
        /\ UNCHANGED <<db, lock, pc, txn, next, listed, ready, stage, registered, alone>>
    BY <1>4 DEF Back, load
  <2> QED
    BY <2>1 DEF IInv, Types, LockIsHeld, TxnContinues, GateIsOpen, AppliedInOrder, NeverTwice
<1> QED
  BY <1>1, <1>2, <1>3, <1>4 DEF Next

\* The invariant that makes the theorems below hold: the advisory lock is held
\* from its grant to the end of a transaction, and an open transaction continues
\* what is committed.
THEOREM Inductive == Spec => []IInv
  BY InitIInv, NextIInv, PTL DEF Spec

\* "Each migration once, in order": at every moment the database holds a prefix of
\* the migrations, for any number of instances of any builds and any faults.
THEOREM MigrationsInOrder == Spec => []AppliedInOrder
<1>1. IInv => AppliedInOrder
  BY DEF IInv
<1> QED
  BY <1>1, Inductive, PTL

\* "Two instances starting together take turns": no start fails over a migration
\* that another instance has applied.
THEOREM MigrationsOnce == Spec => []NeverTwice
<1>1. IInv => NeverTwice
  BY DEF IInv
<1> QED
  BY <1>1, Inductive, PTL

\* The variables keep their types, the gate is open exactly after the load, and
\* only a transaction holds the lock.
THEOREM TypeCorrect == Spec => []TypeOK
<1>1. IInv => TypeOK
  <2> SUFFICES ASSUME IInv PROVE TypeOK
    OBVIOUS
  <2>1. lock # None => lock \in Instance /\ pc[lock] \in InTransaction \ {"lock"}
    BY DEF IInv, Types, LockIsHeld, InTransaction
  <2> QED
    BY <2>1 DEF IInv, Types, GateIsOpen, TypeOK, Place
<1> QED
  BY <1>1, Inductive, PTL

-----------------------------------------------------------------------------
(* What an instance serves                                                 *)

\* Of the instances that started alone, one at most has opened its gate, and no
\* other serves beside it.
AloneServes == \A p, q \in Instance : alone[p] /\ ready[q] => p = q

\* What an instance has in memory, if it has had the database to itself.
MemoryAgrees ==
  \A p \in Instance :
    /\ pc[p] # "loaded" => registered[p] = {}
    /\ alone[p] /\ pc[p] = "listed" => listed[p] = db.rows \cap Fitting
    /\ alone[p] /\ pc[p] = "loaded" /\ stage[p] # "closing" => registered[p] = db.rows \cap Fitting
    /\ alone[p] /\ pc[p] = "loaded" => registered[p] \subseteq db.rows \cap Fitting

ServeInv == AloneServes /\ MemoryAgrees

LEMMA ServeFrame ==
  ASSUME IInv, ServeInv, NEW p \in Instance,
         pc' \in [Instance -> Place], pc'[p] \notin {"listed", "loaded"}, pc[p] # "loaded",
         \A q \in Instance \ {p} : pc'[q] = pc[q],
         db'.rows = db.rows, UNCHANGED <<listed, ready, stage, registered, alone>>
  PROVE  ServeInv'
  BY DEF IInv, Types, ServeInv, AloneServes, MemoryAgrees

LEMMA LoadServes ==
  ASSUME IInv, ServeInv, NEW p \in Instance, Load(p)
  PROVE  ServeInv'
<1>1. pc \in [Instance -> Place] /\ IInv'
  BY LoadStep DEF IInv, Types
<1>2. pc' \in [Instance -> Place]
  BY <1>1 DEF IInv, Types
<1>3. CASE Begin(p) \/ Lock(p) \/ Read(p) \/ Fail(p) \/ Timer(p)
  <2>1. /\ UNCHANGED <<db, listed, ready, stage, registered, alone>>
        /\ pc'[p] \notin {"listed", "loaded"} /\ pc[p] # "loaded"
        /\ \A q \in Instance \ {p} : pc'[q] = pc[q]
    BY <1>1, <1>3 DEF Begin, Lock, Read, Fail, Timer, At, LoadOnly, shared, tryAgain
  <2> QED
    BY <1>2, <2>1, ServeFrame
<1>4. CASE Apply(p)
  <2>1. /\ UNCHANGED <<db, listed, ready, stage, registered, alone>> /\ pc[p] = "apply"
        /\ pc'[p] \notin {"listed", "loaded"}
        /\ \A q \in Instance \ {p} : pc'[q] = pc[q]
    BY <1>1, <1>4 DEF Apply, LoadOnly, shared
  <2> QED
    BY <1>2, <2>1, ServeFrame
<1>5. ASSUME NEW answered \in BOOLEAN, Commit(p, answered) PROVE ServeInv'
  <2>1. /\ UNCHANGED <<listed, ready, stage, registered, alone>> /\ pc[p] = "apply"
        /\ pc'[p] \notin {"listed", "loaded"}
        /\ \A q \in Instance \ {p} : pc'[q] = pc[q]
    BY <1>1, <1>5 DEF Commit, LoadOnly
  <2>2. db'.rows = db.rows
    <3>1. db' = [db EXCEPT !.applied = @ \o txn[p]] /\ db = [applied |-> db.applied, rows |-> db.rows]
      BY <1>5 DEF Commit, IInv, Types
    <3> QED
      BY <3>1
  <2> QED
    BY <1>2, <2>1, <2>2, ServeFrame
<1>6. CASE List(p)
  <2>1. /\ UNCHANGED <<db, ready, stage, registered, alone>> /\ pc[p] = "list"
        /\ pc'[p] = "listed" /\ listed'[p] = db.rows \cap Fitting
        /\ \A q \in Instance \ {p} : pc'[q] = pc[q] /\ listed'[q] = listed[q]
    BY <1>1, <1>6 DEF List, At, LoadOnly, shared, IInv, Types
  <2> QED
    BY <2>1 DEF ServeInv, AloneServes, MemoryAgrees
<1>7. CASE Resume(p)
  <2>1. /\ UNCHANGED <<db, stage>> /\ pc[p] = "listed"
        /\ pc'[p] = "loaded" /\ registered'[p] = registered[p] \cup listed[p]
        /\ ready' = [ready EXCEPT ![p] = TRUE]
        /\ alone' = [q \in Instance |-> q = p /\ alone[p]]
        /\ \A q \in Instance \ {p} : pc'[q] = pc[q] /\ registered'[q] = registered[q]
    BY <1>1, <1>7 DEF Resume, At, shared, IInv, Types
  <2>2. AloneServes'
    BY <2>1 DEF ServeInv, AloneServes, IInv, Types
  <2>3. MemoryAgrees'
    BY <2>1 DEF ServeInv, MemoryAgrees
  <2> QED
    BY <2>2, <2>3 DEF ServeInv
<1> QED
  BY <1>3, <1>4, <1>5, <1>6, <1>7 DEF Load

LEMMA CallServes ==
  ASSUME IInv, ServeInv, NEW p \in Instance, Call(p)
  PROVE  ServeInv'
<1>1. PICK id \in Fitting, put \in BOOLEAN : Change(p, id, put)
  BY DEF Call
<1>2. /\ ready[p] /\ stage[p] # "closing" /\ pc[p] = "loaded" /\ id \in Fitting
      /\ db'.rows = IF put THEN db.rows \cup {id} ELSE db.rows \ {id}
      /\ registered'[p] = IF put THEN registered[p] \cup {id} ELSE registered[p] \ {id}
      /\ \A q \in Instance \ {p} : registered'[q] = registered[q]
      /\ UNCHANGED <<pc, listed, ready, stage, alone>>
  <2>1. db' = [db EXCEPT !.rows = IF put THEN db.rows \cup {id} ELSE db.rows \ {id}]
    BY <1>1 DEF Change
  <2>2. db = [applied |-> db.applied, rows |-> db.rows]
    BY DEF IInv, Types
  <2>3. db'.rows = IF put THEN db.rows \cup {id} ELSE db.rows \ {id}
    BY <2>1, <2>2
  <2> QED
    BY <1>1, <2>3 DEF Change, Gate, Connects, load, IInv, Types, GateIsOpen
<1>3. \A q \in Instance \ {p} : ~alone[q]
  BY <1>2 DEF ServeInv, AloneServes
<1>4. MemoryAgrees'
  BY <1>2, <1>3 DEF ServeInv, MemoryAgrees
<1> QED
  BY <1>2, <1>4 DEF ServeInv, AloneServes

LEMMA EndServes ==
  ASSUME IInv, ServeInv, NEW p \in Instance, Start(p) \/ Signal(p) \/ Stop(p) \/ Crash(p)
  PROVE  ServeInv'
<1>1. CASE Start(p)
  <2>1. /\ UNCHANGED <<db, listed, ready, stage, registered>> /\ pc[p] = "off" /\ pc'[p] = "begin"
        /\ alone'[p] = \A q \in Instance : ~ready[q]
        /\ \A q \in Instance \ {p} : pc'[q] = pc[q] /\ alone'[q] = alone[q]
    BY <1>1 DEF Start, Off, shared, IInv, Types
  <2> QED
    BY <2>1 DEF ServeInv, AloneServes, MemoryAgrees
<1>2. CASE Signal(p)
  <2>1. /\ UNCHANGED <<db, pc, listed, ready, registered, alone>>
        /\ stage' = [stage EXCEPT ![p] = "stopping"] /\ stage[p] = "serving"
    BY <1>2 DEF Signal, shared, load
  <2> QED
    BY <2>1 DEF ServeInv, AloneServes, MemoryAgrees, IInv, Types
<1>3. CASE Shutdown(p)
  <2>1. /\ UNCHANGED <<db, pc, listed, ready, alone>>
        /\ stage' = [stage EXCEPT ![p] = "closing"]
        /\ registered' = [registered EXCEPT ![p] = {}]
    BY <1>3 DEF Shutdown, shared, load
  <2> QED
    BY <2>1 DEF ServeInv, AloneServes, MemoryAgrees, IInv, Types
<1>4. CASE Exit(p)
  <2>1. /\ UNCHANGED db /\ pc'[p] = "off" /\ registered'[p] = {} /\ ready'[p] = FALSE /\ alone'[p] = FALSE
        /\ \A q \in Instance \ {p} :
             /\ pc'[q] = pc[q] /\ registered'[q] = registered[q] /\ ready'[q] = ready[q]
             /\ alone'[q] = alone[q] /\ listed'[q] = listed[q] /\ stage'[q] = stage[q]
    BY <1>4 DEF Exit, IInv, Types
  <2> QED
    BY <2>1 DEF ServeInv, AloneServes, MemoryAgrees
<1> QED
  BY <1>1, <1>2, <1>3, <1>4 DEF Stop, Closed, Crash

LEMMA OutageServes ==
  ASSUME IInv, ServeInv, Outage
  PROVE  ServeInv'
<1>1. /\ UNCHANGED <<db, listed, ready, stage, registered, alone>>
      /\ \A p \in Instance : pc'[p] = IF Busy(p) THEN "broken" ELSE pc[p]
  BY DEF Outage
<1>2. \A p \in Instance : pc'[p] = "loaded" <=> pc[p] = "loaded"
  BY <1>1 DEF Busy, InTransaction
<1>3. \A p \in Instance : pc'[p] # "listed"
  BY <1>1 DEF Busy, InTransaction
<1> QED
  BY <1>1, <1>2, <1>3 DEF ServeInv, AloneServes, MemoryAgrees

\* An instance that has had the database to itself since it started serves exactly
\* what is stored and still fits, after any crashes, outages and lost answers and
\* also in calls after a signal; once shutdown() has forgotten its simulations it
\* may miss some, and never serves one that is not stored.
THEOREM ServesStored == Spec => []ServesWhatIsStored
<1>1. Init => ServeInv
  BY DEF Init, ServeInv, AloneServes, MemoryAgrees, Each
<1>2. IInv /\ ServeInv /\ [Next]_vars => ServeInv'
  <2> SUFFICES ASSUME IInv, ServeInv, [Next]_vars PROVE ServeInv'
    OBVIOUS
  <2>1. CASE UNCHANGED vars
    BY <2>1 DEF vars, shared, load, ServeInv, AloneServes, MemoryAgrees
  <2>2. CASE Back
    BY <2>2 DEF Back, load, ServeInv, AloneServes, MemoryAgrees
  <2> QED
    BY <2>1, <2>2, LoadServes, CallServes, EndServes, OutageServes DEF Next
<1>3. IInv /\ ServeInv => ServesWhatIsStored
  BY DEF IInv, GateIsOpen, ServeInv, MemoryAgrees, ServesWhatIsStored
<1> QED
  BY <1>1, <1>2, <1>3, Inductive, PTL DEF Spec
=============================================================================
