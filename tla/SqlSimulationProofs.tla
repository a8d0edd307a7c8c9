------------------------ MODULE SqlSimulationProofs ------------------------
(***************************************************************************)
(* What SqlSimulation promises of the rows, for every value of the         *)
(* constants: no statement overwrites a row and a start leaves the rows it *)
(* promises, whether ticks overlap or not; where they do not, the status   *)
(* is true, and where every write is counted as well, the table is never   *)
(* filled beyond maxRows; and where they overlap and writes go uncounted,  *)
(* it exceeds maxRows by a bounded number of ticks.                        *)
(***************************************************************************)
EXTENDS SqlSimulation, FiniteSetTheorems, WellFoundedInduction, TLAPS

-----------------------------------------------------------------------------
(* The highest key of a table                                              *)

\* Every set of naturals that is not empty has a least element.
LEMMA LeastOf ==
    ASSUME NEW S \in SUBSET Nat, S # {}
    PROVE  \E m \in S : \A k \in S : m <= k
<1>1. PICK m \in S : \A k \in S : ~(<<k, m>> \in OpToRel(<, Nat))
  BY NatLessThanWellFounded, WFMin
<1>2. ASSUME NEW k \in S PROVE m <= k
  <2>1. m \in Nat /\ k \in Nat
    OBVIOUS
  <2>2. ~(k < m)
    BY <1>1, <2>1 DEF OpToRel
  <2> QED
    BY <2>1, <2>2
<1> QED
  BY <1>2

\* A finite set of naturals is bounded: it is enumerated, and the shortest prefix
\* of the enumeration that is not bounded would be one longer than one that is.
LEMMA FiniteIsBounded ==
    ASSUME NEW S \in SUBSET Nat, IsFiniteSet(S)
    PROVE  \E b \in Nat : \A k \in S : k <= b
<1>1. PICK n \in Nat : ExistsSurjection(1 .. n, S)
  BY FS_NatSurjection
<1>2. PICK f \in [1 .. n -> S] : \A k \in S : \E i \in 1 .. n : f[i] = k
  BY <1>1 DEF ExistsSurjection, Surjection
<1>3. \A i \in 1 .. n : f[i] \in Nat
  OBVIOUS
<1> DEFINE Good == {m \in 0 .. n : \E b \in Nat : \A i \in 1 .. m : f[i] <= b}
           Bad  == (0 .. n) \ Good
<1>4. 0 \in Good
  <2>1. 0 \in 0 .. n /\ 0 \in Nat /\ \A i \in 1 .. 0 : f[i] <= 0
    OBVIOUS
  <2> QED
    BY <2>1
<1>5. ASSUME NEW m \in 1 .. n, m - 1 \in Good PROVE m \in Good
  <2>1. PICK b \in Nat : \A i \in 1 .. (m - 1) : f[i] <= b
    BY <1>5
  <2>2. f[m] \in Nat /\ b + f[m] \in Nat /\ m \in 0 .. n
    BY <1>3
  <2>3. ASSUME NEW i \in 1 .. m PROVE f[i] <= b + f[m]
    <3>1. i \in 1 .. n /\ f[i] \in Nat
      BY <1>3
    <3>2. CASE i = m
      BY <2>2, <3>2
    <3>3. CASE i # m
      <4>1. f[i] <= b
        BY <2>1, <3>3
      <4> QED
        BY <2>2, <3>1, <4>1
    <3> QED
      BY <3>2, <3>3
  <2> QED
    BY <2>2, <2>3
<1>6. Good \subseteq 0 .. n
  OBVIOUS
<1>7. n \in Good => \E b \in Nat : \A i \in 1 .. n : f[i] <= b
  OBVIOUS
<1> HIDE DEF Good
<1>8. Bad = {}
  <2> SUFFICES ASSUME Bad # {} PROVE FALSE
    OBVIOUS
  <2>1. Bad \in SUBSET Nat
    OBVIOUS
  <2>2. PICK m \in Bad : \A k \in Bad : m <= k
    BY <2>1, LeastOf
  <2>3. m \in 0 .. n /\ m \notin Good /\ m # 0
    BY <1>4
  <2>4. m - 1 \in 0 .. n /\ ~(m <= m - 1) /\ m \in 1 .. n
    BY <2>3
  <2>5. m - 1 \in Good
    BY <2>2, <2>4
  <2> QED
    BY <1>5, <2>3, <2>4, <2>5
<1>9. n \in Good
  BY <1>8
<1>10. PICK b \in Nat : \A i \in 1 .. n : f[i] <= b
  BY <1>7, <1>9
<1>11. \A k \in S : k <= b
  BY <1>2, <1>10
<1> QED
  BY <1>11

LEMMA HighestOf ==
    ASSUME NEW S \in SUBSET Nat, IsFiniteSet(S), S # {}
    PROVE  \E m \in S : \A k \in S : k <= m
<1> DEFINE Bounds == {b \in Nat : \A k \in S : k <= b}
<1>1. PICK b \in Nat : \A k \in S : k <= b
  BY FiniteIsBounded
<1>2. Bounds \in SUBSET Nat /\ Bounds # {}
  BY <1>1
<1>3. PICK m \in Bounds : \A c \in Bounds : m <= c
  BY <1>2, LeastOf
<1>4. m \in Nat /\ \A k \in S : k \in Nat /\ k <= m
  OBVIOUS
<1>5. m \in S
  <2> SUFFICES ASSUME m \notin S PROVE FALSE
    OBVIOUS
  <2>1. PICK k \in S : TRUE
    OBVIOUS
  <2>2. m - 1 \in Nat
    BY <1>4, <2>1
  <2>3. \A i \in S : i <= m - 1
    BY <1>4
  <2>4. m - 1 \in Bounds
    BY <2>2, <2>3
  <2> HIDE DEF Bounds
  <2>5. m <= m - 1
    BY <1>3, <2>4
  <2> QED
    BY <1>4, <2>5
<1> QED
  BY <1>4, <1>5

\* maxSequence() continues the series above every key the table holds.
LEMMA NextKeyIsNew ==
    ASSUME table \subseteq Nat, IsFiniteSet(table)
    PROVE  NextKey \in Nat /\ \A k \in table : k < NextKey
<1>1. CASE table = {}
  BY <1>1, SizesAssumption DEF NextKey
<1>2. CASE table # {}
  <2> DEFINE m == CHOOSE k \in table : \A i \in table : i <= k
  <2>1. m \in table /\ \A i \in table : i <= m
    BY <1>2, HighestOf
  <2>2. NextKey = m + 1
    BY <1>2 DEF NextKey
  <2> HIDE DEF m
  <2> QED
    BY <2>1, <2>2
<1> QED
  BY <1>1, <1>2

-----------------------------------------------------------------------------
(* What the operators of a write return                                    *)

Added(s, count) == Least(count, Room(s))

LEMMA AddedFits ==
    ASSUME NEW s \in Sim, NEW count \in Nat
    PROVE  /\ Room(s) \in Nat /\ Added(s, count) \in Nat
           /\ Added(s, count) <= count /\ Added(s, count) <= Room(s)
           /\ Added(s, count) = count \/ Added(s, count) = Room(s)
           /\ Room(s) = 0 <=> s.rowCount >= MaxRows
           /\ Room(s) # 0 => s.rowCount + Room(s) = MaxRows
BY SizesAssumption DEF Sim, Added, Least, Room, Minus

LEMMA RenderedFields ==
    ASSUME NEW s \in Sim, NEW count \in Nat
    PROVE  /\ Rendered(s, count) \in Sim
           /\ Rendered(s, count).stage = s.stage
           /\ Rendered(s, count).next = s.next + Added(s, count)
           /\ Rendered(s, count).rowCount = s.rowCount
           /\ Rendered(s, count).atCap = (Room(s) = 0)
           /\ Rendered(s, count).failed = s.failed
<1>1. Rendered(s, count) = [s EXCEPT !.atCap = (Room(s) = 0), !.next = s.next + Added(s, count)]
  BY DEF Rendered, Added, Sim
<1>2. Added(s, count) \in Nat
  BY AddedFits
<1>3. PICK b \in BOOLEAN : b = (Room(s) = 0)
  OBVIOUS
<1>4. Rendered(s, count) = [s EXCEPT !.atCap = b, !.next = s.next + Added(s, count)]
  BY <1>1, <1>3
<1>5. Rendered(s, count).atCap = b
  BY <1>4 DEF Sim
<1>6. Rendered(s, count).atCap = (Room(s) = 0)
  BY <1>3, <1>5, Zenon
<1>7. s.next + Added(s, count) \in Nat
  BY <1>2 DEF Sim
<1> QED
  BY <1>4, <1>6, <1>7 DEF Sim

LEMMA WritingFields ==
    ASSUME NEW s \in Sim, NEW count \in Nat
    PROVE  /\ Writing(s, count) \in Work
           /\ Writing(s, count).step \in {"idle", "writing"}
           /\ Writing(s, count).step = "idle" <=> Writing(s, count) = NoWork
           /\ Writing(s, count).step = "idle" <=> Added(s, count) = 0
           /\ Writing(s, count).step = "writing" =>
                /\ Writing(s, count).from = s.next
                /\ Writing(s, count).to = s.next + Added(s, count) - 1
                /\ s.next <= s.next + Added(s, count) - 1
<1>1. Added(s, count) \in Nat /\ s.next \in Nat
  BY AddedFits DEF Sim
<1>2. CASE Added(s, count) = 0
  <2>1. Writing(s, count) = NoWork
    BY <1>2 DEF Writing, Added
  <2> QED
    BY <1>2, <2>1 DEF NoWork, Work, Step
<1>3. CASE Added(s, count) # 0
  <2>1. Writing(s, count) = [step |-> "writing", from |-> s.next, to |-> s.next + Added(s, count) - 1, seen |-> 0]
    BY <1>3 DEF Writing, Added
  <2>2. s.next + Added(s, count) - 1 \in Nat /\ s.next <= s.next + Added(s, count) - 1
    BY <1>1, <1>3
  <2>3. Writing(s, count).step = "writing" /\ NoWork.step = "idle"
    BY <2>1 DEF NoWork
  <2> QED
    BY <1>1, <1>3, <2>1, <2>2, <2>3 DEF Work, Step
<1> QED
  BY <1>2, <1>3

LEMMA FailedFields ==
    ASSUME NEW s \in Sim
    PROVE  /\ Failed(s) \in Sim
           /\ Failed(s).stage = IF s.stage = "seeding" THEN "closing" ELSE s.stage
           /\ Failed(s).next = s.next /\ Failed(s).rowCount = s.rowCount /\ Failed(s).atCap = s.atCap
           /\ s.stage # "seeding" => Failed(s).failed
BY DEF Failed, Sim, Stage

LEMMA RecordedFields ==
    ASSUME NEW s \in Sim, NEW n \in Nat
    PROVE  /\ Recorded(s, n) \in Sim
           /\ Recorded(s, n).stage = s.stage /\ Recorded(s, n).next = s.next
           /\ Recorded(s, n).rowCount = n
           /\ Recorded(s, n).atCap = (n >= MaxRows)
<1>1. PICK b \in BOOLEAN : b = (n >= MaxRows)
  <2>1. (n >= MaxRows) \in BOOLEAN
    OBVIOUS
  <2> QED
    BY <2>1, Zenon
<1>2. Recorded(s, n) = [s EXCEPT !.rowCount = n, !.atCap = b, !.failed = FALSE]
  BY <1>1 DEF Recorded
<1>3. Recorded(s, n).atCap = b
  BY <1>2 DEF Sim
<1>4. Recorded(s, n).atCap = (n >= MaxRows)
  BY <1>1, <1>3, Zenon
<1> QED
  BY <1>2, <1>4 DEF Sim

LEMMA CountedFields ==
    ASSUME NEW s \in Sim, NEW n \in Nat
    PROVE  /\ SetOn(Recorded(s, n)) \in Sim
           /\ SetOn(Recorded(s, n)).stage = IF s.stage = "seeding" THEN "on" ELSE s.stage
           /\ SetOn(Recorded(s, n)).next = s.next /\ SetOn(Recorded(s, n)).rowCount = n
           /\ SetOn(Recorded(s, n)).atCap = (n >= MaxRows)
<1> DEFINE r == Recorded(s, n)
<1>1. /\ r \in Sim /\ r.stage = s.stage /\ r.next = s.next /\ r.rowCount = n
      /\ r.atCap = (n >= MaxRows)
  BY RecordedFields
<1> HIDE DEF r
<1>2. SetOn(r) = IF r.stage = "seeding" THEN [r EXCEPT !.stage = "on"] ELSE r
  BY DEF SetOn
<1>3. /\ SetOn(r) \in Sim
      /\ SetOn(r).stage = IF s.stage = "seeding" THEN "on" ELSE s.stage
      /\ SetOn(r).next = s.next /\ SetOn(r).rowCount = n
  BY <1>1, <1>2 DEF Sim, Stage
<1>4. SetOn(r).atCap = r.atCap
  BY <1>1, <1>2 DEF Sim
<1>5. SetOn(r).atCap = (n >= MaxRows)
  BY <1>1, <1>4, Zenon
<1> QED
  BY <1>3, <1>5 DEF r

\* A start that has counted the rows: the version knows them, and is seeding if
\* rows are missing.
Ready(s, v) == [Rendered(Recorded(s, Rows), Missing(v, Rows)) EXCEPT
                  !.stage = IF Writing(Recorded(s, Rows), Missing(v, Rows)) = NoWork THEN "on" ELSE "seeding"]

LEMMA MissingRows ==
    ASSUME NEW v \in Version, NEW n \in Nat
    PROVE  /\ Wanted(v) \in Nat /\ Missing(v, n) \in Nat
           /\ Missing(v, n) = IF n < Wanted(v) THEN Wanted(v) - n ELSE 0
BY SizesAssumption DEF Wanted, Missing, Minus

LEMMA ReadyFields ==
    ASSUME NEW s \in Sim, NEW v \in Version, Rows \in Nat
    PROVE  /\ Ready(s, v) \in Sim
           /\ Ready(s, v).stage = IF Added(Recorded(s, Rows), Missing(v, Rows)) = 0 THEN "on" ELSE "seeding"
           /\ Ready(s, v).next = s.next + Added(Recorded(s, Rows), Missing(v, Rows))
           /\ Ready(s, v).rowCount = Rows
           /\ Ready(s, v).atCap = (Rows >= MaxRows)
<1> DEFINE r == Recorded(s, Rows)
           n == Missing(v, Rows)
<1>1. r \in Sim /\ n \in Nat /\ r.next = s.next /\ r.rowCount = Rows
  BY RecordedFields, MissingRows
<1>2. Ready(s, v) = [Rendered(r, n) EXCEPT !.stage = IF Writing(r, n) = NoWork THEN "on" ELSE "seeding"]
  BY DEF Ready
<1> HIDE DEF r, n
<1>3. /\ Rendered(r, n) \in Sim /\ Rendered(r, n).next = r.next + Added(r, n)
      /\ Rendered(r, n).rowCount = r.rowCount /\ Rendered(r, n).atCap = (Room(r) = 0)
  BY <1>1, RenderedFields
<1>4. Writing(r, n) = NoWork <=> Added(r, n) = 0
  BY <1>1, WritingFields
<1>5. (Room(r) = 0) = (Rows >= MaxRows)
  BY <1>1, AddedFits
<1>6. Ready(s, v).atCap = Rendered(r, n).atCap
  BY <1>2, <1>3 DEF Sim
<1>7. Ready(s, v).atCap = (Rows >= MaxRows)
  BY <1>3, <1>5, <1>6, Zenon
<1>8. /\ Ready(s, v) \in Sim
      /\ Ready(s, v).stage = IF Added(r, n) = 0 THEN "on" ELSE "seeding"
      /\ Ready(s, v).next = s.next + Added(r, n) /\ Ready(s, v).rowCount = Rows
  BY <1>1, <1>2, <1>3, <1>4 DEF Sim, Stage
<1> QED
  BY <1>7, <1>8 DEF r, n

\* A write goes on with what its statement left, or with the count.
LEMMA AfterInsertFields ==
    ASSUME NEW w \in Work, w.step = "writing", w.from <= w.to, NEW ended \in BOOLEAN
    PROVE  /\ AfterInsert(w, ended) \in Work
           /\ AfterInsert(w, ended) = NoWork <=> ended
           /\ AfterInsert(w, ended).step = "idle" <=> ended
           /\ AfterInsert(w, ended).step \in {"idle", "counting", "writing"}
           /\ AfterInsert(w, ended).step = "counting" => Chunk(w) = w.from .. w.to
           /\ AfterInsert(w, ended).step = "writing" =>
                /\ AfterInsert(w, ended).from = w.from + ChunkSize
                /\ AfterInsert(w, ended).to = w.to
                /\ w.from + ChunkSize <= w.to
                /\ Chunk(w) = w.from .. (w.from + ChunkSize - 1)
<1>1. w.from \in Nat /\ w.to \in Nat /\ ChunkSize \in Nat /\ ChunkSize > 0
  BY SizesAssumption DEF Work
<1>2. CASE ended
  BY <1>2 DEF AfterInsert, NoWork, Work, Step
<1>3. CASE ~ended /\ Chunk(w) = w.from .. w.to
  <2>1. AfterInsert(w, ended) = [w EXCEPT !.step = "counting"]
    BY <1>3 DEF AfterInsert
  <2>2. AfterInsert(w, ended).step = "counting" /\ NoWork.step = "idle"
    BY <2>1 DEF NoWork, Work
  <2> QED
    BY <1>3, <2>1, <2>2 DEF Work, Step
<1>4. CASE ~ended /\ Chunk(w) # w.from .. w.to
  <2>1. AfterInsert(w, ended) = [w EXCEPT !.from = w.from + ChunkSize]
    BY <1>4 DEF AfterInsert
  <2>2. AfterInsert(w, ended).step = "writing" /\ NoWork.step = "idle"
    BY <2>1 DEF NoWork, Work
  <2>3. ~(w.to <= w.from + ChunkSize - 1)
    BY <1>1, <1>4 DEF Chunk, Least
  <2>4. w.from + ChunkSize <= w.to /\ Chunk(w) = w.from .. (w.from + ChunkSize - 1)
    BY <1>1, <2>3 DEF Chunk, Least
  <2> QED
    BY <1>1, <1>4, <2>1, <2>2, <2>4 DEF Work, Step
<1> QED
  BY <1>2, <1>3, <1>4

LEMMA ChunkFacts ==
    ASSUME NEW w \in Work, w.from <= w.to
    PROVE  /\ Chunk(w) \subseteq w.from .. w.to /\ Chunk(w) \subseteq Nat
           /\ IsFiniteSet(Chunk(w))
<1>1. w.from \in Nat /\ w.to \in Nat /\ ChunkSize \in Nat /\ ChunkSize > 0
  BY SizesAssumption DEF Work
<1>2. Chunk(w) \subseteq w.from .. w.to
  BY <1>1 DEF Chunk, Least
<1>3. IsFiniteSet(w.from .. w.to)
  BY <1>1, FS_Interval
<1> QED
  BY <1>1, <1>2, <1>3, FS_Subset

-----------------------------------------------------------------------------
(* The keys: the inductive invariant                                       *)

Keys(w) == w.from .. w.to

InUse(v) == sim[v].stage # "off"

\* No write is in flight before the seed, nor when the pool is closed.
AtRest(v) == sim[v].stage \in {"off", "starting", "counting"} => Quiet(v)

\* The counter is ahead of the table from the time it is read back.
KeysAhead(v) == sim[v].stage \in {"counting", "seeding", "on"} => \A k \in table : k < sim[v].next

\* The keys a write has left are the counter's, and in no row yet.
WritesAhead(v) ==
    \A q \in Query : work[v][q].step = "writing" =>
        /\ work[v][q].from <= work[v][q].to /\ work[v][q].to < sim[v].next
        /\ Keys(work[v][q]) \cap table = {}

\* Writes that are in flight together have no key in common.
WritesApart(v) ==
    \A p, q \in Query :
        p # q /\ work[v][p].step = "writing" /\ work[v][q].step = "writing" =>
            Keys(work[v][p]) \cap Keys(work[v][q]) = {}

KeysHold(v) == AtRest(v) /\ KeysAhead(v) /\ WritesAhead(v) /\ WritesApart(v)

OneInUse == \A u, v \in Version : InUse(u) /\ InUse(v) => u = v

KeysInv ==
    /\ TypeOK /\ IsFiniteSet(table)
    /\ OneInUse
    /\ \A v \in Version : KeysHold(v)

\* The premise: the next version starts when the last one is gone.  put() starts
\* a replacement beside the old version; then the counters of the two overlap.
OneAfterAnother == Beside = {"off"}

LEMMA RowsType ==
    ASSUME KeysInv
    PROVE  Rows \in Nat
BY FS_CardinalityType DEF KeysInv, Rows

\* A step of one version, while the others are off: what remains to be shown.
LEMMA OneVersionSteps ==
    ASSUME KeysInv, NEW v \in Version,
           \A u \in Version \ {v} : sim[u].stage = "off" /\ sim'[u] = sim[u] /\ work'[u] = work[u],
           TypeOK', IsFiniteSet(table)', KeysHold(v)'
    PROVE  KeysInv'
<1>1. OneInUse'
  BY DEF OneInUse, InUse
<1>2. ASSUME NEW u \in Version, u # v PROVE KeysHold(u)'
  <2>1. sim'[u].stage = "off" /\ \A q \in Query : work'[u][q].step = "idle"
    BY <1>2 DEF KeysInv, KeysHold, AtRest, Quiet
  <2> QED
    BY <2>1 DEF KeysHold, AtRest, Quiet, KeysAhead, WritesAhead, WritesApart
<1> QED
  BY <1>1, <1>2 DEF KeysInv

\* A version that is in use is alone.
LEMMA OthersAreOff ==
    ASSUME KeysInv, NEW v \in Version, InUse(v) \/ \E q \in Query : work[v][q].step # "idle"
    PROVE  InUse(v) /\ \A u \in Version \ {v} : sim[u].stage = "off"
BY DEF KeysInv, OneInUse, InUse, KeysHold, AtRest, Quiet

\* The fields of a version change, and none of its writes.
LEMMA FieldsChange ==
    ASSUME KeysInv, NEW v \in Version, NEW s \in Sim,
           \A u \in Version \ {v} : sim[u].stage = "off",
           sim' = [sim EXCEPT ![v] = s], work' = work, table' = table, trouble' \in 0 .. MaxTrouble,
           s.stage \in {"off", "starting", "counting"} => Quiet(v),
           s.stage \in {"counting", "seeding", "on"} => \A k \in table : k < s.next,
           Quiet(v) \/ s.next >= sim[v].next
    PROVE  KeysInv'
<1>1. sim \in [Version -> Sim] /\ work \in [Version -> [Query -> Work]] /\ KeysHold(v)
  BY DEF KeysInv, TypeOK
<1>2. sim'[v] = s /\ \A u \in Version \ {v} : sim'[u] = sim[u]
  BY <1>1
<1>3. TypeOK' /\ IsFiniteSet(table)'
  BY <1>1 DEF KeysInv, TypeOK
<1>4. WritesAhead(v)'
  <2> SUFFICES ASSUME NEW q \in Query, work[v][q].step = "writing"
               PROVE  /\ work[v][q].from <= work[v][q].to /\ work[v][q].to < s.next
                      /\ Keys(work[v][q]) \cap table = {}
    BY <1>2 DEF WritesAhead, Keys
  <2>1. sim[v].next \in Nat /\ s.next \in Nat /\ work[v][q].to \in Nat /\ ~Quiet(v)
    BY <1>1 DEF Sim, Work, Quiet
  <2> QED
    BY <1>1, <2>1 DEF KeysHold, WritesAhead
<1>5. AtRest(v)' /\ KeysAhead(v)' /\ WritesApart(v)'
  BY <1>1, <1>2 DEF KeysHold, AtRest, Quiet, KeysAhead, WritesApart, Keys
<1> QED
  BY <1>2, <1>3, <1>4, <1>5, OneVersionSteps DEF KeysHold

\* One write of a version goes on as w, and the table gains the keys of T.
GoesOn(v, q, s, w, T) ==
    /\ \A u \in Version \ {v} : sim[u].stage = "off"
    /\ sim' = [sim EXCEPT ![v] = s] /\ work' = [work EXCEPT ![v][q] = w]
    /\ table' = table \cup T /\ trouble' \in 0 .. MaxTrouble
    /\ s.stage \in {"seeding", "on", "closing"} /\ s.next >= sim[v].next
    /\ s.stage \in {"seeding", "on"} => \A k \in table \cup T : k < s.next
    /\ \A p \in Query \ {q} : work[v][p].step = "writing" => Keys(work[v][p]) \cap T = {}
    /\ w.step = "writing" =>
         /\ w.from <= w.to /\ w.to < s.next /\ Keys(w) \cap (table \cup T) = {}
         /\ \A p \in Query \ {q} : work[v][p].step = "writing" => Keys(work[v][p]) \cap Keys(w) = {}

LEMMA WriteGoesOn ==
    ASSUME KeysInv, NEW v \in Version, NEW q \in Query, NEW s \in Sim, NEW w \in Work,
           NEW T \in SUBSET Nat, IsFiniteSet(T), GoesOn(v, q, s, w, T)
    PROVE  KeysInv'
<1> USE DEF GoesOn
<1>1. /\ sim \in [Version -> Sim] /\ work \in [Version -> [Query -> Work]] /\ KeysHold(v)
      /\ table \subseteq Nat /\ IsFiniteSet(table)
  BY DEF KeysInv, TypeOK
<1>2. sim'[v] = s /\ \A u \in Version \ {v} : sim'[u] = sim[u] /\ work'[u] = work[u]
  BY <1>1
<1>3. work'[v][q] = w /\ \A p \in Query \ {q} : work'[v][p] = work[v][p]
  BY <1>1
<1>4. TypeOK'
  <2>1. sim' \in [Version -> Sim]
    BY <1>1
  <2>2. work' \in [Version -> [Query -> Work]]
    BY <1>1
  <2> QED
    BY <1>1, <2>1, <2>2 DEF TypeOK
<1>5. IsFiniteSet(table)'
  BY <1>1, FS_Union
<1>6. WritesAhead(v)'
  <2> SUFFICES ASSUME NEW p \in Query, work'[v][p].step = "writing"
               PROVE  /\ work'[v][p].from <= work'[v][p].to /\ work'[v][p].to < s.next
                      /\ Keys(work'[v][p]) \cap table' = {}
    BY <1>2 DEF WritesAhead, Keys
  <2>1. CASE p = q
    BY <1>3, <2>1
  <2>2. CASE p # q
    <3>1. work'[v][p] = work[v][p] /\ work[v][p] \in Work
      BY <1>1, <1>3, <2>2
    <3>2. /\ work[v][p].from <= work[v][p].to /\ work[v][p].to < sim[v].next
          /\ Keys(work[v][p]) \cap table = {} /\ Keys(work[v][p]) \cap T = {}
      BY <1>1, <2>2, <3>1 DEF KeysHold, WritesAhead
    <3>3. sim[v].next \in Nat /\ s.next \in Nat /\ work[v][p].to \in Nat
      BY <1>1, <3>1 DEF Sim, Work
    <3> QED
      BY <3>1, <3>2, <3>3
  <2> QED
    BY <2>1, <2>2
<1>7. WritesApart(v)'
  <2> SUFFICES ASSUME NEW p \in Query, NEW r \in Query, p # r,
                      work'[v][p].step = "writing", work'[v][r].step = "writing"
               PROVE  Keys(work'[v][p]) \cap Keys(work'[v][r]) = {}
    BY DEF WritesApart, Keys
  <2>1. CASE p = q
    BY <1>3, <2>1
  <2>2. CASE r = q
    BY <1>3, <2>2
  <2>3. CASE p # q /\ r # q
    BY <1>1, <1>3, <2>3 DEF KeysHold, WritesApart
  <2> QED
    BY <2>1, <2>2, <2>3
<1>8. AtRest(v)' /\ KeysAhead(v)'
  BY <1>2 DEF AtRest, KeysAhead
<1> QED
  BY <1>2, <1>4, <1>5, <1>6, <1>7, <1>8, OneVersionSteps DEF KeysHold

\* A write that begins takes its keys from the counter, and moves it on.
LEMMA WriteBegins ==
    ASSUME KeysInv, NEW v \in Version, NEW q \in Query, NEW s \in Sim, NEW n \in Nat, NEW m \in Sim,
           \A u \in Version \ {v} : sim[u].stage = "off",
           sim[v].stage \in {"counting", "on"}, s.next = sim[v].next,
           sim' = [sim EXCEPT ![v] = m], work' = [work EXCEPT ![v][q] = Writing(s, n)],
           table' = table, trouble' = trouble,
           m.stage \in {"seeding", "on"}, m.next = s.next + Added(s, n)
    PROVE  KeysInv'
<1> DEFINE w == Writing(s, n)
           added == Added(s, n)
<1>1. /\ sim[v] \in Sim /\ KeysHold(v) /\ trouble \in 0 .. MaxTrouble
      /\ table \subseteq Nat /\ work \in [Version -> [Query -> Work]]
  BY DEF KeysInv, TypeOK
<1>2. s.next \in Nat /\ added \in Nat
  BY AddedFits DEF Sim
<1>3. /\ w \in Work
      /\ w.step = "writing" => w.from = s.next /\ w.to = s.next + added - 1 /\ s.next <= s.next + added - 1
  BY WritingFields
<1> HIDE DEF w, added
<1>4. \A k \in table : k \in Nat /\ k < s.next
  BY <1>1 DEF KeysHold, KeysAhead
<1>5. m.next >= sim[v].next /\ \A k \in table : k < m.next
  BY <1>2, <1>4 DEF added
<1>6. ASSUME w.step = "writing"
      PROVE  /\ w.from <= w.to /\ w.to < m.next
             /\ Keys(w) \cap table = {}
             /\ \A p \in Query \ {q} : work[v][p].step = "writing" => Keys(work[v][p]) \cap Keys(w) = {}
  <2>1. w.from <= w.to /\ w.to < m.next /\ w.from = s.next /\ w.from \in Nat /\ w.to \in Nat
    BY <1>2, <1>3, <1>6 DEF added
  <2>2. Keys(w) \cap table = {}
    BY <1>4, <2>1 DEF Keys
  <2>3. ASSUME NEW p \in Query \ {q}, work[v][p].step = "writing"
        PROVE  Keys(work[v][p]) \cap Keys(w) = {}
    <3>1. work[v][p] \in Work /\ work[v][p].to < s.next
      BY <1>1, <2>3 DEF KeysHold, WritesAhead
    <3> QED
      BY <2>1, <3>1 DEF Keys, Work
  <2> QED
    BY <2>1, <2>2, <2>3
<1>7. PICK T \in SUBSET Nat : T = {}
  OBVIOUS
<1>8. table' = table \cup T /\ table \cup T = table /\ IsFiniteSet(T) /\ trouble' \in 0 .. MaxTrouble
  BY <1>1, <1>7, FS_EmptySet
<1>9. \A p \in Query \ {q} : work[v][p].step = "writing" => Keys(work[v][p]) \cap T = {}
  BY <1>7
<1>10. work' = [work EXCEPT ![v][q] = w] /\ w \in Work
  BY <1>3 DEF w
<1>11. m.stage \in {"seeding", "on", "closing"}
  OBVIOUS
<1>12. m.next >= sim[v].next /\ (m.stage \in {"seeding", "on"} => \A k \in table \cup T : k < m.next)
  BY <1>5, <1>8
<1>13. w.step = "writing" =>
         /\ w.from <= w.to /\ w.to < m.next /\ Keys(w) \cap (table \cup T) = {}
         /\ \A p \in Query \ {q} : work[v][p].step = "writing" => Keys(work[v][p]) \cap Keys(w) = {}
  BY <1>6, <1>8
<1>14. GoesOn(v, q, m, w, T)
  BY <1>8, <1>9, <1>10, <1>11, <1>12, <1>13 DEF GoesOn
<1> QED
  BY <1>8, <1>10, <1>14, WriteGoesOn

\* A statement takes effect: its keys were the write's own.
LEMMA ChunkIsNew ==
    ASSUME KeysInv, NEW v \in Version, NEW q \in Query, work[v][q].step = "writing"
    PROVE  /\ work[v][q] \in Work /\ work[v][q].from <= work[v][q].to
           /\ Chunk(work[v][q]) \in SUBSET Nat /\ IsFiniteSet(Chunk(work[v][q]))
           /\ Chunk(work[v][q]) \subseteq Keys(work[v][q])
           /\ Chunk(work[v][q]) \cap table = {}
           /\ sim[v].stage \in {"seeding", "on"} =>
                \A k \in table \cup Chunk(work[v][q]) : k < sim[v].next
           /\ \A p \in Query \ {q} : work[v][p].step = "writing" =>
                Keys(work[v][p]) \cap Chunk(work[v][q]) = {}
<1> DEFINE w == work[v][q]
<1>1. KeysHold(v) /\ w \in Work /\ sim[v] \in Sim
  BY DEF KeysInv, TypeOK
<1>2. w.from <= w.to /\ w.to < sim[v].next /\ Keys(w) \cap table = {}
  BY <1>1 DEF KeysHold, WritesAhead
<1>3. Chunk(w) \subseteq Keys(w) /\ Chunk(w) \subseteq Nat /\ IsFiniteSet(Chunk(w))
  BY <1>1, <1>2, ChunkFacts DEF Keys
<1>4. \A k \in Keys(w) : k < sim[v].next
  BY <1>1, <1>2 DEF Keys, Work, Sim
<1>5. sim[v].stage \in {"seeding", "on"} => \A k \in table : k < sim[v].next
  BY <1>1 DEF KeysHold, KeysAhead
<1>6. \A p \in Query \ {q} : work[v][p].step = "writing" => Keys(work[v][p]) \cap Keys(w) = {}
  BY <1>1 DEF KeysHold, WritesApart
<1> QED
  BY <1>1, <1>2, <1>3, <1>4, <1>5, <1>6

\* A write in flight belongs to a version that seeds, ticks or is being closed.
LEMMA WritesInUse ==
    ASSUME KeysInv, NEW v \in Version, NEW q \in Query, work[v][q].step # "idle"
    PROVE  /\ sim[v] \in Sim /\ sim[v].stage \in {"seeding", "on", "closing"}
           /\ \A u \in Version \ {v} : sim[u].stage = "off"
<1>1. sim[v] \in Sim /\ sim[v].stage \in Stage /\ AtRest(v)
  BY DEF KeysInv, TypeOK, KeysHold, Sim
<1>2. ~Quiet(v)
  BY DEF Quiet
<1> QED
  BY <1>1, <1>2, OthersAreOff DEF AtRest, Stage

-----------------------------------------------------------------------------
(* One lemma for each step                                                 *)

LEMMA KeysStart ==
    ASSUME OneAfterAnother, KeysInv, NEW v \in Version, Start(v)
    PROVE  KeysInv'
<1> DEFINE s == [sim[v] EXCEPT !.stage = "starting"]
<1>1. sim[v] \in Sim /\ AtRest(v) /\ trouble \in 0 .. MaxTrouble
  BY DEF KeysInv, TypeOK, KeysHold
<1>2. s \in Sim /\ s.stage = "starting" /\ sim' = [sim EXCEPT ![v] = s]
  BY <1>1 DEF Start, Sim, Stage
<1>3. Quiet(v) /\ \A u \in Version \ {v} : sim[u].stage = "off"
  BY <1>1 DEF Start, AtRest, OneAfterAnother
<1> HIDE DEF s
<1> QED
  BY <1>1, <1>2, <1>3, FieldsChange DEF Start

LEMMA KeysReadCounters ==
    ASSUME KeysInv, NEW v \in Version, ReadCounters(v)
    PROVE  KeysInv'
<1> DEFINE s == [sim[v] EXCEPT !.stage = "counting", !.next = NextKey]
<1>1. sim[v] \in Sim /\ AtRest(v) /\ trouble \in 0 .. MaxTrouble
  BY DEF KeysInv, TypeOK, KeysHold
<1>2. NextKey \in Nat /\ \A k \in table : k < NextKey
  BY NextKeyIsNew DEF KeysInv, TypeOK
<1>3. s \in Sim /\ s.stage = "counting" /\ s.next = NextKey /\ sim' = [sim EXCEPT ![v] = s]
  BY <1>1, <1>2 DEF ReadCounters, Sim, Stage
<1>4. Quiet(v) /\ \A u \in Version \ {v} : sim[u].stage = "off"
  BY <1>1, OthersAreOff DEF ReadCounters, AtRest, InUse
<1> HIDE DEF s
<1> QED
  BY <1>1, <1>2, <1>3, <1>4, FieldsChange DEF ReadCounters

LEMMA KeysCountAtStart ==
    ASSUME KeysInv, NEW v \in Version, CountAtStart(v)
    PROVE  KeysInv'
<1> DEFINE s == Recorded(sim[v], Rows)
           n == Missing(v, Rows)
<1>1. sim[v] \in Sim /\ sim[v].stage = "counting" /\ Rows \in Nat
  BY RowsType DEF CountAtStart, KeysInv, TypeOK
<1>2. PICK q \in Query : /\ work' = [work EXCEPT ![v][q] = Writing(s, n)]
                         /\ sim' = [sim EXCEPT ![v] = Ready(sim[v], v)]
  BY DEF CountAtStart, Recorded, Ready
<1>3. \A u \in Version \ {v} : sim[u].stage = "off"
  BY <1>1, OthersAreOff DEF InUse
<1>4. s \in Sim /\ n \in Nat /\ s.next = sim[v].next
  BY <1>1, RecordedFields, MissingRows
<1>5. /\ Ready(sim[v], v) \in Sim /\ Ready(sim[v], v).stage \in {"seeding", "on"}
      /\ Ready(sim[v], v).next = s.next + Added(s, n)
  BY <1>1, <1>4, ReadyFields
<1>6. table' = table /\ trouble' = trouble
  BY DEF CountAtStart
<1> HIDE DEF s, n
<1> QED
  BY <1>1, <1>2, <1>3, <1>4, <1>5, <1>6, WriteBegins

LEMMA KeysTick ==
    ASSUME KeysInv, NEW v \in Version, NEW q \in Query, Tick(v, q)
    PROVE  KeysInv'
<1>1. sim[v] \in Sim /\ sim[v].stage = "on" /\ InsertsPerTick \in Nat
  BY SizesAssumption DEF Tick, KeysInv, TypeOK
<1>2. /\ work' = [work EXCEPT ![v][q] = Writing(sim[v], InsertsPerTick)]
      /\ sim' = [sim EXCEPT ![v] = Rendered(sim[v], InsertsPerTick)]
      /\ table' = table /\ trouble' = trouble
  BY DEF Tick
<1>3. \A u \in Version \ {v} : sim[u].stage = "off"
  BY <1>1, OthersAreOff DEF InUse
<1>4. /\ Rendered(sim[v], InsertsPerTick) \in Sim /\ Rendered(sim[v], InsertsPerTick).stage = "on"
      /\ Rendered(sim[v], InsertsPerTick).next = sim[v].next + Added(sim[v], InsertsPerTick)
  BY <1>1, RenderedFields
<1> QED
  BY <1>1, <1>2, <1>3, <1>4, WriteBegins

LEMMA KeysInsert ==
    ASSUME KeysInv, NEW v \in Version, NEW q \in Query, Insert(v, q)
    PROVE  KeysInv'
<1> DEFINE w == work[v][q]
           ended == sim[v].stage = "closing"
           after == AfterInsert(w, ended)
           s == IF after = NoWork THEN Failed(sim[v]) ELSE sim[v]
<1>1. w.step = "writing" /\ trouble' = trouble /\ trouble \in 0 .. MaxTrouble
  BY DEF Insert, KeysInv, TypeOK
<1>2. /\ sim[v] \in Sim /\ sim[v].stage \in {"seeding", "on", "closing"}
      /\ \A u \in Version \ {v} : sim[u].stage = "off"
      /\ KeysHold(v)
  BY <1>1, WritesInUse DEF KeysInv
<1>3. /\ w \in Work /\ w.from <= w.to /\ Chunk(w) \in SUBSET Nat /\ IsFiniteSet(Chunk(w))
      /\ Chunk(w) \subseteq Keys(w) /\ Chunk(w) \cap table = {}
      /\ sim[v].stage \in {"seeding", "on"} => \A k \in table \cup Chunk(w) : k < sim[v].next
      /\ \A p \in Query \ {q} : work[v][p].step = "writing" => Keys(work[v][p]) \cap Chunk(w) = {}
  BY <1>1, ChunkIsNew
<1>4. /\ work' = [work EXCEPT ![v][q] = after] /\ table' = table \cup Chunk(w)
      /\ sim' = [sim EXCEPT ![v] = s]
  BY DEF Insert
<1>5. /\ after \in Work
      /\ after.step = "writing" =>
           /\ after.from = w.from + ChunkSize /\ after.to = w.to /\ w.from + ChunkSize <= w.to
           /\ Chunk(w) = w.from .. (w.from + ChunkSize - 1)
  <2>1. ended \in BOOLEAN
    OBVIOUS
  <2> HIDE DEF ended
  <2> QED
    BY <1>1, <1>3, <2>1, AfterInsertFields
<1>6. s \in Sim /\ s.next = sim[v].next /\ s.stage \in {"seeding", "on", "closing"}
      /\ s.next >= sim[v].next /\ (s.stage \in {"seeding", "on"} => sim[v].stage \in {"seeding", "on"})
  BY <1>2, FailedFields DEF Sim
<1>7. w.to < sim[v].next /\ Keys(w) \cap table = {}
      /\ \A p \in Query \ {q} : work[v][p].step = "writing" => Keys(work[v][p]) \cap Keys(w) = {}
  BY <1>1, <1>2 DEF KeysHold, WritesAhead, WritesApart
<1> HIDE DEF w, after, s
<1>8. ASSUME after.step = "writing"
      PROVE  /\ after.from <= after.to /\ after.to < s.next /\ Keys(after) \cap (table \cup Chunk(w)) = {}
             /\ \A p \in Query \ {q} : work[v][p].step = "writing" => Keys(work[v][p]) \cap Keys(after) = {}
  <2>1. w.from \in Nat /\ w.to \in Nat /\ ChunkSize \in Nat /\ ChunkSize > 0
    BY <1>3, SizesAssumption DEF Work
  <2>2. Keys(after) \subseteq Keys(w) /\ Keys(after) \cap Chunk(w) = {}
    BY <1>5, <1>8, <2>1 DEF Keys
  <2> QED
    BY <1>5, <1>6, <1>7, <1>8, <2>2
<1>9. s.stage \in {"seeding", "on"} => \A k \in table \cup Chunk(w) : k < s.next
  BY <1>3, <1>6
<1>10. trouble' \in 0 .. MaxTrouble
  BY <1>1
<1>11. GoesOn(v, q, s, after, Chunk(w))
  BY <1>2, <1>3, <1>4, <1>6, <1>8, <1>9, <1>10 DEF GoesOn
<1> QED
  BY <1>3, <1>5, <1>6, <1>11, WriteGoesOn

\* The count after a write is asked for, or is answered.
LEMMA KeysCount ==
    ASSUME KeysInv, NEW v \in Version, NEW q \in Query, CountRows(v, q) \/ Counted(v, q)
    PROVE  KeysInv'
<1>1. work[v][q].step \in {"counting", "counted"}
  BY DEF CountRows, Counted
<1>2. /\ sim[v] \in Sim /\ sim[v].stage \in {"seeding", "on", "closing"}
      /\ \A u \in Version \ {v} : sim[u].stage = "off"
      /\ KeysHold(v) /\ work[v][q] \in Work
      /\ table' = table \cup {} /\ IsFiniteSet({}) /\ trouble' \in 0 .. MaxTrouble /\ Rows \in Nat
  BY <1>1, WritesInUse, RowsType, FS_EmptySet DEF KeysInv, TypeOK, CountRows, Counted
<1>3. PICK w \in Work : w.step # "writing" /\ work' = [work EXCEPT ![v][q] = w]
  <2>1. CASE CountRows(v, q)
    <3> DEFINE w == [work[v][q] EXCEPT !.step = "counted", !.seen = Rows]
    <3>1. w \in Work /\ w.step = "counted"
      BY <1>2 DEF Work, Step
    <3>2. work' = [work EXCEPT ![v][q] = w]
      BY <2>1 DEF CountRows
    <3> HIDE DEF w
    <3> QED
      BY <3>1, <3>2
  <2>2. CASE Counted(v, q)
    BY <2>2 DEF Counted, NoWork, Work, Step
  <2> QED
    BY <2>1, <2>2
<1>4. PICK s \in Sim : /\ sim' = [sim EXCEPT ![v] = s]
                       /\ s.stage = sim[v].stage \/ (s.stage = "on" /\ sim[v].stage = "seeding")
                       /\ s.next = sim[v].next
  <2>1. CASE CountRows(v, q)
    <3>1. sim' = [sim EXCEPT ![v] = sim[v]]
      BY <2>1 DEF CountRows, KeysInv, TypeOK
    <3> QED
      BY <1>2, <3>1
  <2>2. CASE Counted(v, q)
    <3> DEFINE s == SetOn(Recorded(sim[v], work[v][q].seen))
    <3>1. sim' = [sim EXCEPT ![v] = s]
      BY <2>2 DEF Counted
    <3>2. work[v][q].seen \in Nat
      BY <1>2 DEF Work
    <3>3. s \in Sim /\ s.stage = (IF sim[v].stage = "seeding" THEN "on" ELSE sim[v].stage) /\ s.next = sim[v].next
      BY <1>2, <3>2, CountedFields
    <3> HIDE DEF s
    <3> QED
      BY <3>1, <3>3
  <2> QED
    BY <2>1, <2>2
<1>5. s.stage \in {"seeding", "on", "closing"} /\ s.next >= sim[v].next
  BY <1>2, <1>4 DEF Sim
<1>6. s.stage \in {"seeding", "on"} => \A k \in table \cup {} : k < s.next
  BY <1>2, <1>4 DEF KeysHold, KeysAhead
<1>7. \A p \in Query \ {q} : work[v][p].step = "writing" => Keys(work[v][p]) \cap {} = {}
  OBVIOUS
<1>8. {} \in SUBSET Nat
  OBVIOUS
<1>9. GoesOn(v, q, s, w, {})
  BY <1>2, <1>3, <1>4, <1>5, <1>6, <1>7 DEF GoesOn
<1> QED
  BY <1>2, <1>8, <1>9, WriteGoesOn

LEMMA KeysQueryFails ==
    ASSUME KeysInv, NEW v \in Version, NEW q \in Query, QueryFails(v, q)
    PROVE  KeysInv'
<1> DEFINE s == Failed(sim[v])
<1>1. work[v][q].step # "idle" /\ trouble' \in 0 .. MaxTrouble
  BY SizesAssumption DEF QueryFails, KeysInv, TypeOK
<1>2. /\ sim[v] \in Sim /\ sim[v].stage \in {"seeding", "on", "closing"}
      /\ \A u \in Version \ {v} : sim[u].stage = "off"
      /\ KeysHold(v)
  BY <1>1, WritesInUse DEF KeysInv
<1>3. NoWork \in Work /\ NoWork.step # "writing" /\ work' = [work EXCEPT ![v][q] = NoWork]
  BY DEF QueryFails, NoWork, Work, Step
<1>4. s \in Sim /\ s.next = sim[v].next /\ s.stage \in {"seeding", "on", "closing"}
      /\ s.next >= sim[v].next /\ (s.stage \in {"seeding", "on"} => sim[v].stage \in {"seeding", "on"})
  BY <1>2, FailedFields DEF Sim
<1>5. sim' = [sim EXCEPT ![v] = s]
  BY DEF QueryFails
<1>6. PICK T \in SUBSET Nat :
        /\ IsFiniteSet(T) /\ table' = table \cup T
        /\ sim[v].stage \in {"seeding", "on"} => \A k \in table \cup T : k < sim[v].next
        /\ \A p \in Query \ {q} : work[v][p].step = "writing" => Keys(work[v][p]) \cap T = {}
  <2>1. CASE table' = table
    <3>1. table' = table \cup {} /\ IsFiniteSet({}) /\ {} \in SUBSET Nat
      BY <2>1, FS_EmptySet
    <3>2. sim[v].stage \in {"seeding", "on"} => \A k \in table \cup {} : k < sim[v].next
      BY <1>2 DEF KeysHold, KeysAhead
    <3> QED
      BY <3>1, <3>2
  <2>2. CASE work[v][q].step = "writing" /\ table' = table \cup Chunk(work[v][q])
    BY <2>2, ChunkIsNew
  <2> QED
    BY <2>1, <2>2 DEF QueryFails
<1> HIDE DEF s
<1>7. s.stage \in {"seeding", "on"} => \A k \in table \cup T : k < s.next
  BY <1>4, <1>6
<1>8. GoesOn(v, q, s, NoWork, T)
  BY <1>1, <1>2, <1>3, <1>4, <1>5, <1>6, <1>7 DEF GoesOn
<1> QED
  BY <1>3, <1>4, <1>6, <1>8, WriteGoesOn

\* The steps that change the fields of a version alone.
LEMMA KeysFields ==
    ASSUME KeysInv, NEW v \in Version, StartFails(v) \/ Sample(v) \/ Stop(v) \/ Closed(v)
    PROVE  KeysInv'
<1>1. /\ sim[v] \in Sim /\ KeysHold(v) /\ table \subseteq Nat
      /\ table' = table /\ work' = work /\ trouble' \in 0 .. MaxTrouble
  BY SizesAssumption DEF KeysInv, TypeOK, StartFails, Sample, Stop, Closed
<1>2. \A u \in Version \ {v} : sim[u].stage = "off"
  <2>1. InUse(v)
    BY DEF InUse, StartFails, Sample, Stop, Closed
  <2> QED
    BY <2>1, OthersAreOff
<1>3. PICK s \in Sim : /\ sim' = [sim EXCEPT ![v] = s]
                       /\ s.stage \in {"off", "starting", "counting"} => Quiet(v)
                       /\ s.stage \in {"counting", "seeding", "on"} => sim[v].stage \in {"counting", "seeding", "on"}
                       /\ s.next >= sim[v].next
  <2>1. CASE StartFails(v) \/ Stop(v)
    <3> DEFINE s == [sim[v] EXCEPT !.stage = "closing"]
    <3>1. s \in Sim /\ s.stage = "closing" /\ s.next >= sim[v].next
      BY <1>1 DEF Sim, Stage
    <3>2. sim' = [sim EXCEPT ![v] = s]
      BY <2>1 DEF StartFails, Stop
    <3> HIDE DEF s
    <3> QED
      BY <3>1, <3>2
  <2>2. CASE Sample(v)
    <3> DEFINE s == [sim[v] EXCEPT !.next = sim[v].next + 1]
    <3>1. s \in Sim /\ s.stage = "on" /\ sim[v].stage = "on" /\ s.next >= sim[v].next
      BY <1>1, <2>2 DEF Sim, Stage, Sample
    <3>2. sim' = [sim EXCEPT ![v] = s]
      BY <2>2 DEF Sample
    <3> HIDE DEF s
    <3> QED
      BY <3>1, <3>2
  <2>3. CASE Closed(v)
    <3> DEFINE s == [sim[v] EXCEPT !.stage = "off"]
    <3>1. s \in Sim /\ s.stage = "off" /\ Quiet(v) /\ s.next >= sim[v].next
      BY <1>1, <2>3 DEF Sim, Stage, Closed
    <3>2. sim' = [sim EXCEPT ![v] = s]
      BY <2>3 DEF Closed
    <3> HIDE DEF s
    <3> QED
      BY <3>1, <3>2
  <2> QED
    BY <2>1, <2>2, <2>3
<1>4. s.stage \in {"counting", "seeding", "on"} => \A k \in table : k < s.next
  <2> SUFFICES ASSUME s.stage \in {"counting", "seeding", "on"}, NEW k \in table PROVE k < s.next
    OBVIOUS
  <2>1. k \in Nat /\ k < sim[v].next /\ s.next >= sim[v].next
    BY <1>1, <1>3 DEF KeysHold, KeysAhead
  <2> QED
    BY <1>1, <2>1 DEF Sim
<1> QED
  BY <1>1, <1>2, <1>3, <1>4, FieldsChange

LEMMA UnusedTypes == Unused \in Sim /\ Unused.stage = "off" /\ NoWork \in Work /\ NoWork.step = "idle"
BY DEF Unused, Sim, Stage, NoWork, Work, Step

LEMMA KeysCrash ==
    ASSUME KeysInv, Crash
    PROVE  KeysInv'
<1>1. /\ sim' = [v \in Version |-> Unused] /\ work' = [v \in Version |-> [q \in Query |-> NoWork]]
      /\ table' = table /\ trouble' \in 0 .. MaxTrouble
  BY SizesAssumption DEF Crash, KeysInv, TypeOK
<1>2. TypeOK' /\ IsFiniteSet(table)'
  BY <1>1, UnusedTypes DEF KeysInv, TypeOK
<1>3. \A v \in Version : sim'[v].stage = "off" /\ \A q \in Query : work'[v][q].step = "idle"
  BY <1>1, UnusedTypes
<1>4. OneInUse' /\ \A v \in Version : KeysHold(v)'
  BY <1>3 DEF OneInUse, InUse, KeysHold, AtRest, Quiet, KeysAhead, WritesAhead, WritesApart
<1> QED
  BY <1>2, <1>4 DEF KeysInv

LEMMA KeysInit == Init => KeysInv
<1> SUFFICES ASSUME Init PROVE KeysInv
  OBVIOUS
<1>1. TypeOK /\ IsFiniteSet(table)
  BY UnusedTypes, TableAssumption, SizesAssumption DEF Init, TypeOK
<1>2. \A v \in Version : sim[v].stage = "off" /\ \A q \in Query : work[v][q].step = "idle"
  BY UnusedTypes DEF Init
<1>3. OneInUse /\ \A v \in Version : KeysHold(v)
  BY <1>2 DEF OneInUse, InUse, KeysHold, AtRest, Quiet, KeysAhead, WritesAhead, WritesApart
<1> QED
  BY <1>1, <1>3 DEF KeysInv

LEMMA KeysNext ==
    ASSUME OneAfterAnother
    PROVE  KeysInv /\ [Next]_vars => KeysInv'
<1> SUFFICES ASSUME KeysInv, [Next]_vars PROVE KeysInv'
  OBVIOUS
<1>1. ASSUME NEW v \in Version, Start(v) \/ Runs(v) \/ StartFails(v) \/ Sample(v) \/ Stop(v)
      PROVE  KeysInv'
  <2>1. ASSUME NEW q \in Query, Tick(v, q) \/ Insert(v, q) \/ CountRows(v, q) \/ Counted(v, q)
        PROVE  KeysInv'
    BY <2>1, KeysTick, KeysInsert, KeysCount
  <2> QED
    BY <1>1, <2>1, KeysStart, KeysReadCounters, KeysCountAtStart, KeysFields DEF Runs
<1>2. ASSUME NEW v \in Version, NEW q \in Query, QueryFails(v, q) PROVE KeysInv'
  BY <1>2, KeysQueryFails
<1>3. CASE Crash
  BY <1>3, KeysCrash
<1>4. CASE UNCHANGED vars
  BY <1>4 DEF vars, KeysInv, TypeOK, OneInUse, InUse, KeysHold, AtRest, Quiet, KeysAhead, WritesAhead,
              WritesApart, Keys
<1> QED
  BY <1>1, <1>2, <1>3, <1>4 DEF Next

LEMMA KeysInductive ==
    ASSUME OneAfterAnother
    PROVE  Spec => []KeysInv
BY KeysInit, KeysNext, PTL DEF Spec

\* "Mints unique keys": no statement overwrites a row, over restarts, crashes,
\* failed writes and samples, however many ticks are in flight.
THEOREM KeysAreUnique ==
    ASSUME OneAfterAnother
    PROVE  Spec => NothingOverwritten
<1> DEFINE Fresh == \A v \in Version, q \in Query :
                      Insert(v, q) => Chunk(work[v][q]) \cap table = {}
<1>1. KeysInv => Fresh
  <2> SUFFICES ASSUME KeysInv, NEW v \in Version, NEW q \in Query, Insert(v, q)
               PROVE  Chunk(work[v][q]) \cap table = {}
    OBVIOUS
  <2>1. work[v][q].step = "writing"
    BY DEF Insert
  <2> QED
    BY <2>1, ChunkIsNew
<1>2. KeysInv => [Fresh]_vars
  BY <1>1
<1> QED
  BY <1>2, KeysInductive, PTL DEF NothingOverwritten, Spec

-----------------------------------------------------------------------------
(* The number of rows: the inductive invariant                             *)

Length(w) == w.to - w.from + 1

Writes(v, q) == work[v][q].step = "writing"

\* A version has one write at a time.
OneWrite(v) ==
    \A p, q \in Query : work[v][p].step # "idle" /\ work[v][q].step # "idle" => p = q

\* What a write has left still fits into the table.
WriteFits(v) == \A q \in Query : Writes(v, q) => Rows + Length(work[v][q]) <= MaxRows

\* A tick is one statement, so that it is applied and counted, or not applied.
OneStatement(v) ==
    sim[v].stage = "on" => \A q \in Query : Writes(v, q) => Length(work[v][q]) <= ChunkSize

\* A count that is on its way back is still true.
SeenIsTrue(v) ==
    sim[v].stage # "closing" =>
        \A q \in Query : work[v][q].step = "counted" => work[v][q].seen = Rows

\* A running version knows the number of rows, but for what it just added.
KnowsRows(v) ==
    sim[v].stage = "on" /\ (\A q \in Query : work[v][q].step \in {"idle", "writing"}) =>
        sim[v].rowCount = Rows /\ sim[v].atCap = (Rows >= MaxRows)

CountsHold(v) ==
    OneWrite(v) /\ WriteFits(v) /\ OneStatement(v) /\ SeenIsTrue(v) /\ KnowsRows(v)

CountsInv == UpToMaxRows /\ \A v \in Version : CountsHold(v)

\* The premises: one version after another, and ticks one after another; then no
\* write that takes effect and is not counted, and a tick that fits into one
\* statement.  Without them the limit may be exceeded (OvershootIsBounded says by
\* how much).
OneByOne == OneAfterAnother /\ ~Overlap
AllCounted == OneByOne /\ ~Uncounted /\ InsertsPerTick <= ChunkSize

\* A version that is off has nothing to be held to.
LEMMA OffHolds ==
    ASSUME NEW v \in Version, sim[v].stage = "off", Quiet(v)
    PROVE  CountsHold(v)
BY DEF CountsHold, OneWrite, WriteFits, OneStatement, SeenIsTrue, KnowsRows, Quiet, Writes

LEMMA OneVersionCounts ==
    ASSUME KeysInv, CountsInv, NEW v \in Version,
           \A u \in Version \ {v} : sim[u].stage = "off" /\ sim'[u] = sim[u] /\ work'[u] = work[u],
           UpToMaxRows', CountsHold(v)'
    PROVE  CountsInv'
<1>1. ASSUME NEW u \in Version, u # v PROVE CountsHold(u)'
  <2>1. sim'[u].stage = "off" /\ \A q \in Query : work'[u][q].step = "idle"
    BY <1>1 DEF KeysInv, KeysHold, AtRest, Quiet
  <2> QED
    BY <2>1 DEF CountsHold, OneWrite, WriteFits, OneStatement, SeenIsTrue, KnowsRows, Quiet, Writes
<1> QED
  BY <1>1 DEF CountsInv

\* The limit and the rows a version wants, as numbers.
LEMMA Limits ==
    ASSUME NEW v \in Version
    PROVE  /\ MaxRows \in Nat /\ Wanted(v) \in Nat /\ Least(MaxRows, Wanted(v)) \in Nat
           /\ Least(MaxRows, Wanted(v)) <= MaxRows /\ Least(MaxRows, Wanted(v)) <= Wanted(v)
BY SizesAssumption, MissingRows DEF Least

LEMMA ChunkCount ==
    ASSUME KeysInv, NEW v \in Version, NEW q \in Query, Writes(v, q), table' = table \cup Chunk(work[v][q])
    PROVE  \E n \in Nat : /\ Rows' = Rows + n /\ n <= Length(work[v][q])
                          /\ Chunk(work[v][q]) = work[v][q].from .. work[v][q].to => n = Length(work[v][q])
                          /\ work[v][q].from + ChunkSize <= work[v][q].to => n = ChunkSize
<1> DEFINE w == work[v][q]
<1>1. /\ w \in Work /\ w.from <= w.to /\ IsFiniteSet(Chunk(w)) /\ Chunk(w) \cap table = {}
  BY ChunkIsNew DEF Writes
<1>2. w.from \in Nat /\ w.to \in Nat /\ ChunkSize \in Nat /\ ChunkSize > 0
  BY <1>1, SizesAssumption DEF Work
<1> HIDE DEF w
<1>3. IsFiniteSet(table)
  BY DEF KeysInv
<1>4. table \cap Chunk(w) = {}
  BY <1>1
<1>5. Cardinality(table \cup Chunk(w)) = Cardinality(table) + Cardinality(Chunk(w)) - Cardinality({})
  BY <1>1, <1>3, <1>4, FS_Union
<1>6. /\ Cardinality({}) = 0 /\ Cardinality(table) \in Nat /\ Cardinality(Chunk(w)) \in Nat
  BY <1>1, <1>3, FS_EmptySet, FS_CardinalityType
<1>7. Rows' = Rows + Cardinality(Chunk(w))
  BY <1>5, <1>6 DEF Rows, w
<1> DEFINE last == Least(w.to, w.from + ChunkSize - 1)
<1>8. /\ last \in Nat /\ w.from <= last /\ last <= w.to
      /\ w.from + ChunkSize <= w.to => last = w.from + ChunkSize - 1
  BY <1>1, <1>2 DEF Least
<1>9. Chunk(w) = w.from .. last
  BY DEF Chunk
<1> HIDE DEF last
<1>10. Cardinality(Chunk(w)) = last - w.from + 1
  <2>1. w.from \in Int /\ last \in Int /\ ~(w.from > last)
    BY <1>2, <1>8
  <2>2. Cardinality(w.from .. last) = IF w.from > last THEN 0 ELSE last - w.from + 1
    BY <2>1, FS_Interval
  <2> QED
    BY <1>9, <2>1, <2>2
<1>11. Chunk(w) = w.from .. w.to => last = w.to
  <2> SUFFICES ASSUME w.from .. last = w.from .. w.to PROVE last = w.to
    BY <1>9
  <2>1. w.to \in w.from .. w.to
    BY <1>1, <1>2
  <2>2. w.to \in w.from .. last
    BY <2>1
  <2> QED
    BY <1>2, <1>8, <2>2
<1>12. /\ Cardinality(Chunk(w)) <= Length(w)
       /\ Chunk(w) = w.from .. w.to => Cardinality(Chunk(w)) = Length(w)
       /\ w.from + ChunkSize <= w.to => Cardinality(Chunk(w)) = ChunkSize
  BY <1>2, <1>8, <1>10, <1>11 DEF Length
<1> QED
  BY <1>6, <1>7, <1>12 DEF w

\* No other write is in flight.
LEMMA OnlyWrite ==
    ASSUME NEW v \in Version, NEW q \in Query, OneWrite(v), work[v][q].step # "idle"
    PROVE  \A p \in Query \ {q} : work[v][p].step = "idle"
BY DEF OneWrite

\* The write of a version goes on as w, and the fields of the version are s.
CountsOn(v, q, s, w) ==
    /\ \A u \in Version \ {v} : sim[u].stage = "off"
    /\ sim' = [sim EXCEPT ![v] = s] /\ work' = [work EXCEPT ![v][q] = w]
    /\ \A p \in Query \ {q} : work[v][p].step = "idle"
    /\ w.step = "writing" => Rows' + Length(w) <= MaxRows /\ (s.stage = "on" => Length(w) <= ChunkSize)
    /\ s.stage # "closing" /\ w.step = "counted" => w.seen = Rows'
    /\ s.stage = "on" /\ w.step \in {"idle", "writing"} =>
         s.rowCount = Rows' /\ s.atCap = (Rows' >= MaxRows)

LEMMA CountsGoOn ==
    ASSUME KeysInv, CountsInv, UpToMaxRows', NEW v \in Version, NEW q \in Query,
           NEW s \in Sim, NEW w \in Work, CountsOn(v, q, s, w)
    PROVE  CountsInv'
<1>1. sim \in [Version -> Sim] /\ work \in [Version -> [Query -> Work]]
  BY DEF KeysInv, TypeOK
<1>2. sim'[v] = s /\ \A u \in Version \ {v} : sim[u].stage = "off" /\ sim'[u] = sim[u] /\ work'[u] = work[u]
  BY <1>1 DEF CountsOn
<1>3. work'[v][q] = w /\ \A p \in Query \ {q} : work'[v][p] = work[v][p] /\ work'[v][p].step = "idle"
  BY <1>1 DEF CountsOn
<1>4. \A p \in Query : work'[v][p].step # "idle" => p = q /\ work'[v][p] = w
  BY <1>3
<1>5. OneWrite(v)'
  BY <1>4 DEF OneWrite
<1>6. WriteFits(v)' /\ OneStatement(v)'
  <2> SUFFICES ASSUME NEW p \in Query, work'[v][p].step = "writing"
               PROVE  Rows' + Length(work'[v][p]) <= MaxRows /\ (s.stage = "on" => Length(work'[v][p]) <= ChunkSize)
    BY <1>2 DEF WriteFits, OneStatement, Writes, Length
  <2>1. work'[v][p] = w
    BY <1>4
  <2> QED
    BY <2>1 DEF CountsOn
<1>8. SeenIsTrue(v)'
  BY <1>2, <1>4 DEF SeenIsTrue, CountsOn
<1>9. KnowsRows(v)'
  <2> SUFFICES ASSUME s.stage = "on", w.step \in {"idle", "writing"}
               PROVE  s.rowCount = Rows' /\ s.atCap = (Rows' >= MaxRows)
    BY <1>2, <1>3 DEF KnowsRows
  <2> QED
    BY DEF CountsOn
<1> QED
  BY <1>2, <1>5, <1>6, <1>8, <1>9, OneVersionCounts DEF CountsHold

\* A step that leaves the table alone leaves its rows within the limit.
LEMMA SameTable ==
    ASSUME CountsInv, table' = table
    PROVE  UpToMaxRows' /\ Rows' = Rows
BY DEF CountsInv, UpToMaxRows, Rows

-----------------------------------------------------------------------------
(* One lemma for each step                                                 *)

\* A write that begins is as long as there is room, by a count that is true.
LEMMA BeginsWithin ==
    ASSUME NEW s \in Sim, NEW n \in Nat, NEW w \in Work, w = Writing(s, n), w.step = "writing"
    PROVE  Length(w) = Added(s, n) /\ s.rowCount + Length(w) <= MaxRows /\ Length(w) <= n
<1>1. /\ Room(s) \in Nat /\ Added(s, n) \in Nat /\ Added(s, n) <= n /\ Added(s, n) <= Room(s)
      /\ Room(s) # 0 => s.rowCount + Room(s) = MaxRows
  BY AddedFits
<1>2. w.from = s.next /\ w.to = s.next + Added(s, n) - 1 /\ Added(s, n) # 0
  BY WritingFields
<1>3. s.next \in Nat /\ s.rowCount \in Nat
  BY DEF Sim
<1>4. Length(w) = Added(s, n)
  BY <1>1, <1>2, <1>3 DEF Length
<1> QED
  BY <1>1, <1>2, <1>3, <1>4, SizesAssumption

\* The rows are counted: what is missing, as far as there is room, is to be written.
LEMMA StartWrites ==
    ASSUME KeysInv, NEW v \in Version, CountAtStart(v)
    PROVE  /\ Quiet(v) /\ \A u \in Version \ {v} : sim[u].stage = "off"
           /\ table' = table
           /\ \E q \in Query, w \in Work, s \in Sim :
                /\ work' = [work EXCEPT ![v][q] = w] /\ sim' = [sim EXCEPT ![v] = s]
                /\ s.rowCount = Rows /\ s.atCap = (Rows >= MaxRows)
                /\ s.stage = IF w.step = "idle" THEN "on" ELSE "seeding"
                /\ w.step \in {"idle", "writing"}
                /\ w.step = "idle" => Rows >= Least(MaxRows, Wanted(v))
                /\ w.step = "writing" =>
                     Rows + Length(w) <= MaxRows /\ Rows + Length(w) >= Least(MaxRows, Wanted(v))
<1> DEFINE s == Recorded(sim[v], Rows)
           n == Missing(v, Rows)
           m == Ready(sim[v], v)
<1>1. sim[v] \in Sim /\ sim[v].stage = "counting" /\ Rows \in Nat /\ table' = table
  BY RowsType DEF CountAtStart, KeysInv, TypeOK
<1>2. Quiet(v) /\ \A u \in Version \ {v} : sim[u].stage = "off"
  BY <1>1, OthersAreOff DEF InUse, KeysInv, KeysHold, AtRest
<1>3. s \in Sim /\ s.rowCount = Rows /\ n \in Nat /\ n = IF Rows < Wanted(v) THEN Wanted(v) - Rows ELSE 0
  BY <1>1, RecordedFields, MissingRows
<1>4. PICK q \in Query, w \in Work :
        w = Writing(s, n) /\ work' = [work EXCEPT ![v][q] = w] /\ sim' = [sim EXCEPT ![v] = m]
  BY <1>3, WritingFields DEF CountAtStart, Recorded, Ready
<1>5. /\ m \in Sim /\ m.rowCount = Rows /\ m.atCap = (Rows >= MaxRows)
      /\ m.stage = IF Added(s, n) = 0 THEN "on" ELSE "seeding"
  BY <1>1, ReadyFields
<1>6. w.step \in {"idle", "writing"} /\ (w.step = "idle" <=> Added(s, n) = 0)
  BY <1>3, <1>4, WritingFields
<1>7. /\ MaxRows \in Nat /\ Wanted(v) \in Nat /\ Least(MaxRows, Wanted(v)) \in Nat
      /\ Least(MaxRows, Wanted(v)) <= MaxRows /\ Least(MaxRows, Wanted(v)) <= Wanted(v)
  BY Limits
<1>8. /\ Added(s, n) \in Nat
      /\ Added(s, n) = n \/ Added(s, n) = Room(s)
      /\ Room(s) # 0 => Rows + Room(s) = MaxRows
      /\ Room(s) = 0 <=> Rows >= MaxRows
  BY <1>3, AddedFits
<1>9. w.step = "idle" => Rows >= Least(MaxRows, Wanted(v))
  <2> HIDE DEF n, s
  <2> QED
    BY <1>1, <1>3, <1>6, <1>7, <1>8
<1>10. ASSUME w.step = "writing"
       PROVE  Rows + Length(w) <= MaxRows /\ Rows + Length(w) >= Least(MaxRows, Wanted(v))
  <2>1. Length(w) = Added(s, n) /\ Rows + Length(w) <= MaxRows
    BY <1>3, <1>4, <1>10, BeginsWithin
  <2> HIDE DEF n, s
  <2> QED
    BY <1>1, <1>3, <1>6, <1>7, <1>8, <1>10, <2>1
<1>11. m.stage = IF w.step = "idle" THEN "on" ELSE "seeding"
  BY <1>5, <1>6
<1> HIDE DEF s, n, m
<1> QED
  BY <1>1, <1>2, <1>4, <1>5, <1>6, <1>9, <1>10, <1>11

LEMMA CountsCountAtStart ==
    ASSUME KeysInv, CountsInv, NEW v \in Version, CountAtStart(v)
    PROVE  CountsInv'
<1>1. Quiet(v) /\ table' = table /\ \A u \in Version \ {v} : sim[u].stage = "off"
  BY StartWrites
<1>2. PICK q \in Query, w \in Work, s \in Sim :
        /\ work' = [work EXCEPT ![v][q] = w] /\ sim' = [sim EXCEPT ![v] = s]
        /\ s.rowCount = Rows /\ s.atCap = (Rows >= MaxRows)
        /\ s.stage = IF w.step = "idle" THEN "on" ELSE "seeding"
        /\ w.step \in {"idle", "writing"}
        /\ w.step = "writing" => Rows + Length(w) <= MaxRows
  BY StartWrites
<1>3. UpToMaxRows' /\ Rows' = Rows
  BY <1>1, SameTable
<1>4. CountsOn(v, q, s, w)
  BY <1>1, <1>2, <1>3 DEF CountsOn, Quiet
<1> QED
  BY <1>3, <1>4, CountsGoOn

LEMMA CountsTick ==
    ASSUME AllCounted, KeysInv, CountsInv, NEW v \in Version, NEW q \in Query, Tick(v, q)
    PROVE  CountsInv'
<1> DEFINE s == sim[v]
           m == Rendered(s, InsertsPerTick)
<1>1. s \in Sim /\ s.stage = "on" /\ Rows \in Nat /\ UpToMaxRows' /\ Rows' = Rows /\ InsertsPerTick \in Nat
  BY RowsType, SameTable, SizesAssumption DEF Tick, KeysInv, TypeOK
<1>2. Quiet(v) /\ \A u \in Version \ {v} : sim[u].stage = "off"
  BY <1>1, OthersAreOff DEF InUse, Tick, AllCounted, OneByOne
<1>3. s.rowCount = Rows /\ s.atCap = (Rows >= MaxRows)
  BY <1>1, <1>2 DEF CountsInv, CountsHold, KnowsRows, Quiet
<1>4. PICK w \in Work :
        w = Writing(s, InsertsPerTick) /\ work' = [work EXCEPT ![v][q] = w] /\ sim' = [sim EXCEPT ![v] = m]
  BY <1>1, WritingFields DEF Tick
<1>5. m \in Sim /\ m.rowCount = Rows /\ m.atCap = (Room(s) = 0) /\ m.stage = "on"
  BY <1>1, <1>3, RenderedFields
<1>6. (Room(s) = 0) = (Rows >= MaxRows)
  BY <1>1, <1>3, AddedFits
<1>7. m.atCap = (Rows >= MaxRows)
  BY <1>5, <1>6, Zenon
<1>8. w.step \in {"idle", "writing"}
  BY <1>1, <1>4, WritingFields
<1>9. ASSUME w.step = "writing" PROVE Rows + Length(w) <= MaxRows /\ Length(w) <= ChunkSize
  <2>1. Rows + Length(w) <= MaxRows /\ Length(w) <= InsertsPerTick
    BY <1>1, <1>3, <1>4, <1>9, BeginsWithin
  <2>2. Length(w) \in Int /\ InsertsPerTick <= ChunkSize /\ ChunkSize \in Nat
    BY SizesAssumption DEF AllCounted, Length, Work
  <2> QED
    BY <1>1, <2>1, <2>2
<1> HIDE DEF s, m
<1>10. CountsOn(v, q, m, w)
  BY <1>1, <1>2, <1>4, <1>5, <1>7, <1>8, <1>9 DEF CountsOn, Quiet
<1> QED
  BY <1>1, <1>4, <1>5, <1>10, CountsGoOn

\* A statement is applied: its rows are there, and the rest is as much less.
LEMMA InsertWrites ==
    ASSUME KeysInv, NEW v \in Version, NEW q \in Query, Insert(v, q)
    PROVE  /\ \A u \in Version \ {v} : sim[u].stage = "off"
           /\ work[v][q].step = "writing" /\ sim[v].stage \in {"seeding", "on", "closing"}
           /\ Length(work[v][q]) \in Nat /\ Rows \in Nat /\ Rows' \in Nat
           /\ Rows' <= Rows + Length(work[v][q])
           /\ \E w \in Work, s \in Sim :
                /\ work' = [work EXCEPT ![v][q] = w] /\ sim' = [sim EXCEPT ![v] = s]
                /\ s.stage = sim[v].stage /\ (s.stage # "closing" => s = sim[v])
                /\ w.step \in {"idle", "counting", "writing"}
                /\ w.step = "idle" <=> s.stage = "closing"
                /\ w.step = "counting" => Rows' = Rows + Length(work[v][q])
                /\ w.step = "writing" =>
                     Rows' + Length(w) = Rows + Length(work[v][q]) /\ Length(work[v][q]) > ChunkSize
<1> DEFINE s == sim[v]
           w == work[v][q]
           ended == s.stage = "closing"
           after == AfterInsert(w, ended)
           m == IF after = NoWork THEN Failed(s) ELSE s
<1>1. w.step = "writing" /\ Writes(v, q) /\ table' = table \cup Chunk(w) /\ Rows \in Nat
  BY RowsType DEF Insert, Writes
<1>2. /\ s \in Sim /\ s.stage \in {"seeding", "on", "closing"}
      /\ \A u \in Version \ {v} : sim[u].stage = "off"
      /\ w \in Work /\ w.from <= w.to
  BY <1>1, WritesInUse, ChunkIsNew
<1>3. PICK n \in Nat : /\ Rows' = Rows + n /\ n <= Length(w)
                       /\ Chunk(w) = w.from .. w.to => n = Length(w)
                       /\ w.from + ChunkSize <= w.to => n = ChunkSize
  BY <1>1, ChunkCount
<1>4. work' = [work EXCEPT ![v][q] = after] /\ sim' = [sim EXCEPT ![v] = m]
  BY DEF Insert
<1>5. /\ after \in Work /\ after.step \in {"idle", "counting", "writing"}
      /\ after = NoWork <=> ended
      /\ after.step = "idle" <=> ended
      /\ after.step = "counting" => Chunk(w) = w.from .. w.to
      /\ after.step = "writing" =>
           after.from = w.from + ChunkSize /\ after.to = w.to /\ w.from + ChunkSize <= w.to
  <2>1. ended \in BOOLEAN
    OBVIOUS
  <2> HIDE DEF ended
  <2> QED
    BY <1>1, <1>2, <2>1, AfterInsertFields
<1>6. m \in Sim /\ m.stage = s.stage /\ (ended <=> m.stage = "closing") /\ (~ended => m = s)
  BY <1>2, <1>5, FailedFields
<1>7. w.from \in Nat /\ w.to \in Nat /\ ChunkSize \in Nat /\ Length(w) = w.to - w.from + 1
  BY <1>2, SizesAssumption DEF Work, Length
<1> HIDE DEF after, m
<1>8. after.step = "writing" => Rows' + Length(after) = Rows + Length(w) /\ Length(w) > ChunkSize
  <2> SUFFICES ASSUME after.step = "writing"
               PROVE  Rows' + Length(after) = Rows + Length(w) /\ Length(w) > ChunkSize
    OBVIOUS
  <2>1. Length(after) = w.to - (w.from + ChunkSize) + 1 /\ n = ChunkSize /\ w.from + ChunkSize <= w.to
    BY <1>3, <1>5 DEF Length
  <2> HIDE DEF w
  <2> QED
    BY <1>1, <1>3, <1>7, <2>1
<1>9. Length(w) \in Nat /\ Rows' \in Nat /\ Rows' <= Rows + Length(w)
  <2> HIDE DEF w
  <2> QED
    BY <1>1, <1>2, <1>3, <1>7
<1>10. after.step = "counting" => Rows' = Rows + Length(w)
  BY <1>3, <1>5
<1>11. /\ work' = [work EXCEPT ![v][q] = after] /\ sim' = [sim EXCEPT ![v] = m]
       /\ m.stage = sim[v].stage /\ (m.stage # "closing" => m = sim[v])
       /\ after.step \in {"idle", "counting", "writing"}
       /\ after.step = "idle" <=> m.stage = "closing"
  BY <1>4, <1>5, <1>6
<1> QED
  BY <1>1, <1>2, <1>5, <1>6, <1>8, <1>9, <1>10, <1>11

LEMMA CountsInsert ==
    ASSUME KeysInv, CountsInv, NEW v \in Version, NEW q \in Query, Insert(v, q)
    PROVE  CountsInv'
<1>1. /\ \A u \in Version \ {v} : sim[u].stage = "off"
      /\ work[v][q].step = "writing" /\ CountsHold(v) /\ MaxRows \in Nat
      /\ Length(work[v][q]) \in Nat /\ Rows \in Nat /\ Rows' \in Nat
      /\ Rows' <= Rows + Length(work[v][q])
  BY InsertWrites, SizesAssumption DEF CountsInv
<1>2. PICK w \in Work, s \in Sim :
        /\ work' = [work EXCEPT ![v][q] = w] /\ sim' = [sim EXCEPT ![v] = s]
        /\ s.stage = sim[v].stage
        /\ w.step \in {"idle", "counting", "writing"}
        /\ w.step = "idle" <=> s.stage = "closing"
        /\ w.step = "writing" =>
             Rows' + Length(w) = Rows + Length(work[v][q]) /\ Length(work[v][q]) > ChunkSize
  BY InsertWrites
<1>3. \A p \in Query \ {q} : work[v][p].step = "idle"
  BY <1>1, OnlyWrite DEF CountsHold
<1>4. /\ Rows + Length(work[v][q]) <= MaxRows
      /\ s.stage = "on" => Length(work[v][q]) <= ChunkSize
  BY <1>1, <1>2 DEF CountsHold, WriteFits, OneStatement, Writes
<1>5. UpToMaxRows'
  <2>1. Rows' <= MaxRows
    BY <1>1, <1>4
  <2> QED
    BY <2>1 DEF UpToMaxRows
<1>6. ChunkSize \in Nat
  BY SizesAssumption
<1>7. w.step = "writing" => Rows' + Length(w) <= MaxRows /\ s.stage # "on"
  BY <1>1, <1>2, <1>4, <1>6
<1>8. CountsOn(v, q, s, w)
  BY <1>1, <1>2, <1>3, <1>7 DEF CountsOn
<1> QED
  BY <1>5, <1>8, CountsGoOn

LEMMA CountsCountRows ==
    ASSUME KeysInv, CountsInv, NEW v \in Version, NEW q \in Query, CountRows(v, q)
    PROVE  CountsInv'
<1> DEFINE s == sim[v]
           w == [work[v][q] EXCEPT !.step = "counted", !.seen = Rows]
<1>1. work[v][q].step = "counting" /\ Rows \in Nat /\ UpToMaxRows' /\ Rows' = Rows
  BY RowsType, SameTable DEF CountRows
<1>2. /\ s \in Sim /\ \A u \in Version \ {v} : sim[u].stage = "off"
      /\ CountsHold(v) /\ work[v][q] \in Work
  BY <1>1, WritesInUse DEF CountsInv, KeysInv, TypeOK
<1>3. \A p \in Query \ {q} : work[v][p].step = "idle"
  BY <1>1, <1>2, OnlyWrite DEF CountsHold
<1>4. w \in Work /\ w.step = "counted" /\ w.seen = Rows
  BY <1>1, <1>2 DEF Work, Step
<1>5. work' = [work EXCEPT ![v][q] = w] /\ sim' = [sim EXCEPT ![v] = s]
  BY DEF CountRows, KeysInv, TypeOK
<1> HIDE DEF s, w
<1>6. CountsOn(v, q, s, w)
  BY <1>1, <1>2, <1>3, <1>4, <1>5 DEF CountsOn
<1> QED
  BY <1>1, <1>2, <1>4, <1>6, CountsGoOn

LEMMA CountsCounted ==
    ASSUME KeysInv, CountsInv, NEW v \in Version, NEW q \in Query, Counted(v, q)
    PROVE  CountsInv'
<1> DEFINE s == sim[v]
           n == work[v][q].seen
           m == SetOn(Recorded(s, n))
<1>1. work[v][q].step = "counted" /\ UpToMaxRows' /\ Rows' = Rows
  BY SameTable DEF Counted
<1>2. /\ s \in Sim /\ \A u \in Version \ {v} : sim[u].stage = "off"
      /\ CountsHold(v) /\ n \in Nat
  BY <1>1, WritesInUse DEF CountsInv, KeysInv, TypeOK, Work
<1>3. \A p \in Query \ {q} : work[v][p].step = "idle"
  BY <1>1, <1>2, OnlyWrite DEF CountsHold
<1>4. s.stage # "closing" => n = Rows
  BY <1>1, <1>2 DEF CountsHold, SeenIsTrue
<1>5. work' = [work EXCEPT ![v][q] = NoWork] /\ sim' = [sim EXCEPT ![v] = m]
  BY DEF Counted
<1>6. /\ m \in Sim /\ m.rowCount = n /\ m.atCap = (n >= MaxRows)
      /\ m.stage = IF s.stage = "seeding" THEN "on" ELSE s.stage
  BY <1>2, CountedFields
<1> HIDE DEF s, n, m
<1>7. m.stage # "seeding" /\ (m.stage = "on" => m.rowCount = Rows' /\ m.atCap = (Rows' >= MaxRows))
  BY <1>1, <1>4, <1>6
<1>8. CountsOn(v, q, m, NoWork)
  BY <1>2, <1>3, <1>5, <1>7, UnusedTypes DEF CountsOn
<1> QED
  BY <1>1, <1>6, <1>8, UnusedTypes, CountsGoOn

\* The statement did not take effect: the last count is true again.
LEMMA CountsQueryFails ==
    ASSUME AllCounted, KeysInv, CountsInv, NEW v \in Version, NEW q \in Query, QueryFails(v, q)
    PROVE  CountsInv'
<1> DEFINE s == sim[v]
           m == Failed(s)
<1>1. work[v][q].step = "writing" /\ table' = table
  BY DEF QueryFails, AllCounted
<1>2. UpToMaxRows' /\ Rows' = Rows
  BY <1>1, SameTable
<1>3. /\ s \in Sim /\ \A u \in Version \ {v} : sim[u].stage = "off"
      /\ CountsHold(v)
  BY <1>1, WritesInUse DEF CountsInv
<1>4. \A p \in Query \ {q} : work[v][p].step = "idle"
  BY <1>1, <1>3, OnlyWrite DEF CountsHold
<1>5. s.stage = "on" => s.rowCount = Rows /\ s.atCap = (Rows >= MaxRows)
  <2>1. \A p \in Query : work[v][p].step \in {"idle", "writing"}
    BY <1>1, <1>4
  <2> QED
    BY <1>3, <2>1 DEF CountsHold, KnowsRows
<1>6. work' = [work EXCEPT ![v][q] = NoWork] /\ sim' = [sim EXCEPT ![v] = m]
  BY DEF QueryFails
<1>7. /\ m \in Sim /\ m.rowCount = s.rowCount /\ m.atCap = s.atCap
      /\ m.stage = IF s.stage = "seeding" THEN "closing" ELSE s.stage
  BY <1>3, FailedFields
<1> HIDE DEF s, m
<1>8. m.stage # "seeding" /\ (m.stage = "on" => m.rowCount = Rows' /\ m.atCap = (Rows' >= MaxRows))
  BY <1>2, <1>5, <1>7
<1>9. CountsOn(v, q, m, NoWork)
  BY <1>3, <1>4, <1>6, <1>8, UnusedTypes DEF CountsOn
<1> QED
  BY <1>2, <1>7, <1>9, UnusedTypes, CountsGoOn

\* The fields of a version change, and none of its writes.
LEMMA CountsFields ==
    ASSUME KeysInv, CountsInv, NEW v \in Version, NEW s \in Sim,
           \A u \in Version \ {v} : sim[u].stage = "off",
           sim' = [sim EXCEPT ![v] = s], work' = work, table' = table,
           \/ s.stage \in {"off", "starting", "counting"} /\ Quiet(v)
           \/ s.stage = "closing"
           \/ /\ s.stage = "on" /\ sim[v].stage = "on"
              /\ s.rowCount = sim[v].rowCount /\ s.atCap = sim[v].atCap
    PROVE  CountsInv'
<1>1. UpToMaxRows' /\ Rows' = Rows
  BY SameTable
<1>2. CountsHold(v) /\ sim \in [Version -> Sim]
  BY DEF CountsInv, KeysInv, TypeOK
<1>3. sim'[v] = s /\ \A u \in Version \ {v} : sim'[u] = sim[u]
  BY <1>2
<1>4. OneWrite(v)' /\ WriteFits(v)' /\ OneStatement(v)'
  BY <1>1, <1>2, <1>3 DEF CountsHold, OneWrite, WriteFits, OneStatement, Writes, Length
<1>5. SeenIsTrue(v)'
  BY <1>1, <1>2, <1>3 DEF CountsHold, SeenIsTrue, Quiet
<1>6. KnowsRows(v)'
  <2> SUFFICES ASSUME s.stage = "on", \A q \in Query : work[v][q].step \in {"idle", "writing"}
               PROVE  s.rowCount = Rows /\ s.atCap = (Rows >= MaxRows)
    BY <1>1, <1>3 DEF KnowsRows
  <2>1. sim[v].rowCount = Rows /\ sim[v].atCap = (Rows >= MaxRows)
    BY <1>2 DEF CountsHold, KnowsRows
  <2> QED
    BY <2>1
<1> QED
  BY <1>1, <1>3, <1>4, <1>5, <1>6, OneVersionCounts DEF CountsHold

\* A step that writes nothing: the fields it changes.
LEMMA OtherFields ==
    ASSUME OneAfterAnother, KeysInv, NEW v \in Version,
           Start(v) \/ ReadCounters(v) \/ StartFails(v) \/ Sample(v) \/ Stop(v) \/ Closed(v)
    PROVE  /\ work' = work /\ table' = table /\ \A u \in Version \ {v} : sim[u].stage = "off"
           /\ \E s \in Sim :
                /\ sim' = [sim EXCEPT ![v] = s]
                /\ \/ s.stage \in {"off", "starting", "counting"} /\ Quiet(v)
                   \/ s.stage = "closing"
                   \/ /\ s.stage = "on" /\ sim[v].stage = "on"
                      /\ s.rowCount = sim[v].rowCount /\ s.atCap = sim[v].atCap /\ s.failed = sim[v].failed
<1>1. /\ sim[v] \in Sim /\ AtRest(v) /\ work' = work /\ table' = table
  BY DEF KeysInv, TypeOK, KeysHold, Start, ReadCounters, StartFails, Sample, Stop, Closed
<1>2. \A u \in Version \ {v} : sim[u].stage = "off"
  <2>1. CASE Start(v)
    BY <2>1 DEF Start, OneAfterAnother
  <2>2. CASE ~Start(v)
    <3>1. InUse(v)
      BY <2>2 DEF InUse, ReadCounters, StartFails, Sample, Stop, Closed
    <3> QED
      BY <3>1, OthersAreOff
  <2> QED
    BY <2>1, <2>2
<1>3. PICK s \in Sim :
        /\ sim' = [sim EXCEPT ![v] = s]
        /\ \/ s.stage \in {"off", "starting", "counting"} /\ Quiet(v)
           \/ s.stage = "closing"
           \/ /\ s.stage = "on" /\ sim[v].stage = "on"
              /\ s.rowCount = sim[v].rowCount /\ s.atCap = sim[v].atCap /\ s.failed = sim[v].failed
  <2>1. CASE Start(v)
    <3> DEFINE s == [sim[v] EXCEPT !.stage = "starting"]
    <3>1. s \in Sim /\ s.stage = "starting" /\ Quiet(v)
      BY <1>1, <2>1 DEF Sim, Stage, Start, AtRest
    <3>2. sim' = [sim EXCEPT ![v] = s]
      BY <2>1 DEF Start
    <3> HIDE DEF s
    <3> QED
      BY <3>1, <3>2
  <2>2. CASE ReadCounters(v)
    <3> DEFINE s == [sim[v] EXCEPT !.stage = "counting", !.next = NextKey]
    <3>1. NextKey \in Nat
      BY NextKeyIsNew DEF KeysInv, TypeOK
    <3>2. s \in Sim /\ s.stage = "counting" /\ Quiet(v)
      BY <1>1, <2>2, <3>1 DEF Sim, Stage, ReadCounters, AtRest
    <3>3. sim' = [sim EXCEPT ![v] = s]
      BY <2>2 DEF ReadCounters
    <3> HIDE DEF s
    <3> QED
      BY <3>2, <3>3
  <2>3. CASE StartFails(v) \/ Stop(v)
    <3> DEFINE s == [sim[v] EXCEPT !.stage = "closing"]
    <3>1. s \in Sim /\ s.stage = "closing"
      BY <1>1 DEF Sim, Stage
    <3>2. sim' = [sim EXCEPT ![v] = s]
      BY <2>3 DEF StartFails, Stop
    <3> HIDE DEF s
    <3> QED
      BY <3>1, <3>2
  <2>4. CASE Sample(v)
    <3> DEFINE s == [sim[v] EXCEPT !.next = sim[v].next + 1]
    <3>1. s \in Sim /\ s.stage = "on" /\ sim[v].stage = "on" /\ s.rowCount = sim[v].rowCount
      BY <1>1, <2>4 DEF Sim, Stage, Sample
    <3>2. s.atCap = sim[v].atCap /\ s.failed = sim[v].failed
      BY <1>1 DEF Sim
    <3>3. sim' = [sim EXCEPT ![v] = s]
      BY <2>4 DEF Sample
    <3> HIDE DEF s
    <3> QED
      BY <3>1, <3>2, <3>3
  <2>5. CASE Closed(v)
    <3> DEFINE s == [sim[v] EXCEPT !.stage = "off"]
    <3>1. s \in Sim /\ s.stage = "off" /\ Quiet(v)
      BY <1>1, <2>5 DEF Sim, Stage, Closed
    <3>2. sim' = [sim EXCEPT ![v] = s]
      BY <2>5 DEF Closed
    <3> HIDE DEF s
    <3> QED
      BY <3>1, <3>2
  <2> QED
    BY <2>1, <2>2, <2>3, <2>4, <2>5
<1> QED
  BY <1>1, <1>2, <1>3

LEMMA CountsOther ==
    ASSUME OneAfterAnother, KeysInv, CountsInv, NEW v \in Version,
           Start(v) \/ ReadCounters(v) \/ StartFails(v) \/ Sample(v) \/ Stop(v) \/ Closed(v)
    PROVE  CountsInv'
<1>1. /\ work' = work /\ table' = table /\ \A u \in Version \ {v} : sim[u].stage = "off"
  BY OtherFields
<1>2. PICK s \in Sim :
        /\ sim' = [sim EXCEPT ![v] = s]
        /\ \/ s.stage \in {"off", "starting", "counting"} /\ Quiet(v)
           \/ s.stage = "closing"
           \/ /\ s.stage = "on" /\ sim[v].stage = "on"
              /\ s.rowCount = sim[v].rowCount /\ s.atCap = sim[v].atCap
  BY OtherFields
<1> QED
  BY <1>1, <1>2, CountsFields

LEMMA CountsNext ==
    ASSUME AllCounted
    PROVE  KeysInv /\ CountsInv /\ [Next]_vars => CountsInv'
<1> SUFFICES ASSUME KeysInv, CountsInv, [Next]_vars PROVE CountsInv'
  OBVIOUS
<1>1. ASSUME NEW v \in Version, Start(v) \/ Runs(v) \/ StartFails(v) \/ Sample(v) \/ Stop(v)
      PROVE  CountsInv'
  <2>1. ASSUME NEW q \in Query, Tick(v, q) \/ Insert(v, q) \/ CountRows(v, q) \/ Counted(v, q)
        PROVE  CountsInv'
    BY <2>1, CountsTick, CountsInsert, CountsCountRows, CountsCounted
  <2>2. OneAfterAnother
    BY DEF AllCounted, OneByOne
  <2> QED
    BY <1>1, <2>1, <2>2, CountsCountAtStart, CountsOther DEF Runs
<1>2. ASSUME NEW v \in Version, NEW q \in Query, QueryFails(v, q) PROVE CountsInv'
  BY <1>2, CountsQueryFails
<1>3. CASE Crash
  <2>1. UpToMaxRows'
    BY <1>3, SameTable DEF Crash
  <2>2. \A v \in Version : sim'[v].stage = "off" /\ \A q \in Query : work'[v][q].step = "idle"
    BY <1>3, UnusedTypes DEF Crash
  <2>3. \A v \in Version : CountsHold(v)'
    BY <2>2 DEF CountsHold, OneWrite, WriteFits, OneStatement, SeenIsTrue, KnowsRows, Writes
  <2> QED
    BY <2>1, <2>3 DEF CountsInv
<1>4. CASE UNCHANGED vars
  BY <1>4 DEF vars, CountsInv, UpToMaxRows, CountsHold, OneWrite, WriteFits, OneStatement,
              SeenIsTrue, KnowsRows, Writes, Quiet, Rows, Length
<1> QED
  BY <1>1, <1>2, <1>3, <1>4 DEF Next

LEMMA CountsInit == Init => CountsInv
<1> SUFFICES ASSUME Init PROVE CountsInv
  OBVIOUS
<1>1. UpToMaxRows
  BY DEF Init, UpToMaxRows
<1>2. \A v \in Version : sim[v].stage = "off" /\ Quiet(v)
  BY UnusedTypes DEF Init, Quiet
<1> QED
  BY <1>1, <1>2, OffHolds DEF CountsInv

LEMMA CountsInductive ==
    ASSUME AllCounted
    PROVE  Spec => [](KeysInv /\ CountsInv)
<1>1. OneAfterAnother
  BY DEF AllCounted, OneByOne
<1> QED
  BY <1>1, KeysInductive, CountsInit, CountsNext, PTL DEF Spec

\* A table is never filled beyond maxRows, over restarts, crashes and failures.
THEOREM NeverOverfilled ==
    ASSUME AllCounted
    PROVE  Spec => []UpToMaxRows
<1>1. CountsInv => UpToMaxRows
  BY DEF CountsInv
<1> QED
  BY <1>1, CountsInductive, PTL

-----------------------------------------------------------------------------
(* What a start promises and a status says: the inductive invariant        *)

\* A seed goes on until the rows are there.
SeedGoesOn(v) ==
    sim[v].stage = "seeding" =>
        /\ ~Quiet(v)
        /\ \A q \in Query :
             /\ Writes(v, q) => Rows + Length(work[v][q]) >= Least(MaxRows, Wanted(v))
             /\ work[v][q].step \in {"counting", "counted"} => Rows >= Least(MaxRows, Wanted(v))

\* A running version that has no error to report knows its rows between two ticks.
TrueAtRest(v) ==
    sim[v].stage = "on" /\ ~sim[v].failed /\ Quiet(v) =>
        sim[v].rowCount = Rows /\ sim[v].atCap = (Rows >= MaxRows)

\* The table may be filled beyond the limit, and answers may be lost.
TellHold(v) ==
    /\ ~Overlap \/ sim[v].stage = "seeding" => OneWrite(v)
    /\ SeedGoesOn(v)
    /\ ~Overlap => SeenIsTrue(v) /\ TrueAtRest(v)

TellInv == \A v \in Version : TellHold(v)

LEMMA OneVersionTells ==
    ASSUME KeysInv, NEW v \in Version,
           \A u \in Version \ {v} : sim[u].stage = "off" /\ sim'[u] = sim[u] /\ work'[u] = work[u],
           TellHold(v)'
    PROVE  TellInv'
<1>1. ASSUME NEW u \in Version, u # v PROVE TellHold(u)'
  <2>1. sim'[u].stage = "off" /\ \A q \in Query : work'[u][q].step = "idle"
    BY <1>1 DEF KeysInv, KeysHold, AtRest, Quiet
  <2> QED
    BY <2>1 DEF TellHold, OneWrite, SeedGoesOn, SeenIsTrue, TrueAtRest, Quiet, Writes
<1> QED
  BY <1>1 DEF TellInv

\* The write of a version goes on as w, and the fields of the version are s.
TellOn(v, q, s, w) ==
    /\ \A u \in Version \ {v} : sim[u].stage = "off"
    /\ sim' = [sim EXCEPT ![v] = s] /\ work' = [work EXCEPT ![v][q] = w]
    /\ ~Overlap \/ s.stage = "seeding" => \A p \in Query \ {q} : work[v][p].step = "idle"
    /\ s.stage = "seeding" =>
         /\ w.step # "idle"
         /\ w.step = "writing" => Rows' + Length(w) >= Least(MaxRows, Wanted(v))
         /\ w.step \in {"counting", "counted"} => Rows' >= Least(MaxRows, Wanted(v))
    /\ ~Overlap /\ s.stage # "closing" /\ w.step = "counted" => w.seen = Rows'
    /\ ~Overlap /\ s.stage = "on" /\ ~s.failed /\ w.step = "idle" =>
         s.rowCount = Rows' /\ s.atCap = (Rows' >= MaxRows)

LEMMA TellGoesOn ==
    ASSUME KeysInv, NEW v \in Version, NEW q \in Query,
           NEW s \in Sim, NEW w \in Work, TellOn(v, q, s, w)
    PROVE  TellInv'
<1>1. sim \in [Version -> Sim] /\ work \in [Version -> [Query -> Work]]
  BY DEF KeysInv, TypeOK
<1>2. sim'[v] = s /\ \A u \in Version \ {v} : sim[u].stage = "off" /\ sim'[u] = sim[u] /\ work'[u] = work[u]
  BY <1>1 DEF TellOn
<1>3. work'[v][q] = w /\ \A p \in Query \ {q} : work'[v][p] = work[v][p]
  BY <1>1 DEF TellOn
<1>4. ~Overlap \/ s.stage = "seeding" => \A p \in Query : work'[v][p].step # "idle" => p = q
  BY <1>3 DEF TellOn
<1>5. ~Overlap \/ sim'[v].stage = "seeding" => OneWrite(v)'
  BY <1>2, <1>4 DEF OneWrite
<1>6. SeedGoesOn(v)'
  <2> SUFFICES ASSUME s.stage = "seeding"
               PROVE  /\ ~Quiet(v)'
                      /\ \A p \in Query :
                           /\ work'[v][p].step = "writing" =>
                                Rows' + Length(work'[v][p]) >= Least(MaxRows, Wanted(v))
                           /\ work'[v][p].step \in {"counting", "counted"} => Rows' >= Least(MaxRows, Wanted(v))
    BY <1>2 DEF SeedGoesOn, Writes, Length
  <2>1. /\ w.step # "idle"
        /\ w.step = "writing" => Rows' + Length(w) >= Least(MaxRows, Wanted(v))
        /\ w.step \in {"counting", "counted"} => Rows' >= Least(MaxRows, Wanted(v))
    BY DEF TellOn
  <2>2. ~Quiet(v)'
    BY <1>3, <2>1 DEF Quiet
  <2>3. \A p \in Query : work'[v][p].step # "idle" => work'[v][p] = w
    BY <1>3, <1>4
  <2> QED
    BY <2>1, <2>2, <2>3
<1>7. ~Overlap => SeenIsTrue(v)'
  <2> SUFFICES ASSUME ~Overlap, s.stage # "closing", NEW p \in Query, work'[v][p].step = "counted"
               PROVE  work'[v][p].seen = Rows'
    BY <1>2 DEF SeenIsTrue
  <2>1. work'[v][p] = w
    BY <1>3, <1>4
  <2> QED
    BY <2>1 DEF TellOn
<1>8. ~Overlap => TrueAtRest(v)'
  <2> SUFFICES ASSUME ~Overlap, s.stage = "on", ~s.failed, w.step = "idle"
               PROVE  s.rowCount = Rows' /\ s.atCap = (Rows' >= MaxRows)
    BY <1>2, <1>3 DEF TrueAtRest, Quiet
  <2> QED
    BY DEF TellOn
<1> QED
  BY <1>2, <1>5, <1>6, <1>7, <1>8, OneVersionTells DEF TellHold

LEMMA TellCountAtStart ==
    ASSUME KeysInv, NEW v \in Version, CountAtStart(v)
    PROVE  TellInv'
<1>1. Quiet(v) /\ table' = table /\ \A u \in Version \ {v} : sim[u].stage = "off"
  BY StartWrites
<1>2. PICK q \in Query, w \in Work, s \in Sim :
        /\ work' = [work EXCEPT ![v][q] = w] /\ sim' = [sim EXCEPT ![v] = s]
        /\ s.rowCount = Rows /\ s.atCap = (Rows >= MaxRows)
        /\ s.stage = IF w.step = "idle" THEN "on" ELSE "seeding"
        /\ w.step \in {"idle", "writing"}
        /\ w.step = "writing" => Rows + Length(w) >= Least(MaxRows, Wanted(v))
  BY StartWrites
<1>3. Rows' = Rows
  BY <1>1 DEF Rows
<1>4. TellOn(v, q, s, w)
  BY <1>1, <1>2, <1>3 DEF TellOn, Quiet
<1> QED
  BY <1>4, TellGoesOn

\* A tick that finds no room leaves the status as true as it was.
LEMMA TellTick ==
    ASSUME OneAfterAnother, KeysInv, TellInv, NEW v \in Version, NEW q \in Query, Tick(v, q)
    PROVE  TellInv'
<1> DEFINE s == sim[v]
           m == Rendered(s, InsertsPerTick)
<1>1. s \in Sim /\ s.stage = "on" /\ Rows \in Nat /\ Rows' = Rows /\ InsertsPerTick \in Nat
  BY RowsType, SizesAssumption DEF Tick, KeysInv, TypeOK, Rows
<1>2. \A u \in Version \ {v} : sim[u].stage = "off"
  BY <1>1, OthersAreOff DEF InUse
<1>3. PICK w \in Work :
        w = Writing(s, InsertsPerTick) /\ work' = [work EXCEPT ![v][q] = w] /\ sim' = [sim EXCEPT ![v] = m]
  BY <1>1, WritingFields DEF Tick
<1>4. /\ m \in Sim /\ m.rowCount = s.rowCount /\ m.atCap = (Room(s) = 0)
      /\ m.stage = "on" /\ m.failed = s.failed
  BY <1>1, RenderedFields
<1>5. w.step \in {"idle", "writing"}
  BY <1>1, <1>3, WritingFields
<1>6. ~Overlap => Quiet(v)
  BY DEF Tick
<1>7. ASSUME ~Overlap, ~m.failed PROVE m.rowCount = Rows' /\ m.atCap = (Rows' >= MaxRows)
  <2>1. s.rowCount = Rows
    BY <1>1, <1>4, <1>6, <1>7 DEF TellInv, TellHold, TrueAtRest
  <2>2. (Room(s) = 0) = (Rows' >= MaxRows)
    BY <1>1, <2>1, AddedFits
  <2>3. m.atCap = (Rows' >= MaxRows)
    BY <1>4, <2>2, Zenon
  <2> QED
    BY <1>1, <1>4, <2>1, <2>3
<1> HIDE DEF s, m
<1>8. TellOn(v, q, m, w)
  BY <1>2, <1>3, <1>4, <1>5, <1>6, <1>7 DEF TellOn, Quiet
<1> QED
  BY <1>4, <1>8, TellGoesOn

LEMMA TellInsert ==
    ASSUME KeysInv, TellInv, NEW v \in Version, NEW q \in Query, Insert(v, q)
    PROVE  TellInv'
<1>1. /\ \A u \in Version \ {v} : sim[u].stage = "off"
      /\ work[v][q].step = "writing" /\ TellHold(v)
      /\ Length(work[v][q]) \in Nat /\ Rows \in Nat /\ Rows' \in Nat
  BY InsertWrites DEF TellInv
<1>2. PICK w \in Work, s \in Sim :
        /\ work' = [work EXCEPT ![v][q] = w] /\ sim' = [sim EXCEPT ![v] = s]
        /\ s.stage = sim[v].stage
        /\ w.step \in {"idle", "counting", "writing"}
        /\ w.step = "idle" <=> s.stage = "closing"
        /\ w.step = "counting" => Rows' = Rows + Length(work[v][q])
        /\ w.step = "writing" => Rows' + Length(w) = Rows + Length(work[v][q])
  BY InsertWrites
<1>3. ~Overlap \/ s.stage = "seeding" => \A p \in Query \ {q} : work[v][p].step = "idle"
  BY <1>1, <1>2, OnlyWrite DEF TellHold
<1>4. s.stage = "seeding" => Rows + Length(work[v][q]) >= Least(MaxRows, Wanted(v))
  BY <1>1, <1>2 DEF TellHold, SeedGoesOn, Writes
<1>5. TellOn(v, q, s, w)
  BY <1>1, <1>2, <1>3, <1>4 DEF TellOn
<1> QED
  BY <1>5, TellGoesOn

LEMMA TellCountRows ==
    ASSUME KeysInv, TellInv, NEW v \in Version, NEW q \in Query, CountRows(v, q)
    PROVE  TellInv'
<1> DEFINE s == sim[v]
           w == [work[v][q] EXCEPT !.step = "counted", !.seen = Rows]
<1>1. work[v][q].step = "counting" /\ Rows \in Nat /\ Rows' = Rows
  BY RowsType DEF CountRows, Rows
<1>2. /\ s \in Sim /\ \A u \in Version \ {v} : sim[u].stage = "off"
      /\ TellHold(v) /\ work[v][q] \in Work
  BY <1>1, WritesInUse DEF TellInv, KeysInv, TypeOK
<1>3. ~Overlap \/ s.stage = "seeding" => \A p \in Query \ {q} : work[v][p].step = "idle"
  BY <1>1, <1>2, OnlyWrite DEF TellHold
<1>4. w \in Work /\ w.step = "counted" /\ w.seen = Rows
  BY <1>1, <1>2 DEF Work, Step
<1>5. work' = [work EXCEPT ![v][q] = w] /\ sim' = [sim EXCEPT ![v] = s]
  BY DEF CountRows, KeysInv, TypeOK
<1>6. s.stage = "seeding" => Rows >= Least(MaxRows, Wanted(v))
  BY <1>1, <1>2 DEF TellHold, SeedGoesOn
<1> HIDE DEF s, w
<1>7. TellOn(v, q, s, w)
  BY <1>1, <1>2, <1>3, <1>4, <1>5, <1>6 DEF TellOn
<1> QED
  BY <1>2, <1>4, <1>7, TellGoesOn

LEMMA TellCounted ==
    ASSUME KeysInv, TellInv, NEW v \in Version, NEW q \in Query, Counted(v, q)
    PROVE  TellInv'
<1> DEFINE s == sim[v]
           n == work[v][q].seen
           m == SetOn(Recorded(s, n))
<1>1. work[v][q].step = "counted" /\ Rows' = Rows
  BY DEF Counted, Rows
<1>2. /\ s \in Sim /\ \A u \in Version \ {v} : sim[u].stage = "off"
      /\ TellHold(v) /\ n \in Nat
  BY <1>1, WritesInUse DEF TellInv, KeysInv, TypeOK, Work
<1>3. ~Overlap => \A p \in Query \ {q} : work[v][p].step = "idle"
  BY <1>1, <1>2, OnlyWrite DEF TellHold
<1>4. ~Overlap /\ s.stage # "closing" => n = Rows
  BY <1>1, <1>2 DEF TellHold, SeenIsTrue
<1>5. work' = [work EXCEPT ![v][q] = NoWork] /\ sim' = [sim EXCEPT ![v] = m]
  BY DEF Counted
<1>6. /\ m \in Sim /\ m.rowCount = n /\ m.atCap = (n >= MaxRows)
      /\ m.stage = IF s.stage = "seeding" THEN "on" ELSE s.stage
  BY <1>2, CountedFields
<1> HIDE DEF s, n, m
<1>7. /\ m.stage # "seeding"
      /\ ~Overlap /\ m.stage = "on" => m.rowCount = Rows' /\ m.atCap = (Rows' >= MaxRows)
  BY <1>1, <1>4, <1>6
<1>8. TellOn(v, q, m, NoWork)
  BY <1>2, <1>3, <1>5, <1>7, UnusedTypes DEF TellOn
<1> QED
  BY <1>6, <1>8, UnusedTypes, TellGoesOn

\* The status says that the write failed, until a count tells the rows again.
LEMMA TellQueryFails ==
    ASSUME KeysInv, TellInv, NEW v \in Version, NEW q \in Query, QueryFails(v, q)
    PROVE  TellInv'
<1> DEFINE s == sim[v]
           m == Failed(s)
<1>1. work[v][q].step \in {"writing", "counting"}
  BY DEF QueryFails
<1>2. s \in Sim /\ TellHold(v) /\ \A u \in Version \ {v} : sim[u].stage = "off"
  BY <1>1, WritesInUse DEF TellInv
<1>3. ~Overlap => \A p \in Query \ {q} : work[v][p].step = "idle"
  BY <1>1, <1>2, OnlyWrite DEF TellHold
<1>4. work' = [work EXCEPT ![v][q] = NoWork] /\ sim' = [sim EXCEPT ![v] = m]
  BY DEF QueryFails
<1>5. /\ m \in Sim /\ m.stage = IF s.stage = "seeding" THEN "closing" ELSE s.stage
      /\ s.stage # "seeding" => m.failed
  BY <1>2, FailedFields
<1> HIDE DEF s, m
<1>6. m.stage # "seeding" /\ (m.stage = "on" => m.failed)
  BY <1>5
<1>7. TellOn(v, q, m, NoWork)
  BY <1>2, <1>3, <1>4, <1>6, UnusedTypes DEF TellOn
<1> QED
  BY <1>5, <1>7, UnusedTypes, TellGoesOn

LEMMA TellOther ==
    ASSUME OneAfterAnother, KeysInv, TellInv, NEW v \in Version,
           Start(v) \/ ReadCounters(v) \/ StartFails(v) \/ Sample(v) \/ Stop(v) \/ Closed(v)
    PROVE  TellInv'
<1>1. work' = work /\ table' = table /\ \A u \in Version \ {v} : sim[u].stage = "off"
  BY OtherFields
<1>2. PICK s \in Sim :
        /\ sim' = [sim EXCEPT ![v] = s]
        /\ \/ s.stage \in {"off", "starting", "counting"} /\ Quiet(v)
           \/ s.stage = "closing"
           \/ /\ s.stage = "on" /\ sim[v].stage = "on"
              /\ s.rowCount = sim[v].rowCount /\ s.atCap = sim[v].atCap /\ s.failed = sim[v].failed
  BY OtherFields
<1>3. Rows' = Rows /\ TellHold(v) /\ sim'[v] = s /\ \A u \in Version \ {v} : sim'[u] = sim[u]
  BY <1>1, <1>2 DEF Rows, TellInv, KeysInv, TypeOK
<1>4. s.stage # "seeding"
  BY <1>2
<1>5. ~Overlap => OneWrite(v)'
  BY <1>1, <1>3 DEF TellHold, OneWrite
<1>6. SeedGoesOn(v)'
  BY <1>3, <1>4 DEF SeedGoesOn
<1>7. ~Overlap => SeenIsTrue(v)'
  BY <1>1, <1>2, <1>3 DEF TellHold, SeenIsTrue, Quiet
<1>8. ~Overlap => TrueAtRest(v)'
  <2> SUFFICES ASSUME ~Overlap, s.stage = "on", ~s.failed, Quiet(v)
               PROVE  s.rowCount = Rows /\ s.atCap = (Rows >= MaxRows)
    BY <1>1, <1>3 DEF TrueAtRest, Quiet
  <2>1. sim[v].rowCount = Rows /\ sim[v].atCap = (Rows >= MaxRows)
    BY <1>2, <1>3 DEF TellHold, TrueAtRest
  <2> QED
    BY <1>2, <2>1
<1>9. TellHold(v)'
  BY <1>3, <1>4, <1>5, <1>6, <1>7, <1>8 DEF TellHold
<1> QED
  BY <1>1, <1>3, <1>9, OneVersionTells

LEMMA TellNext ==
    ASSUME OneAfterAnother
    PROVE  KeysInv /\ TellInv /\ [Next]_vars => TellInv'
<1> SUFFICES ASSUME KeysInv, TellInv, [Next]_vars PROVE TellInv'
  OBVIOUS
<1>1. ASSUME NEW v \in Version, Start(v) \/ Runs(v) \/ StartFails(v) \/ Sample(v) \/ Stop(v)
      PROVE  TellInv'
  <2>1. ASSUME NEW q \in Query, Tick(v, q) \/ Insert(v, q) \/ CountRows(v, q) \/ Counted(v, q)
        PROVE  TellInv'
    BY <2>1, TellTick, TellInsert, TellCountRows, TellCounted
  <2> QED
    BY <1>1, <2>1, TellCountAtStart, TellOther DEF Runs
<1>2. ASSUME NEW v \in Version, NEW q \in Query, QueryFails(v, q) PROVE TellInv'
  BY <1>2, TellQueryFails
<1>3. CASE Crash
  <2>1. \A v \in Version : sim'[v].stage = "off" /\ \A q \in Query : work'[v][q].step = "idle"
    BY <1>3, UnusedTypes DEF Crash
  <2> QED
    BY <2>1 DEF TellInv, TellHold, OneWrite, SeedGoesOn, SeenIsTrue, TrueAtRest
<1>4. CASE UNCHANGED vars
  BY <1>4 DEF vars, TellInv, TellHold, OneWrite, SeedGoesOn, SeenIsTrue, TrueAtRest,
              Writes, Quiet, Rows, Length
<1> QED
  BY <1>1, <1>2, <1>3, <1>4 DEF Next

LEMMA TellInit == Init => TellInv
<1> SUFFICES ASSUME Init PROVE TellInv
  OBVIOUS
<1>1. \A v \in Version : sim[v].stage = "off" /\ \A q \in Query : work[v][q].step = "idle"
  BY UnusedTypes DEF Init
<1> QED
  BY <1>1 DEF TellInv, TellHold, OneWrite, SeedGoesOn, SeenIsTrue, TrueAtRest

LEMMA TellInductive ==
    ASSUME OneAfterAnother
    PROVE  Spec => [](KeysInv /\ TellInv)
BY KeysInductive, TellInit, TellNext, PTL DEF Spec

\* What the status says of a running version is true of the table, unless it says
\* that the last write failed or one is in flight: whatever the answers that are
\* lost, and however many statements a tick takes.
THEOREM StatusTellsTheTruth ==
    ASSUME OneByOne
    PROVE  Spec => []StatusIsTrue
<1>1. OneAfterAnother /\ ~Overlap
  BY DEF OneByOne
<1>2. TellInv => StatusIsTrue
  BY <1>1 DEF TellInv, TellHold, TrueAtRest, StatusIsTrue
<1> QED
  BY <1>1, <1>2, TellInductive, PTL

\* A start that succeeds leaves the rows it promises: seedRows, or a full table.
\* Only one write is in flight while a version starts, whether its ticks will
\* overlap or not.
THEOREM StartsSuffice ==
    ASSUME OneAfterAnother
    PROVE  Spec => SeedsSuffice
<1> DEFINE Suffices == \A v \in Version :
                         Starting(v) /\ sim'[v].stage = "on" =>
                            Cardinality(table') >= Least(MaxRows, Wanted(v))
<1>1. KeysInv /\ TellInv /\ Next => Suffices
  <2> SUFFICES ASSUME KeysInv, TellInv, Next,
                      NEW v \in Version, Starting(v), sim'[v].stage = "on"
               PROVE  Cardinality(table') >= Least(MaxRows, Wanted(v))
    OBVIOUS
  <2>1. sim \in [Version -> Sim] /\ sim[v] \in Sim /\ TellHold(v) /\ sim[v].stage \in {"starting", "counting", "seeding"}
    BY DEF KeysInv, TypeOK, TellInv, Starting
  <2>2. CASE CountAtStart(v)
    <3> DEFINE r == Recorded(sim[v], Rows)
               n == Missing(v, Rows)
    <3>1. table' = table /\ sim' = [sim EXCEPT ![v] = Ready(sim[v], v)] /\ Rows \in Nat
      BY <2>2, RowsType DEF CountAtStart, Recorded, Ready
    <3>2. Added(r, n) = 0
      <4>1. Ready(sim[v], v).stage = IF Added(r, n) = 0 THEN "on" ELSE "seeding"
        BY <2>1, <3>1, ReadyFields
      <4>2. Ready(sim[v], v).stage = "on"
        BY <2>1, <3>1
      <4> HIDE DEF r, n
      <4> QED
        BY <4>1, <4>2
    <3>3. r \in Sim /\ r.rowCount = Rows /\ n \in Nat /\ n = IF Rows < Wanted(v) THEN Wanted(v) - Rows ELSE 0
      BY <2>1, <3>1, RecordedFields, MissingRows
    <3> HIDE DEF r, n
    <3>4. n = 0 \/ Rows >= MaxRows
      BY <3>2, <3>3, AddedFits
    <3>5. Rows >= Least(MaxRows, Wanted(v))
      <4>1. /\ MaxRows \in Nat /\ Wanted(v) \in Nat /\ Least(MaxRows, Wanted(v)) \in Nat
            /\ Least(MaxRows, Wanted(v)) <= MaxRows /\ Least(MaxRows, Wanted(v)) <= Wanted(v)
        BY Limits
      <4> QED
        BY <3>1, <3>3, <3>4, <4>1
    <3> QED
      BY <3>1, <3>5 DEF Rows
  <2>3. ASSUME NEW q \in Query, Counted(v, q) PROVE Rows' >= Least(MaxRows, Wanted(v))
    <3>1. sim[v].stage = "seeding"
      <4>1. work[v][q].step # "idle"
        BY <2>3 DEF Counted
      <4> QED
        BY <2>1, <4>1, WritesInUse
    <3>2. work[v][q].step = "counted" /\ Rows' = Rows
      BY <2>3 DEF Counted, Rows
    <3> QED
      BY <2>1, <3>1, <3>2 DEF TellHold, SeedGoesOn
  <2>4. ASSUME NEW u \in Version, Start(u) \/ ReadCounters(u) \/ StartFails(u) \/ Sample(u) \/ Stop(u) \/ Closed(u)
        PROVE  FALSE
    <3>1. u # v => sim'[v] = sim[v]
      BY <2>1, <2>4 DEF Start, ReadCounters, StartFails, Sample, Stop, Closed
    <3>2. u = v
      BY <2>1, <3>1
    <3> QED
      BY <2>1, <2>4, <3>2 DEF Start, ReadCounters, StartFails, Sample, Stop, Closed, Sim
  <2>5. ASSUME NEW u \in Version, NEW q \in Query, Tick(u, q) \/ Insert(u, q) \/ CountRows(u, q) \/ QueryFails(u, q)
        PROVE  FALSE
    <3>1. u # v => sim'[v] = sim[v]
      BY <2>1, <2>5 DEF Tick, Insert, CountRows, QueryFails
    <3>2. u = v
      BY <2>1, <3>1
    <3>3. sim'[v] = sim[v] \/ sim'[v] = Failed(sim[v]) \/ sim[v].stage = "on"
      BY <2>1, <2>5, <3>2 DEF Tick, Insert, CountRows, QueryFails
    <3> QED
      BY <2>1, <3>3, FailedFields
  <2>6. ASSUME NEW u \in Version, CountAtStart(u) PROVE u = v
    BY <2>1, <2>6 DEF CountAtStart
  <2>7. ASSUME NEW u \in Version, NEW q \in Query, Counted(u, q) PROVE u = v
    BY <2>1, <2>7 DEF Counted
  <2>8. ~Crash
    BY UnusedTypes DEF Crash
  <2> QED
    BY <2>2, <2>3, <2>4, <2>5, <2>6, <2>7, <2>8 DEF Next, Runs, Rows
<1>2. KeysInv /\ TellInv /\ [Next]_vars => [Suffices]_vars
  BY <1>1
<1> QED
  BY <1>2, TellInductive, PTL DEF SeedsSuffice, Spec

-----------------------------------------------------------------------------
(* The overshoot: the inductive invariant                                  *)

\* The premise is OneAfterAnother.  Ticks may overlap, take several statements, and
\* go uncounted.

InFlight == Cardinality(Query)

\* Twice the ticks that k late counts allow: the first n, the next n - 1, ...
TwiceTicks(k) == k * (2 * InFlight - k + 1)

IdleOf(v)  == {q \in Query : work[v][q].step = "idle"}
WriteOf(v) == {q \in Query : work[v][q].step = "writing"}
LateOf(v)  == {q \in Query : work[v][q].step = "counted" /\ work[v][q].seen < MaxRows}

\* The rows there will be once every write in flight is through.
Pending(v) == UNION {Keys(work[v][q]) : q \in WriteOf(v)}
Total(v)   == Cardinality(table \cup Pending(v))

\* What a tick writes by a count of n.
TickAt(n) == Least(InsertsPerTick, Minus(MaxRows, n))

\* Twice the bound, so that nothing is halved.
TwiceBound == 2 * MaxRows + InsertsPerTick * (TwiceTicks(InFlight - 1) + 2 * trouble)

\* What is to come stays below the bound: the writes in flight, a tick of each
\* that is idle as long as the count in force is below the limit, and the ticks
\* that the late counts allow.
Ahead(v) ==
    2 * Total(v) + 2 * (TickAt(sim[v].rowCount) * Cardinality(IdleOf(v)))
      + InsertsPerTick * TwiceTicks(Cardinality(LateOf(v)))

\* What a late count has less to give, since it leaves less than a tick.
Less(n) == 4 * (InsertsPerTick - TickAt(n))

\* A table that was full at first, and that every count knows to be full.
Frozen(v) == table \in FirstRows /\ sim[v].rowCount >= MaxRows /\ WriteOf(v) = {} /\ LateOf(v) = {}

LimitReached(v) ==
    Rows >= MaxRows =>
        /\ LateOf(v) # Query
        /\ \/ Ahead(v) <= TwiceBound
           \/ \E x \in LateOf(v) : Ahead(v) <= TwiceBound + Less(work[v][x].seen)
           \/ Frozen(v)

\* Below the limit: when the counts of all others are on their way back, one of them
\* or the count in force is behind by no more than lost answers.
KnownUpTo(v, p, lost) ==
    \/ Rows <= sim[v].rowCount + InsertsPerTick * lost
    \/ \E x \in Query \ {p} : Rows <= work[v][x].seen + InsertsPerTick * lost

\* The same of the rows there will be once the write of p is through.
WriteIsNear(v, p) ==
    \/ Rows + Length(work[v][p]) <= sim[v].rowCount + InsertsPerTick * (trouble + 1)
    \/ \E x \in Query \ {p} :
         Rows + Length(work[v][p]) <= work[v][x].seen + InsertsPerTick * (trouble + 1)

WriteHasRoom(v, p) ==
    \/ Rows + Length(work[v][p]) <= MaxRows + InsertsPerTick * trouble
    \/ \E x \in Query \ {p} :
         Rows + Length(work[v][p]) <= work[v][x].seen + InsertsPerTick * (trouble + 1)

OthersCounted(v, p) == \A q \in Query \ {p} : work[v][q].step = "counted"

CountIsNear(v, p) ==
    OthersCounted(v, p) =>
        /\ work[v][p].step = "idle" => KnownUpTo(v, p, trouble)
        /\ work[v][p].step = "writing" => WriteHasRoom(v, p) /\ WriteIsNear(v, p)
        /\ work[v][p].step = "counting" => KnownUpTo(v, p, trouble + 1)
        /\ work[v][p].step = "counted" =>
             \E x \in Query : Rows <= work[v][x].seen + InsertsPerTick * trouble

OnHolds(v) ==
    /\ LimitReached(v)
    /\ \A p \in Query : CountIsNear(v, p)
    /\ \A q \in WriteOf(v) : Length(work[v][q]) <= InsertsPerTick

\* A seed is one write, by a count that is true.
SeedHolds(v) ==
    /\ OneWrite(v)
    /\ Total(v) <= MaxRows
    /\ \A q \in Query : work[v][q].step = "counted" => work[v][q].seen = Rows

ClosingHolds(v) == 2 * Total(v) <= TwiceBound \/ (table \in FirstRows /\ WriteOf(v) = {})

OverHolds(v) ==
    /\ sim[v].stage = "on" => OnHolds(v)
    /\ sim[v].stage = "seeding" => SeedHolds(v)
    /\ sim[v].stage = "closing" => ClosingHolds(v)

RowsBounded == table \in FirstRows \/ 2 * Rows <= TwiceBound

OverInv == RowsBounded /\ \A v \in Version : OverHolds(v)

-----------------------------------------------------------------------------
(* Numbers                                                                 *)

LEMMA InFlightType == InFlight \in Nat /\ InFlight >= 1
<1>1. IsFiniteSet(Query) /\ Query # {}
  BY SizesAssumption
<1> QED
  BY <1>1, FS_CardinalityType, FS_EmptySet DEF InFlight

LEMMA ProductIsNat ==
    ASSUME NEW a \in Nat, NEW b \in Nat
    PROVE  a * b \in Nat
OBVIOUS

LEMMA ProductGrows ==
    ASSUME NEW a \in Nat, NEW b \in Nat, NEW c \in Nat, NEW d \in Nat, a <= c, b <= d
    PROVE  a * b <= c * d
<1>1. c - a \in Nat /\ d - b \in Nat
  OBVIOUS
<1>2. (c - a) * d \in Nat /\ a * (d - b) \in Nat
  BY <1>1, ProductIsNat
<1>3. (c - a) * d = c * d - a * d /\ a * (d - b) = a * d - a * b
  OBVIOUS
<1>4. a * b \in Nat /\ c * d \in Nat /\ a * d \in Nat
  BY ProductIsNat
<1> QED
  BY <1>2, <1>3, <1>4

\* One late count less: what it allowed is spent.
LEMMA TicksStep ==
    ASSUME NEW k \in Nat, 1 <= k, k <= InFlight
    PROVE  /\ TwiceTicks(k) \in Nat /\ TwiceTicks(k - 1) \in Nat
           /\ TwiceTicks(k) = TwiceTicks(k - 1) + 2 * (InFlight - k + 1)
<1>1. InFlight \in Nat
  BY InFlightType
<1>2. 2 * InFlight - k + 1 \in Nat /\ k - 1 \in Nat /\ 2 * InFlight - (k - 1) + 1 \in Nat
  BY <1>1
<1>3. TwiceTicks(k) \in Nat /\ TwiceTicks(k - 1) \in Nat
  BY <1>2, ProductIsNat DEF TwiceTicks
<1>4. TwiceTicks(k) = TwiceTicks(k - 1) + 2 * (InFlight - k + 1)
  BY <1>1 DEF TwiceTicks
<1> QED
  BY <1>3, <1>4

LEMMA TicksType ==
    ASSUME NEW k \in Nat, k <= InFlight
    PROVE  TwiceTicks(k) \in Nat
<1>1. InFlight \in Nat /\ 2 * InFlight - k + 1 \in Nat
  BY InFlightType
<1> QED
  BY <1>1, ProductIsNat DEF TwiceTicks

\* When the limit is reached with fewer late counts than there may be, the others
\* have a tick each, and the one that reaches it another.
LEMMA FewerLate ==
    ASSUME NEW k \in Nat, k + 2 <= InFlight
    PROVE  TwiceTicks(k) + 2 * (InFlight - 1 - k) + 2 <= TwiceTicks(InFlight - 1)
<1> DEFINE j == InFlight - 1 - k
<1>1. InFlight \in Nat /\ j \in Nat /\ 1 <= j /\ k = InFlight - 1 - j
  BY InFlightType
<1>2. j * (j - 1) \in Nat
  BY <1>1, ProductIsNat
<1>3. TwiceTicks(InFlight - 1) - TwiceTicks(k) = j * (j - 1) + 4 * j
  <2>1. TwiceTicks(InFlight - 1) = (InFlight - 1) * (2 * InFlight - (InFlight - 1) + 1)
    BY DEF TwiceTicks
  <2>2. TwiceTicks(k) = k * (2 * InFlight - k + 1)
    BY DEF TwiceTicks
  <2> HIDE DEF TwiceTicks
  <2> QED
    BY <1>1, <2>1, <2>2
<1>4. TwiceTicks(k) \in Nat /\ TwiceTicks(InFlight - 1) \in Nat
  BY <1>1, TicksType
<1> HIDE DEF j
<1>5. 2 * (InFlight - 1 - k) = 2 * j
  BY DEF j
<1> QED
  BY <1>1, <1>2, <1>3, <1>4, <1>5

\* A late count is recorded: of the ticks it allowed, those that are idle now have
\* one each, and what it has less to give is given back.
LEMMA LateSpent ==
    ASSUME NEW k \in Nat, 1 <= k, k < InFlight, NEW i \in Nat, i <= InFlight - k + 1,
           NEW r \in Nat, r <= InsertsPerTick
    PROVE  2 * (r * i) + InsertsPerTick * TwiceTicks(k - 1) + 4 * (InsertsPerTick - r)
             <= InsertsPerTick * TwiceTicks(k)
<1> DEFINE m == InFlight - k + 1
           P == InsertsPerTick
<1>1. InFlight \in Nat /\ m \in Nat /\ 2 <= m /\ P \in Nat
  BY InFlightType, SizesAssumption
<1>2. TwiceTicks(k) = TwiceTicks(k - 1) + 2 * m /\ TwiceTicks(k - 1) \in Nat
  BY <1>1, TicksStep
<1> DEFINE t == TwiceTicks(k - 1)
<1>3. P * TwiceTicks(k) = P * t + 2 * (P * m)
  BY <1>1, <1>2
<1>4. r * i <= r * m
  BY <1>1, ProductGrows
<1>5. (P - r) * (m - 2) \in Nat
  <2>1. P - r \in Nat /\ m - 2 \in Nat
    BY <1>1
  <2> QED
    BY <2>1, ProductIsNat
<1>6. (P - r) * (m - 2) = P * m - r * m - 2 * (P - r)
  BY <1>1
<1>7. P * m \in Nat /\ r * m \in Nat /\ r * i \in Nat /\ P * t \in Nat
  BY <1>1, <1>2, ProductIsNat
<1> HIDE DEF m, t
<1>8. 2 * (r * i) + P * t + 4 * (P - r) <= P * TwiceTicks(k)
  BY <1>1, <1>3, <1>4, <1>5, <1>6, <1>7
<1> QED
  BY <1>8 DEF t

-----------------------------------------------------------------------------
(* Sets of writes, and the rows to come                                    *)

LEMMA PlaceCount ==
    ASSUME NEW A \in SUBSET Query
    PROVE  IsFiniteSet(A) /\ Cardinality(A) \in Nat /\ Cardinality(A) <= InFlight
BY SizesAssumption, FS_Subset, FS_CardinalityType DEF InFlight

LEMMA OnePlaceChanges ==
    ASSUME NEW A \in SUBSET Query, NEW B \in SUBSET Query, NEW q \in Query, A \ {q} = B \ {q}
    PROVE  /\ (q \in A <=> q \in B) => A = B
           /\ q \notin A /\ q \in B => Cardinality(B) = Cardinality(A) + 1
           /\ q \in A /\ q \notin B => Cardinality(A) = Cardinality(B) + 1
<1>1. IsFiniteSet(A) /\ IsFiniteSet(B)
  BY PlaceCount
<1>2. CASE q \in A <=> q \in B
  <2>1. A = B
    BY <1>2
  <2> QED
    BY <1>2, <2>1
<1>3. CASE q \notin A /\ q \in B
  <2>1. B = A \cup {q}
    BY <1>3
  <2> QED
    BY <1>1, <1>3, <2>1, FS_AddElement
<1>4. CASE q \in A /\ q \notin B
  <2>1. A = B \cup {q}
    BY <1>4
  <2> QED
    BY <1>1, <1>4, <2>1, FS_AddElement
<1> QED
  BY <1>2, <1>3, <1>4

\* Three kinds of places, and perhaps one that is none of them.
LEMMA PlacesApart ==
    ASSUME NEW A \in SUBSET Query, NEW B \in SUBSET Query, NEW C \in SUBSET Query,
           A \cap B = {}, A \cap C = {}, B \cap C = {}
    PROVE  /\ Cardinality(A) + Cardinality(B) + Cardinality(C) <= InFlight
           /\ \A q \in Query \ (A \cup B \cup C) :
                Cardinality(A) + Cardinality(B) + Cardinality(C) + 1 <= InFlight
<1>1. /\ IsFiniteSet(A) /\ IsFiniteSet(B) /\ IsFiniteSet(C) /\ IsFiniteSet(A \cup B) /\ IsFiniteSet(A \cup B \cup C)
      /\ Cardinality(A) \in Nat /\ Cardinality(B) \in Nat /\ Cardinality(C) \in Nat
      /\ Cardinality(A \cup B) \in Nat /\ Cardinality(A \cup B \cup C) \in Nat
  <2>1. A \cup B \in SUBSET Query /\ A \cup B \cup C \in SUBSET Query
    OBVIOUS
  <2> QED
    BY <2>1, PlaceCount
<1>2. Cardinality(A \cup B) = Cardinality(A) + Cardinality(B)
  <2>1. Cardinality(A \cup B) = Cardinality(A) + Cardinality(B) - Cardinality({})
    BY <1>1, FS_Union
  <2> QED
    BY <1>1, <2>1, FS_EmptySet
<1>3. Cardinality(A \cup B \cup C) = Cardinality(A) + Cardinality(B) + Cardinality(C)
  <2>1. (A \cup B) \cap C = {}
    OBVIOUS
  <2>2. Cardinality(A \cup B \cup C) = Cardinality(A \cup B) + Cardinality(C) - Cardinality({})
    BY <1>1, <2>1, FS_Union
  <2> QED
    BY <1>1, <1>2, <2>2, FS_EmptySet
<1>4. Cardinality(A \cup B \cup C) <= InFlight
  BY PlaceCount
<1>5. ASSUME NEW q \in Query \ (A \cup B \cup C)
      PROVE  Cardinality(A \cup B \cup C) + 1 <= InFlight
  <2>1. A \cup B \cup C \cup {q} \in SUBSET Query
    OBVIOUS
  <2>2. Cardinality(A \cup B \cup C \cup {q}) = Cardinality(A \cup B \cup C) + 1
    BY <1>1, FS_AddElement
  <2>3. Cardinality(A \cup B \cup C \cup {q}) <= InFlight
    BY <2>1, PlaceCount
  <2> QED
    BY <2>2, <2>3
<1> QED
  BY <1>3, <1>4, <1>5

\* The keys of a write.
LEMMA KeysCount1 ==
    ASSUME NEW w \in Work
    PROVE  /\ IsFiniteSet(Keys(w)) /\ Keys(w) \subseteq Nat /\ Cardinality(Keys(w)) \in Nat
           /\ w.from <= w.to => Cardinality(Keys(w)) = Length(w) /\ Length(w) \in Nat
<1>1. w.from \in Nat /\ w.to \in Nat
  BY DEF Work
<1> DEFINE a == w.from
           b == w.to
<1>2. a \in Int /\ b \in Int
  BY <1>1
<1> HIDE DEF a, b
<1>3. IsFiniteSet(a .. b) /\ Cardinality(a .. b) = IF a > b THEN 0 ELSE b - a + 1
  BY <1>2, FS_Interval
<1>4. Cardinality(a .. b) \in Nat /\ (a <= b => Cardinality(a .. b) = b - a + 1)
  BY <1>2, <1>3
<1>5. Keys(w) = a .. b /\ Length(w) = b - a + 1 /\ a .. b \subseteq Nat
  BY <1>1 DEF a, b, Keys, Length
<1> QED
  BY <1>3, <1>4, <1>5 DEF a, b

LEMMA UnionAtMost ==
    ASSUME NEW A, NEW B, IsFiniteSet(A), IsFiniteSet(B)
    PROVE  IsFiniteSet(A \cup B) /\ Cardinality(A \cup B) <= Cardinality(A) + Cardinality(B)
<1>1. /\ IsFiniteSet(A \cup B) /\ Cardinality(A \cup B) = Cardinality(A) + Cardinality(B) - Cardinality(A \cap B)
      /\ Cardinality(A) \in Nat /\ Cardinality(B) \in Nat
  BY FS_Union, FS_CardinalityType
<1>2. IsFiniteSet(A \cap B)
  BY FS_Intersection
<1>3. Cardinality(A \cap B) \in Nat
  BY <1>2, FS_CardinalityType
<1> QED
  BY <1>1, <1>3

\* Writes of at most a tick each bring at most so many ticks of rows.  Otherwise
\* there would be a smallest number of writes that bring more, and one less would.
LEMMA TicksAtMost ==
    ASSUME NEW f \in [Query -> Work], NEW W \in SUBSET Query,
           \A q \in W : f[q].from <= f[q].to /\ Length(f[q]) <= InsertsPerTick
    PROVE  /\ IsFiniteSet(UNION {Keys(f[q]) : q \in W})
           /\ Cardinality(UNION {Keys(f[q]) : q \in W}) <= InsertsPerTick * Cardinality(W)
<1> DEFINE U(S) == UNION {Keys(f[q]) : q \in S}
           Good(S) == IsFiniteSet(U(S)) /\ Cardinality(U(S)) <= InsertsPerTick * Cardinality(S)
           Bad == {k \in Nat : \E S \in SUBSET W : Cardinality(S) = k /\ ~Good(S)}
<1>1. CASE Bad = {}
  <2>1. Cardinality(W) \in Nat
    BY PlaceCount
  <2>2. Good(W)
    BY <1>1, <2>1
  <2> QED
    BY <2>2
<1>2. CASE Bad # {}
  <2>1. PICK k \in Bad : \A m \in Bad : k <= m
    <3>1. Bad \in SUBSET Nat
      OBVIOUS
    <3> HIDE DEF Bad
    <3> QED
      BY <1>2, <3>1, LeastOf
  <2>2. PICK S \in SUBSET W : Cardinality(S) = k /\ ~Good(S)
    OBVIOUS
  <2>3. k \in Nat /\ InsertsPerTick \in Nat
    BY SizesAssumption
  <2>4. S # {}
    <3> SUFFICES ASSUME S = {} PROVE FALSE
      OBVIOUS
    <3>1. U(S) = {} /\ Cardinality({}) = 0 /\ IsFiniteSet({})
      BY FS_EmptySet
    <3>2. IsFiniteSet(U(S)) /\ Cardinality(U(S)) = 0 /\ Cardinality(S) = 0
      BY <3>1
    <3> HIDE DEF U
    <3> QED
      BY <2>2, <2>3, <3>2
  <2>5. PICK q \in S : TRUE
    BY <2>4
  <2> DEFINE P == S \ {q}
  <2>6. q \in Query /\ q \in W /\ P \in SUBSET W /\ S = P \cup {q} /\ q \notin P
    BY <2>5
  <2>7. Cardinality(S) = Cardinality(P) + 1 /\ Cardinality(P) \in Nat
    BY <2>6, PlaceCount, FS_AddElement
  <2>8. Good(P)
    <3> SUFFICES ASSUME ~Good(P) PROVE FALSE
      OBVIOUS
    <3>1. Cardinality(P) \in Bad
      BY <2>6, <2>7
    <3>2. k <= Cardinality(P)
      BY <2>1, <3>1
    <3> QED
      BY <2>2, <2>3, <2>7, <3>2
  <2>9. U(S) = U(P) \cup Keys(f[q])
    BY <2>6
  <2>10. /\ IsFiniteSet(Keys(f[q])) /\ Cardinality(Keys(f[q])) = Length(f[q]) /\ Length(f[q]) <= InsertsPerTick
         /\ Length(f[q]) \in Nat
    BY <2>6, KeysCount1
  <2>11. IsFiniteSet(U(S)) /\ Cardinality(U(S)) <= Cardinality(U(P)) + Cardinality(Keys(f[q]))
    <3>1. IsFiniteSet(U(P))
      BY <2>8
    <3> HIDE DEF U, P
    <3> QED
      BY <2>9, <2>10, <3>1, UnionAtMost
  <2>12. Cardinality(U(S)) \in Nat /\ Cardinality(U(P)) \in Nat
    BY <2>8, <2>11, FS_CardinalityType
  <2>13. Cardinality(U(S)) <= InsertsPerTick * Cardinality(S)
    <3>1. InsertsPerTick * Cardinality(S) = InsertsPerTick * Cardinality(P) + InsertsPerTick
      BY <2>3, <2>7
    <3>2. InsertsPerTick * Cardinality(P) \in Nat
      BY <2>3, <2>7, ProductIsNat
    <3> HIDE DEF U, P
    <3> QED
      BY <2>3, <2>8, <2>10, <2>11, <2>12, <3>1, <3>2
  <2> QED
    BY <2>2, <2>11, <2>13
<1> QED
  BY <1>1, <1>2

LEMMA TickAtIs ==
    ASSUME NEW n \in Nat
    PROVE  /\ TickAt(n) \in Nat /\ TickAt(n) <= InsertsPerTick
           /\ n >= MaxRows => TickAt(n) = 0
           /\ n < MaxRows => n + TickAt(n) <= MaxRows /\ TickAt(n) = Least(InsertsPerTick, MaxRows - n)
BY SizesAssumption DEF TickAt, Least, Minus

LEMMA LessIs ==
    ASSUME NEW n \in Nat
    PROVE  /\ Less(n) \in Nat
           /\ n < MaxRows => 2 * n + 2 * InsertsPerTick <= 2 * MaxRows + Less(n)
<1> DEFINE t == TickAt(n)
           P == InsertsPerTick
<1>1. /\ t \in Nat /\ t <= P /\ P \in Nat /\ MaxRows \in Nat
      /\ n < MaxRows => t = Least(P, MaxRows - n)
  BY TickAtIs, SizesAssumption
<1>2. Less(n) = 4 * (P - t)
  BY DEF Less
<1> HIDE DEF t, P
<1>3. Less(n) \in Nat
  BY <1>1, <1>2
<1>4. n < MaxRows => 2 * n + 2 * P <= 2 * MaxRows + Less(n)
  BY <1>1, <1>2 DEF Least
<1> QED
  BY <1>3, <1>4 DEF P

SizesHold ==
    Rows \in Nat /\ trouble \in Nat /\
    \A v \in Version :
        /\ sim[v] \in Sim /\ sim[v].rowCount \in Nat
        /\ \A q \in Query : work[v][q] \in Work /\ (q \in WriteOf(v) => work[v][q].from <= work[v][q].to)
        /\ IsFiniteSet(table \cup Pending(v)) /\ Total(v) \in Nat /\ Rows <= Total(v)
        /\ Cardinality(IdleOf(v)) \in Nat /\ Cardinality(WriteOf(v)) \in Nat /\ Cardinality(LateOf(v)) \in Nat
        /\ Cardinality(IdleOf(v)) + Cardinality(WriteOf(v)) + Cardinality(LateOf(v)) <= InFlight
        /\ \A q \in Query \ (IdleOf(v) \cup WriteOf(v) \cup LateOf(v)) :
             Cardinality(IdleOf(v)) + Cardinality(WriteOf(v)) + Cardinality(LateOf(v)) + 1 <= InFlight

LEMMA Sizes == KeysInv => SizesHold
<1> SUFFICES ASSUME KeysInv PROVE SizesHold
  OBVIOUS
<1>1. Rows \in Nat /\ trouble \in Nat
  BY RowsType, SizesAssumption DEF KeysInv, TypeOK
<1>2. ASSUME NEW v \in Version
      PROVE  /\ sim[v] \in Sim /\ sim[v].rowCount \in Nat /\ work[v] \in [Query -> Work]
             /\ \A q \in Query : work[v][q] \in Work /\ (q \in WriteOf(v) => work[v][q].from <= work[v][q].to)
  BY DEF KeysInv, TypeOK, KeysHold, WritesAhead, Sim, WriteOf
<1>3. ASSUME NEW v \in Version
      PROVE  /\ IdleOf(v) \in SUBSET Query /\ WriteOf(v) \in SUBSET Query /\ LateOf(v) \in SUBSET Query
             /\ IdleOf(v) \cap WriteOf(v) = {} /\ IdleOf(v) \cap LateOf(v) = {} /\ WriteOf(v) \cap LateOf(v) = {}
  BY DEF IdleOf, WriteOf, LateOf
<1>4. ASSUME NEW v \in Version
      PROVE  IsFiniteSet(table \cup Pending(v)) /\ Total(v) \in Nat /\ Rows <= Total(v)
  <2> DEFINE P == {Keys(work[v][q]) : q \in WriteOf(v)}
  <2>1. IsFiniteSet(P)
    <3>1. IsFiniteSet(WriteOf(v))
      BY <1>3, PlaceCount
    <3> DEFINE f == [q \in WriteOf(v) |-> Keys(work[v][q])]
    <3>2. f \in [WriteOf(v) -> P] /\ \A S \in P : \E q \in WriteOf(v) : f[q] = S
      OBVIOUS
    <3> HIDE DEF f, P
    <3>3. f \in Surjection(WriteOf(v), P)
      BY <3>2 DEF Surjection
    <3> QED
      BY <3>1, <3>3, FS_Surjection
  <2>2. \A S \in P : IsFiniteSet(S)
    BY <1>2, <1>3, KeysCount1
  <2>3. IsFiniteSet(Pending(v))
    BY <2>1, <2>2, FS_UNION DEF Pending
  <2>4. IsFiniteSet(table) /\ IsFiniteSet(table \cup Pending(v))
    BY <2>3, FS_Union DEF KeysInv
  <2>5. table \subseteq table \cup Pending(v)
    OBVIOUS
  <2> QED
    BY <2>4, <2>5, FS_Subset, FS_CardinalityType DEF Total, Rows
<1>5. ASSUME NEW v \in Version
      PROVE  /\ Cardinality(IdleOf(v)) \in Nat /\ Cardinality(WriteOf(v)) \in Nat /\ Cardinality(LateOf(v)) \in Nat
             /\ Cardinality(IdleOf(v)) + Cardinality(WriteOf(v)) + Cardinality(LateOf(v)) <= InFlight
             /\ \A q \in Query \ (IdleOf(v) \cup WriteOf(v) \cup LateOf(v)) :
                  Cardinality(IdleOf(v)) + Cardinality(WriteOf(v)) + Cardinality(LateOf(v)) + 1 <= InFlight
  BY <1>3, PlaceCount, PlacesApart
<1> QED
  BY <1>1, <1>2, <1>4, <1>5 DEF SizesHold

\* The parts of what is to come are numbers.
AheadHolds ==
    /\ TwiceBound \in Nat /\ TwiceTicks(InFlight - 1) \in Nat
    /\ InsertsPerTick * TwiceTicks(InFlight - 1) \in Nat /\ InsertsPerTick * trouble \in Nat
    /\ TwiceBound = 2 * MaxRows + InsertsPerTick * TwiceTicks(InFlight - 1) + 2 * (InsertsPerTick * trouble)
    /\ \A v \in Version :
        /\ TickAt(sim[v].rowCount) \in Nat /\ TickAt(sim[v].rowCount) * Cardinality(IdleOf(v)) \in Nat
        /\ TwiceTicks(Cardinality(LateOf(v))) \in Nat
        /\ InsertsPerTick * TwiceTicks(Cardinality(LateOf(v))) \in Nat
        /\ Ahead(v) \in Nat

LEMMA AheadSizes == SizesHold => AheadHolds
<1> SUFFICES ASSUME SizesHold PROVE AheadHolds
  OBVIOUS
<1>1. InsertsPerTick \in Nat /\ MaxRows \in Nat /\ InFlight \in Nat /\ InFlight >= 1 /\ trouble \in Nat
  BY SizesAssumption, InFlightType DEF SizesHold
<1>2. InFlight - 1 \in Nat /\ InFlight - 1 <= InFlight
  BY <1>1
<1>3. /\ TwiceTicks(InFlight - 1) \in Nat /\ InsertsPerTick * TwiceTicks(InFlight - 1) \in Nat
      /\ InsertsPerTick * trouble \in Nat
  BY <1>1, <1>2, TicksType, ProductIsNat
<1>4. TwiceBound = 2 * MaxRows + InsertsPerTick * TwiceTicks(InFlight - 1) + 2 * (InsertsPerTick * trouble)
  <2> DEFINE t == TwiceTicks(InFlight - 1)
  <2>1. t \in Nat
    BY <1>3
  <2>2. TwiceBound = 2 * MaxRows + InsertsPerTick * (t + 2 * trouble)
    BY DEF TwiceBound
  <2> HIDE DEF t
  <2>3. InsertsPerTick * (t + 2 * trouble) = InsertsPerTick * t + 2 * (InsertsPerTick * trouble)
    BY <1>1, <2>1
  <2>4. TwiceBound = 2 * MaxRows + (InsertsPerTick * t + 2 * (InsertsPerTick * trouble))
    BY <2>2, <2>3
  <2>5. InsertsPerTick * t \in Nat
    BY <1>1, <2>1, ProductIsNat
  <2> QED
    BY <1>1, <1>3, <2>4, <2>5 DEF t
<1>5. TwiceBound \in Nat
  BY <1>1, <1>3, <1>4
<1>6. ASSUME NEW v \in Version
      PROVE  /\ TickAt(sim[v].rowCount) \in Nat /\ TickAt(sim[v].rowCount) * Cardinality(IdleOf(v)) \in Nat
             /\ TwiceTicks(Cardinality(LateOf(v))) \in Nat
             /\ InsertsPerTick * TwiceTicks(Cardinality(LateOf(v))) \in Nat
             /\ Ahead(v) \in Nat
  <2>1. /\ Total(v) \in Nat /\ sim[v].rowCount \in Nat
        /\ Cardinality(IdleOf(v)) \in Nat /\ Cardinality(LateOf(v)) \in Nat /\ Cardinality(LateOf(v)) <= InFlight
    <3>1. /\ Total(v) \in Nat /\ sim[v].rowCount \in Nat /\ Cardinality(WriteOf(v)) \in Nat
          /\ Cardinality(IdleOf(v)) \in Nat /\ Cardinality(LateOf(v)) \in Nat
          /\ Cardinality(IdleOf(v)) + Cardinality(WriteOf(v)) + Cardinality(LateOf(v)) <= InFlight
      BY DEF SizesHold
    <3> QED
      BY <1>1, <3>1
  <2>2. TickAt(sim[v].rowCount) \in Nat
    BY <2>1, TickAtIs
  <2>3. TickAt(sim[v].rowCount) * Cardinality(IdleOf(v)) \in Nat
    BY <2>1, <2>2, ProductIsNat
  <2>4. TwiceTicks(Cardinality(LateOf(v))) \in Nat
    BY <2>1, TicksType
  <2>5. InsertsPerTick * TwiceTicks(Cardinality(LateOf(v))) \in Nat
    BY <1>1, <2>4, ProductIsNat
  <2>6. Ahead(v) \in Nat
    BY <2>1, <2>3, <2>5 DEF Ahead
  <2> QED
    BY <2>2, <2>3, <2>4, <2>5, <2>6
<1> QED
  BY <1>3, <1>4, <1>5, <1>6 DEF AheadHolds

LEMMA NumbersHold == KeysInv' => SizesHold' /\ AheadHolds'
BY Sizes, AheadSizes, PTL

-----------------------------------------------------------------------------
(* A step of one write                                                     *)

LEMMA PlacesStep ==
    ASSUME KeysInv, NEW v \in Version, NEW q \in Query, NEW w \in Work,
           work' = [work EXCEPT ![v][q] = w]
    PROVE  /\ work'[v][q] = w /\ \A p \in Query \ {q} : work'[v][p] = work[v][p]
           /\ IdleOf(v)' \ {q} = IdleOf(v) \ {q} /\ (q \in IdleOf(v)' <=> w.step = "idle")
           /\ WriteOf(v)' \ {q} = WriteOf(v) \ {q} /\ (q \in WriteOf(v)' <=> w.step = "writing")
           /\ LateOf(v)' \ {q} = LateOf(v) \ {q}
           /\ q \in LateOf(v)' <=> w.step = "counted" /\ w.seen < MaxRows
           /\ w.step # "writing" => Pending(v)' \subseteq Pending(v)
           /\ w.step = "writing" => Pending(v)' \subseteq Pending(v) \cup Keys(w)
           /\ q \in WriteOf(v) => Keys(work[v][q]) \subseteq Pending(v)
<1>1. work \in [Version -> [Query -> Work]]
  BY DEF KeysInv, TypeOK
<1>2. work'[v][q] = w /\ \A p \in Query \ {q} : work'[v][p] = work[v][p]
  BY <1>1
<1>3. IdleOf(v)' \ {q} = IdleOf(v) \ {q} /\ (q \in IdleOf(v)' <=> w.step = "idle")
  BY <1>2 DEF IdleOf
<1>4. WriteOf(v)' \ {q} = WriteOf(v) \ {q} /\ (q \in WriteOf(v)' <=> w.step = "writing")
  BY <1>2 DEF WriteOf
<1>5. /\ LateOf(v)' \ {q} = LateOf(v) \ {q}
      /\ q \in LateOf(v)' <=> w.step = "counted" /\ w.seen < MaxRows
  BY <1>2 DEF LateOf
<1>6. ASSUME NEW k \in Pending(v)'
      PROVE  k \in Pending(v) \/ (w.step = "writing" /\ k \in Keys(w))
  <2>1. PICK p \in WriteOf(v)' : k \in Keys(work'[v][p])
    BY DEF Pending, Keys
  <2>2. p \in Query
    BY DEF WriteOf
  <2>3. CASE p = q
    BY <1>2, <1>4, <2>1, <2>3
  <2>4. CASE p # q
    <3>1. p \in WriteOf(v) /\ work'[v][p] = work[v][p]
      BY <1>2, <1>4, <2>2, <2>4
    <3> QED
      BY <2>1, <3>1 DEF Pending
  <2> QED
    BY <2>3, <2>4
<1>7. q \in WriteOf(v) => Keys(work[v][q]) \subseteq Pending(v)
  BY DEF Pending
<1> QED
  BY <1>2, <1>3, <1>4, <1>5, <1>6, <1>7

LEMMA TotalShrinks ==
    ASSUME SizesHold, NEW v \in Version, (table \cup Pending(v))' \subseteq table \cup Pending(v)
    PROVE  Total(v)' <= Total(v)
<1>1. IsFiniteSet(table \cup Pending(v))
  BY DEF SizesHold
<1> QED
  BY <1>1, FS_Subset DEF Total

LEMMA TotalGrows ==
    ASSUME SizesHold, SizesHold', NEW v \in Version, NEW w \in Work, w.from <= w.to,
           (table \cup Pending(v))' \subseteq table \cup Pending(v) \cup Keys(w)
    PROVE  Total(v)' <= Total(v) + Length(w)
<1>1. /\ IsFiniteSet(table \cup Pending(v)) /\ Total(v) = Cardinality(table \cup Pending(v)) /\ Total(v) \in Nat
      /\ Total(v)' = Cardinality((table \cup Pending(v))') /\ Total(v)' \in Nat
  BY DEF SizesHold, Total
<1>2. IsFiniteSet(Keys(w)) /\ Cardinality(Keys(w)) = Length(w) /\ Length(w) \in Nat
  BY KeysCount1
<1> DEFINE A == table \cup Pending(v)
           B == (table \cup Pending(v))'
<1> HIDE DEF A, B
<1>3. IsFiniteSet(A \cup Keys(w)) /\ Cardinality(A \cup Keys(w)) <= Cardinality(A) + Cardinality(Keys(w))
  BY <1>1, <1>2, UnionAtMost DEF A
<1>4. Cardinality(B) <= Cardinality(A \cup Keys(w)) /\ Cardinality(A \cup Keys(w)) \in Nat
  <2>1. B \subseteq A \cup Keys(w)
    BY DEF A, B
  <2> QED
    BY <1>3, <2>1, FS_Subset, FS_CardinalityType
<1>5. Cardinality(A) = Total(v) /\ Cardinality(B) = Total(v)'
  BY <1>1 DEF A, B
<1> QED
  BY <1>1, <1>2, <1>3, <1>4, <1>5

LEMMA BoundGrows ==
    ASSUME SizesHold, AheadHolds, AheadHolds', NEW d \in {0, 1}, trouble' = trouble + d
    PROVE  TwiceBound' = TwiceBound + 2 * (InsertsPerTick * d)
<1>1. trouble \in Nat /\ InsertsPerTick \in Nat
  BY SizesAssumption DEF SizesHold
<1>2. InsertsPerTick * trouble' = InsertsPerTick * trouble + InsertsPerTick * d
  BY <1>1
<1> DEFINE a == InsertsPerTick * trouble
           b == InsertsPerTick * trouble'
           t == InsertsPerTick * TwiceTicks(InFlight - 1)
<1>3. TwiceBound = 2 * MaxRows + t + 2 * a /\ TwiceBound' = 2 * MaxRows + t + 2 * b
  BY DEF AheadHolds
<1>4. a \in Nat /\ b \in Nat /\ t \in Nat /\ InsertsPerTick * d \in Nat /\ MaxRows \in Nat
  BY <1>1, SizesAssumption DEF AheadHolds
<1> HIDE DEF a, b, t
<1>5. b = a + InsertsPerTick * d
  BY <1>2 DEF a, b
<1> QED
  BY <1>3, <1>4, <1>5

\* Where the limit is reached already: a step that adds nothing to what is to
\* come, but for a tick where something went wrong.
LEMMA LimitStays ==
    ASSUME SizesHold, AheadHolds, SizesHold', AheadHolds', NEW v \in Version, LimitReached(v), Rows >= MaxRows,
           NEW d \in {0, 1}, trouble' = trouble + d,
           Ahead(v)' <= Ahead(v) + 2 * (InsertsPerTick * d),
           LateOf(v)' = LateOf(v), \A x \in LateOf(v) : work'[v][x].seen = work[v][x].seen,
           Frozen(v) => Frozen(v)'
    PROVE  LimitReached(v)'
<1>1. /\ Ahead(v) \in Nat /\ Ahead(v)' \in Nat /\ TwiceBound \in Nat /\ TwiceBound' \in Nat
      /\ InsertsPerTick \in Nat /\ InsertsPerTick * d \in Nat
  BY SizesAssumption DEF AheadHolds
<1>2. TwiceBound' = TwiceBound + 2 * (InsertsPerTick * d)
  BY BoundGrows
<1>3. LateOf(v)' # Query
  BY DEF LimitReached
<1>4. CASE Ahead(v) <= TwiceBound
  <2>1. Ahead(v)' <= TwiceBound'
    BY <1>1, <1>2, <1>4
  <2> QED
    BY <1>3, <2>1 DEF LimitReached
<1>5. ASSUME NEW x \in LateOf(v), Ahead(v) <= TwiceBound + Less(work[v][x].seen)
      PROVE  LimitReached(v)'
  <2>1. work[v][x].seen \in Nat
    BY DEF SizesHold, LateOf, Work
  <2>2. Less(work[v][x].seen) \in Nat
    BY <2>1, LessIs
  <2>3. Ahead(v)' <= TwiceBound' + Less(work[v][x].seen)
    BY <1>1, <1>2, <1>5, <2>2
  <2>4. x \in LateOf(v)' /\ work'[v][x].seen = work[v][x].seen
    BY DEF LateOf
  <2>5. Ahead(v)' <= TwiceBound' + Less(work'[v][x].seen)
    BY <2>3, <2>4
  <2> QED
    BY <1>3, <2>4, <2>5 DEF LimitReached, Less, TickAt, Least, Minus
<1>6. CASE Frozen(v)
  BY <1>3, <1>6 DEF LimitReached
<1> QED
  BY <1>4, <1>5, <1>6 DEF LimitReached

\* Whether all others are late, or one is not.
LEMMA AllButOne ==
    ASSUME NEW A \in SUBSET Query, NEW q \in Query, q \notin A
    PROVE  /\ A = Query \ {q} => Cardinality(A) = InFlight - 1
           /\ A # Query \ {q} => Cardinality(A) + 2 <= InFlight
<1>1. Cardinality(A) \in Nat /\ InFlight \in Nat
  BY PlaceCount, InFlightType
<1>2. CASE A = Query \ {q}
  <2>1. Query \in SUBSET Query /\ A \ {q} = Query \ {q}
    BY <1>2
  <2>2. Cardinality(Query) = Cardinality(A) + 1
    BY <2>1, OnePlaceChanges
  <2> QED
    BY <1>1, <1>2, <2>2 DEF InFlight
<1>3. CASE A # Query \ {q}
  <2>1. PICK x \in Query \ {q} : x \notin A
    BY <1>3
  <2> DEFINE B == A \cup {q}
             C == B \cup {x}
  <2>2. B \in SUBSET Query /\ C \in SUBSET Query /\ A \ {q} = B \ {q} /\ B \ {x} = C \ {x} /\ q \in B /\ x \notin B /\ x \in C
    BY <2>1
  <2> HIDE DEF B, C
  <2>3. Cardinality(B) = Cardinality(A) + 1
    BY <2>2, OnePlaceChanges
  <2>4. Cardinality(C) = Cardinality(B) + 1 /\ x \in Query
    BY <2>1, <2>2, OnePlaceChanges
  <2>5. Cardinality(C) <= InFlight
    BY <2>2, PlaceCount
  <2> QED
    BY <1>1, <1>3, <2>3, <2>4, <2>5
<1> QED
  BY <1>2, <1>3

\* The rows to come: at most a tick for each write, or those of the only one.
LEMMA TotalIs ==
    ASSUME KeysInv, NEW v \in Version
    PROVE  /\ WriteOf(v) = {} => Total(v) = Rows
           /\ \A q \in Query : WriteOf(v) = {q} => Total(v) <= Rows + Length(work[v][q]) /\ Length(work[v][q]) \in Nat
           /\ (\A q \in WriteOf(v) : Length(work[v][q]) <= InsertsPerTick) =>
                Total(v) <= Rows + InsertsPerTick * Cardinality(WriteOf(v))
<1>1. SizesHold /\ IsFiniteSet(table)
  BY Sizes DEF KeysInv
<1>2. work[v] \in [Query -> Work] /\ WriteOf(v) \in SUBSET Query
  BY DEF KeysInv, TypeOK, WriteOf
<1>3. /\ Rows \in Nat /\ Total(v) \in Nat /\ Cardinality(WriteOf(v)) \in Nat /\ InsertsPerTick \in Nat
      /\ \A q \in WriteOf(v) : work[v][q].from <= work[v][q].to /\ work[v][q] \in Work
  BY <1>1, <1>2, SizesAssumption DEF SizesHold
<1>4. CASE WriteOf(v) = {}
  <2>1. table \cup Pending(v) = table
    BY <1>4 DEF Pending
  <2>2. Total(v) = Rows
    BY <2>1 DEF Total, Rows
  <2>3. Cardinality(WriteOf(v)) = 0
    BY <1>4, FS_EmptySet
  <2>4. InsertsPerTick * Cardinality(WriteOf(v)) = 0
    BY <1>3, <2>3
  <2> QED
    BY <1>3, <1>4, <2>2, <2>4
<1>5. ASSUME NEW q \in Query, WriteOf(v) = {q}
      PROVE  Total(v) <= Rows + Length(work[v][q]) /\ Length(work[v][q]) \in Nat
  <2>1. /\ IsFiniteSet(Keys(work[v][q])) /\ Cardinality(Keys(work[v][q])) = Length(work[v][q])
        /\ Length(work[v][q]) \in Nat
    BY <1>3, <1>5, KeysCount1
  <2>2. Pending(v) = Keys(work[v][q])
    BY <1>5 DEF Pending
  <2> QED
    BY <1>1, <2>1, <2>2, UnionAtMost DEF Total, Rows
<1>6. ASSUME \A q \in WriteOf(v) : Length(work[v][q]) <= InsertsPerTick
      PROVE  Total(v) <= Rows + InsertsPerTick * Cardinality(WriteOf(v))
  <2>1. /\ IsFiniteSet(Pending(v))
        /\ Cardinality(Pending(v)) <= InsertsPerTick * Cardinality(WriteOf(v))
    BY <1>2, <1>3, <1>6, TicksAtMost DEF Pending
  <2>2. Cardinality(Pending(v)) \in Nat /\ InsertsPerTick * Cardinality(WriteOf(v)) \in Nat
    BY <1>3, <2>1, FS_CardinalityType, ProductIsNat
  <2>3. Total(v) <= Rows + Cardinality(Pending(v))
    BY <1>1, <2>1, UnionAtMost DEF Total, Rows
  <2> QED
    BY <1>3, <2>1, <2>2, <2>3
<1> QED
  BY <1>4, <1>5, <1>6

\* What is to come if each that is idle writes a whole tick.
AheadAtMost(v) ==
    2 * Total(v) + 2 * (InsertsPerTick * Cardinality(IdleOf(v)))
      + InsertsPerTick * TwiceTicks(Cardinality(LateOf(v)))

\* The write that may reach the limit: what is to come is within the bound already.
LEMMA NearTheLimit ==
    ASSUME KeysInv, NEW v \in Version, OnHolds(v), NEW q \in WriteOf(v), Rows < MaxRows
    PROVE  /\ Cardinality(LateOf(v)) < InFlight
           /\ \/ AheadAtMost(v) <= TwiceBound
              \/ \E x \in LateOf(v) : AheadAtMost(v) <= TwiceBound + Less(work[v][x].seen)
<1> DEFINE P == InsertsPerTick
           W == Cardinality(WriteOf(v))
           I == Cardinality(IdleOf(v))
           k == Cardinality(LateOf(v))
<1>1. SizesHold /\ AheadHolds
  BY Sizes, AheadSizes
<1>2. /\ q \in Query /\ q \notin LateOf(v) /\ LateOf(v) \in SUBSET Query /\ work[v][q].step = "writing"
      /\ IdleOf(v) \in SUBSET Query /\ WriteOf(v) \in SUBSET Query
  BY DEF WriteOf, LateOf, IdleOf
<1>3. /\ P \in Nat /\ W \in Nat /\ I \in Nat /\ k \in Nat /\ W + I + k <= InFlight /\ InFlight \in Nat
      /\ Total(v) \in Nat /\ Rows \in Nat /\ MaxRows \in Nat /\ trouble \in Nat
      /\ TwiceTicks(k) \in Nat /\ TwiceTicks(InFlight - 1) \in Nat
  <2>1. P \in Nat /\ InFlight \in Nat /\ MaxRows \in Nat
    BY SizesAssumption, InFlightType
  <2>2. /\ W \in Nat /\ I \in Nat /\ k \in Nat /\ I + W + k <= InFlight
        /\ Total(v) \in Nat /\ Rows \in Nat /\ trouble \in Nat
    BY <1>1 DEF SizesHold
  <2>3. TwiceTicks(k) \in Nat /\ TwiceTicks(InFlight - 1) \in Nat
    BY <1>1 DEF AheadHolds
  <2> QED
    BY <2>1, <2>2, <2>3
<1>4. TwiceBound = 2 * MaxRows + P * TwiceTicks(InFlight - 1) + 2 * (P * trouble)
  BY <1>1 DEF AheadHolds
<1>5. P * trouble \in Nat /\ P * TwiceTicks(InFlight - 1) \in Nat /\ P * I \in Nat /\ P * TwiceTicks(k) \in Nat
  BY <1>3, ProductIsNat
<1>6. AheadAtMost(v) = 2 * Total(v) + 2 * (P * I) + P * TwiceTicks(k)
  BY DEF AheadAtMost
<1>7. CASE LateOf(v) # Query \ {q}
  <2>1. k + 2 <= InFlight
    BY <1>2, <1>7, AllButOne
  <2>2. Total(v) <= Rows + P * W
    BY TotalIs DEF OnHolds
  <2> HIDE DEF P, W, I, k
  <2>3. TwiceTicks(k) + 2 * (InFlight - k) <= TwiceTicks(InFlight - 1)
    BY <1>3, <2>1, FewerLate
  <2>4. P * (TwiceTicks(k) + 2 * (InFlight - k)) <= P * TwiceTicks(InFlight - 1)
    <3>1. TwiceTicks(k) + 2 * (InFlight - k) \in Nat
      BY <1>3
    <3> QED
      BY <1>3, <2>3, <3>1, ProductGrows
  <2>5. P * (TwiceTicks(k) + 2 * (InFlight - k)) = P * TwiceTicks(k) + 2 * (P * (InFlight - k))
    BY <1>3
  <2>6. P * (W + I) <= P * (InFlight - k)
    <3>1. W + I \in Nat /\ InFlight - k \in Nat /\ W + I <= InFlight - k
      BY <1>3
    <3> QED
      BY <1>3, <3>1, ProductGrows
  <2>7. P * (W + I) = P * W + P * I
    BY <1>3
  <2>8. P * W \in Nat /\ P * (InFlight - k) \in Int
    BY <1>3, ProductIsNat
  <2>9. AheadAtMost(v) <= TwiceBound
    BY <1>3, <1>4, <1>5, <1>6, <2>2, <2>4, <2>5, <2>6, <2>7, <2>8
  <2> QED
    BY <1>3, <2>1, <2>9 DEF k
<1>8. CASE LateOf(v) = Query \ {q}
  <2>1. k = InFlight - 1
    BY <1>2, <1>8, AllButOne
  <2>2. WriteOf(v) = {q} /\ IdleOf(v) = {}
    BY <1>2, <1>8 DEF WriteOf, IdleOf, LateOf
  <2>3. I = 0 /\ Total(v) <= Rows + Length(work[v][q]) /\ Length(work[v][q]) \in Nat
    BY <1>2, <2>2, TotalIs, FS_EmptySet
  <2>4. \/ Rows + Length(work[v][q]) <= MaxRows + P * trouble
        \/ \E x \in Query \ {q} : Rows + Length(work[v][q]) <= work[v][x].seen + P * (trouble + 1)
    <3>1. OthersCounted(v, q)
      BY <1>8 DEF OthersCounted, LateOf
    <3> QED
      BY <1>2, <3>1 DEF OnHolds, CountIsNear, WriteHasRoom
  <2> HIDE DEF P, I, k
  <2>5. P * I = 0
    BY <1>3, <2>3
  <2>6. CASE Rows + Length(work[v][q]) <= MaxRows + P * trouble
    <3>1. AheadAtMost(v) <= TwiceBound
      BY <1>3, <1>4, <1>5, <1>6, <2>1, <2>3, <2>5, <2>6
    <3> QED
      BY <1>3, <2>1, <3>1 DEF k
  <2>7. ASSUME NEW x \in Query \ {q}, Rows + Length(work[v][q]) <= work[v][x].seen + P * (trouble + 1)
        PROVE  AheadAtMost(v) <= TwiceBound + Less(work[v][x].seen) /\ x \in LateOf(v)
    <3>1. x \in LateOf(v) /\ work[v][x].seen < MaxRows /\ work[v][x].seen \in Nat
      BY <1>1, <1>8, <2>7 DEF LateOf, SizesHold, Work
    <3> DEFINE n == work[v][x].seen
    <3>2. Less(n) \in Nat /\ 2 * n + 2 * P <= 2 * MaxRows + Less(n)
      BY <3>1, LessIs DEF P
    <3>3. P * (trouble + 1) = P * trouble + P
      BY <1>3
    <3> HIDE DEF n
    <3>4. n \in Nat /\ Rows + Length(work[v][q]) <= n + P * trouble + P
      BY <1>3, <1>5, <2>3, <2>7, <3>1, <3>3 DEF n
    <3>5. AheadAtMost(v) <= TwiceBound + Less(n)
      BY <1>3, <1>4, <1>5, <1>6, <2>1, <2>3, <2>5, <3>2, <3>4
    <3> QED
      BY <3>1, <3>5 DEF n
  <2> QED
    BY <1>3, <2>1, <2>4, <2>6, <2>7 DEF k
<1> QED
  BY <1>7, <1>8

\* What a late count has less to give is less than what it allows.
LEMMA LateGives ==
    ASSUME SizesHold, NEW v \in Version, NEW x \in LateOf(v), Cardinality(LateOf(v)) < InFlight
    PROVE  Less(work[v][x].seen) <= InsertsPerTick * TwiceTicks(Cardinality(LateOf(v)))
<1> DEFINE k == Cardinality(LateOf(v))
           n == work[v][x].seen
<1>1. k \in Nat /\ n \in Nat /\ InFlight \in Nat /\ InsertsPerTick \in Nat /\ LateOf(v) \in SUBSET Query
  BY SizesAssumption, InFlightType DEF SizesHold, LateOf, Work
<1>2. k # 0
  <2>1. IsFiniteSet(LateOf(v)) /\ LateOf(v) # {}
    BY <1>1, PlaceCount
  <2> QED
    BY <2>1, FS_EmptySet
<1>3. TickAt(n) \in Nat /\ TickAt(n) <= InsertsPerTick /\ Less(n) = 4 * (InsertsPerTick - TickAt(n))
  BY <1>1, TickAtIs DEF Less
<1> HIDE DEF k, n
<1>4. 1 <= k /\ k < InFlight /\ 0 \in Nat /\ 0 <= InFlight - k + 1
  BY <1>1, <1>2 DEF k
<1>5. 2 * (TickAt(n) * 0) + InsertsPerTick * TwiceTicks(k - 1) + 4 * (InsertsPerTick - TickAt(n))
        <= InsertsPerTick * TwiceTicks(k)
  BY <1>1, <1>3, <1>4, LateSpent
<1>6. InsertsPerTick * TwiceTicks(k - 1) \in Nat /\ InsertsPerTick * TwiceTicks(k) \in Nat /\ TickAt(n) * 0 = 0
  <2>1. TwiceTicks(k - 1) \in Nat /\ TwiceTicks(k) \in Nat
    BY <1>1, <1>4, TicksStep
  <2> QED
    BY <1>1, <1>3, <2>1, ProductIsNat
<1>7. Less(n) <= InsertsPerTick * TwiceTicks(k)
  BY <1>1, <1>3, <1>5, <1>6
<1> QED
  BY <1>7 DEF k, n

\* A version that stops leaves its writes in flight, and they stay below the bound.
LEMMA OnIsBounded ==
    ASSUME KeysInv, NEW v \in Version, OnHolds(v)
    PROVE  ClosingHolds(v)
<1> DEFINE c == InsertsPerTick * TwiceTicks(Cardinality(LateOf(v)))
<1>1. SizesHold /\ AheadHolds
  BY Sizes, AheadSizes
<1>2. /\ TwiceBound \in Nat /\ Total(v) \in Nat /\ Rows \in Nat /\ MaxRows \in Nat /\ c \in Nat
      /\ 2 * MaxRows <= TwiceBound
      /\ InsertsPerTick * Cardinality(IdleOf(v)) \in Nat
      /\ TickAt(sim[v].rowCount) * Cardinality(IdleOf(v)) \in Nat
  <2>1. TwiceBound \in Nat /\ c \in Nat /\ TickAt(sim[v].rowCount) * Cardinality(IdleOf(v)) \in Nat
    BY <1>1 DEF AheadHolds
  <2>2. Total(v) \in Nat /\ Rows \in Nat /\ MaxRows \in Nat /\ Cardinality(IdleOf(v)) \in Nat /\ InsertsPerTick \in Nat
    BY <1>1, SizesAssumption DEF SizesHold
  <2>3. 2 * MaxRows <= TwiceBound
    BY <1>1, <2>2 DEF AheadHolds
  <2>4. InsertsPerTick * Cardinality(IdleOf(v)) \in Nat
    BY <2>2, ProductIsNat
  <2> QED
    BY <2>1, <2>2, <2>3, <2>4
<1>3. /\ Ahead(v) = 2 * Total(v) + 2 * (TickAt(sim[v].rowCount) * Cardinality(IdleOf(v))) + c
      /\ AheadAtMost(v) = 2 * Total(v) + 2 * (InsertsPerTick * Cardinality(IdleOf(v))) + c
  BY DEF Ahead, AheadAtMost
<1>4. ASSUME Cardinality(LateOf(v)) < InFlight, NEW x \in LateOf(v)
      PROVE  Less(work[v][x].seen) <= c /\ Less(work[v][x].seen) \in Nat
  <2>1. work[v][x].seen \in Nat
    BY <1>1 DEF SizesHold, LateOf, Work
  <2> QED
    BY <1>1, <1>4, <2>1, LateGives, LessIs
<1> HIDE DEF c
<1>5. CASE Rows < MaxRows /\ WriteOf(v) = {}
  <2>1. Total(v) = Rows
    BY <1>5, TotalIs
  <2> QED
    BY <1>2, <1>5, <2>1 DEF ClosingHolds
<1>6. CASE Rows < MaxRows /\ WriteOf(v) # {}
  <2>1. PICK q \in WriteOf(v) : TRUE
    BY <1>6
  <2>2. /\ Cardinality(LateOf(v)) < InFlight
        /\ \/ AheadAtMost(v) <= TwiceBound
           \/ \E x \in LateOf(v) : AheadAtMost(v) <= TwiceBound + Less(work[v][x].seen)
    BY <1>6, NearTheLimit
  <2>3. CASE AheadAtMost(v) <= TwiceBound
    BY <1>2, <1>3, <2>3 DEF ClosingHolds
  <2>4. ASSUME NEW x \in LateOf(v), AheadAtMost(v) <= TwiceBound + Less(work[v][x].seen)
        PROVE  ClosingHolds(v)
    <3>1. Less(work[v][x].seen) <= c /\ Less(work[v][x].seen) \in Nat
      BY <1>4, <2>2
    <3> QED
      BY <1>2, <1>3, <2>4, <3>1 DEF ClosingHolds
  <2> QED
    BY <2>2, <2>3, <2>4
<1>7. CASE Rows >= MaxRows
  <2>1. /\ LateOf(v) # Query
        /\ \/ Ahead(v) <= TwiceBound
           \/ \E x \in LateOf(v) : Ahead(v) <= TwiceBound + Less(work[v][x].seen)
           \/ Frozen(v)
    BY <1>7 DEF OnHolds, LimitReached
  <2>2. CASE Ahead(v) <= TwiceBound
    BY <1>2, <1>3, <2>2 DEF ClosingHolds
  <2>3. ASSUME NEW x \in LateOf(v), Ahead(v) <= TwiceBound + Less(work[v][x].seen)
        PROVE  ClosingHolds(v)
    <3>1. Cardinality(LateOf(v)) < InFlight
      <4>1. PICK y \in Query : y \notin LateOf(v)
        BY <2>1 DEF LateOf
      <4>2. LateOf(v) \in SUBSET Query /\ Cardinality(LateOf(v)) \in Nat /\ InFlight \in Nat
        BY PlaceCount, InFlightType DEF LateOf
      <4> QED
        BY <4>1, <4>2, AllButOne
    <3>2. Less(work[v][x].seen) <= c /\ Less(work[v][x].seen) \in Nat
      BY <1>4, <3>1
    <3> QED
      BY <1>2, <1>3, <2>3, <3>2 DEF ClosingHolds
  <2>4. CASE Frozen(v)
    BY <2>4 DEF Frozen, ClosingHolds
  <2> QED
    BY <2>1, <2>2, <2>3, <2>4
<1> QED
  BY <1>2, <1>5, <1>6, <1>7

OneWrites == \E v \in Version : sim[v].stage \in {"seeding", "on", "closing"} /\ OverHolds(v)

LEMMA BoundedByStage == KeysInv /\ OneWrites => RowsBounded
<1> SUFFICES ASSUME KeysInv, NEW v \in Version, sim[v].stage \in {"seeding", "on", "closing"}, OverHolds(v)
             PROVE  RowsBounded
  BY DEF OneWrites
<1>1. SizesHold /\ AheadHolds
  BY Sizes, AheadSizes
<1>2. TwiceBound \in Nat /\ Total(v) \in Nat /\ Rows \in Nat /\ MaxRows \in Nat /\ 2 * MaxRows <= TwiceBound
      /\ Rows <= Total(v)
  <2>1. TwiceBound \in Nat /\ Total(v) \in Nat /\ Rows \in Nat /\ MaxRows \in Nat /\ Rows <= Total(v)
    BY <1>1, SizesAssumption DEF SizesHold, AheadHolds
  <2> QED
    BY <1>1, <2>1 DEF AheadHolds
<1>3. ClosingHolds(v)
  <2>1. CASE sim[v].stage = "on"
    BY <2>1, OnIsBounded DEF OverHolds
  <2>2. CASE sim[v].stage = "seeding"
    BY <1>2, <2>2 DEF OverHolds, SeedHolds, ClosingHolds
  <2>3. CASE sim[v].stage = "closing"
    BY <2>3 DEF OverHolds
  <2> QED
    BY <2>1, <2>2, <2>3
<1> QED
  BY <1>2, <1>3 DEF ClosingHolds, RowsBounded

LEMMA BoundedNext == KeysInv' /\ OneWrites' => RowsBounded'
BY BoundedByStage, PTL

\* The bound of the invariant is the one of the property.
LEMMA BoundIs == KeysInv /\ RowsBounded => OvershootIsBounded
<1> SUFFICES ASSUME KeysInv, 2 * Rows <= TwiceBound
             PROVE  Rows <= MaxRows + InsertsPerTick * (LateTicks + trouble)
  BY DEF RowsBounded, OvershootIsBounded
<1> DEFINE n == InFlight
           P == InsertsPerTick
<1>1. n \in Nat /\ n >= 1 /\ P \in Nat /\ MaxRows \in Nat /\ trouble \in Nat /\ Rows \in Nat
  BY Sizes, InFlightType, SizesAssumption DEF SizesHold
<1>2. TwiceTicks(n - 1) = (n - 1) * (2 * n - (n - 1) + 1)
  BY DEF TwiceTicks
<1>3. TwiceBound = 2 * MaxRows + P * (TwiceTicks(n - 1) + 2 * trouble)
  BY DEF TwiceBound
<1>4. LateTicks = (n * (n + 1)) \div 2 - 1
  BY DEF LateTicks, InFlight
<1> HIDE DEF n, P
<1>5. PICK m \in Nat : n = 2 * m \/ n = 2 * m + 1
  <2>1. n \div 2 \in Nat /\ (n = 2 * (n \div 2) \/ n = 2 * (n \div 2) + 1)
    BY <1>1
  <2> QED
    BY <2>1
<1>6. PICK h \in Nat : n * (n + 1) = 2 * h
  <2>1. CASE n = 2 * m
    <3>1. m * (2 * m + 1) \in Nat
      BY ProductIsNat
    <3>2. n * (n + 1) = 2 * (m * (2 * m + 1))
      BY <2>1
    <3> QED
      BY <3>1, <3>2
  <2>2. CASE n = 2 * m + 1
    <3>1. (2 * m + 1) * (m + 1) \in Nat
      BY ProductIsNat
    <3>2. n * (n + 1) = 2 * ((2 * m + 1) * (m + 1))
      BY <2>2
    <3> QED
      BY <3>1, <3>2
  <2> QED
    BY <1>5, <2>1, <2>2
<1>7. (n * (n + 1)) \div 2 = h
  <2>1. (2 * h) \div 2 = h
    OBVIOUS
  <2> QED
    BY <1>6, <2>1
<1>8. (n - 1) * (2 * n - (n - 1) + 1) = n * (n + 1) - 2
  BY <1>1
<1>9. TwiceTicks(n - 1) = 2 * (h - 1) /\ LateTicks = h - 1
  BY <1>2, <1>4, <1>6, <1>7, <1>8
<1>10. TwiceBound = 2 * (MaxRows + P * (h - 1 + trouble))
  <2>1. TwiceBound = 2 * MaxRows + P * (2 * (h - 1) + 2 * trouble)
    BY <1>3, <1>9
  <2>2. P * (2 * (h - 1) + 2 * trouble) = 2 * (P * (h - 1 + trouble))
    BY <1>1
  <2>3. P * (h - 1 + trouble) \in Int
    BY <1>1
  <2> QED
    BY <1>1, <2>1, <2>2, <2>3
<1>11. P * (h - 1 + trouble) \in Int
  BY <1>1
<1>12. Rows <= MaxRows + P * (h - 1 + trouble)
  BY <1>1, <1>10, <1>11
<1> QED
  BY <1>9, <1>12 DEF P

LEMMA NumbersNow ==
    ASSUME KeysInv, KeysInv'
    PROVE  SizesHold /\ AheadHolds /\ SizesHold' /\ AheadHolds'
BY Sizes, AheadSizes, NumbersHold

LEMMA BoundStays ==
    ASSUME KeysInv, KeysInv', RowsBounded, table' = table, NEW d \in {0, 1}, trouble' = trouble + d
    PROVE  RowsBounded'
<1>1. SizesHold /\ AheadHolds /\ SizesHold' /\ AheadHolds'
  BY NumbersNow
<1>2. TwiceBound' = TwiceBound + 2 * (InsertsPerTick * d) /\ Rows' = Rows
  BY <1>1, BoundGrows DEF Rows
<1>3. TwiceBound \in Nat /\ Rows \in Nat /\ InsertsPerTick * d \in Nat
  BY <1>1, SizesAssumption DEF SizesHold, AheadHolds
<1>4. 2 * Rows <= TwiceBound => 2 * Rows' <= TwiceBound'
  BY <1>2, <1>3
<1> QED
  BY <1>4 DEF RowsBounded

\* A step of one version, while the others are off: what remains to be shown.
LEMMA OverGoesOn ==
    ASSUME KeysInv, KeysInv', OverInv, NEW v \in Version,
           \A u \in Version \ {v} : sim[u].stage = "off" /\ sim'[u] = sim[u],
           OverHolds(v)',
           \/ sim'[v].stage \in {"seeding", "on", "closing"}
           \/ table' = table /\ (trouble' = trouble \/ trouble' = trouble + 1)
    PROVE  OverInv'
<1>1. \A u \in Version : OverHolds(u)'
  <2> SUFFICES ASSUME NEW u \in Version, u # v PROVE OverHolds(u)'
    OBVIOUS
  <2>1. sim'[u].stage = "off"
    OBVIOUS
  <2> QED
    BY <2>1 DEF OverHolds
<1>2. RowsBounded'
  <2>1. CASE sim'[v].stage \in {"seeding", "on", "closing"}
    <3>1. OneWrites'
      BY <2>1 DEF OneWrites
    <3> QED
      BY <3>1, BoundedNext
  <2>2. CASE table' = table /\ (trouble' = trouble \/ trouble' = trouble + 1)
    <3>1. PICK d \in {0, 1} : trouble' = trouble + d
      <4>1. trouble \in Nat
        BY SizesAssumption DEF KeysInv, TypeOK
      <4> QED
        BY <2>2, <4>1
    <3> QED
      BY <2>2, <3>1, BoundStays DEF OverInv
  <2> QED
    BY <2>1, <2>2
<1> QED
  BY <1>1, <1>2 DEF OverInv

-----------------------------------------------------------------------------
(* The overshoot: what is to come                                          *)

LEMMA AheadIs ==
    ASSUME NEW v \in Version
    PROVE  /\ Ahead(v) = 2 * Total(v) + 2 * (TickAt(sim[v].rowCount) * Cardinality(IdleOf(v)))
                           + InsertsPerTick * TwiceTicks(Cardinality(LateOf(v)))
           /\ Ahead(v)' = 2 * Total(v)' + 2 * (TickAt(sim'[v].rowCount) * Cardinality(IdleOf(v)'))
                            + InsertsPerTick * TwiceTicks(Cardinality(LateOf(v)'))
BY DEF Ahead, TickAt, Least, Minus, TwiceTicks, InFlight

\* A write begins, goes on, or ends in a failure.
LEMMA AheadStep ==
    ASSUME SizesHold, AheadHolds, SizesHold', AheadHolds', NEW v \in Version, NEW q \in Query,
           sim'[v].rowCount = sim[v].rowCount, LateOf(v)' = LateOf(v),
           IdleOf(v)' \ {q} = IdleOf(v) \ {q}, NEW d \in {0, 1},
           \/ (q \in IdleOf(v)' <=> q \in IdleOf(v)) /\ Total(v)' <= Total(v)
           \/ q \in IdleOf(v) /\ q \notin IdleOf(v)' /\ Total(v)' <= Total(v) + TickAt(sim[v].rowCount)
           \/ q \notin IdleOf(v) /\ q \in IdleOf(v)' /\ Total(v)' <= Total(v) /\ d = 1
    PROVE  Ahead(v)' <= Ahead(v) + 2 * (InsertsPerTick * d)
<1> DEFINE r == TickAt(sim[v].rowCount)
           I == Cardinality(IdleOf(v))
           J == Cardinality(IdleOf(v)')
           c == InsertsPerTick * TwiceTicks(Cardinality(LateOf(v)))
<1>1. /\ Ahead(v) = 2 * Total(v) + 2 * (r * I) + c
      /\ Ahead(v)' = 2 * Total(v)' + 2 * (r * J) + c
  BY AheadIs
<1>2. /\ r \in Nat /\ r <= InsertsPerTick /\ I \in Nat /\ J \in Nat /\ c \in Nat /\ r * I \in Nat
      /\ Total(v) \in Nat /\ Total(v)' \in Nat /\ InsertsPerTick \in Nat
  <2>1. I \in Nat /\ J \in Nat /\ Total(v) \in Nat /\ Total(v)' \in Nat /\ InsertsPerTick \in Nat
    BY SizesAssumption DEF SizesHold
  <2>2. r \in Nat /\ r <= InsertsPerTick
    BY TickAtIs DEF SizesHold
  <2>3. c \in Nat
    BY DEF AheadHolds
  <2> QED
    BY <2>1, <2>2, <2>3, ProductIsNat
<1>3. /\ (q \in IdleOf(v)' <=> q \in IdleOf(v)) => J = I
      /\ q \in IdleOf(v) /\ q \notin IdleOf(v)' => I = J + 1
      /\ q \notin IdleOf(v) /\ q \in IdleOf(v)' => J = I + 1
  <2>1. IdleOf(v) \in SUBSET Query /\ IdleOf(v)' \in SUBSET Query
    BY DEF IdleOf
  <2> QED
    BY <2>1, OnePlaceChanges
<1> HIDE DEF r, I, J, c
<1>4. InsertsPerTick * 0 = 0 /\ InsertsPerTick * 1 = InsertsPerTick /\ InsertsPerTick * d \in Nat
  BY <1>2
<1>5. CASE (q \in IdleOf(v)' <=> q \in IdleOf(v)) /\ Total(v)' <= Total(v)
  <2>1. J = I
    BY <1>3, <1>5
  <2> QED
    BY <1>1, <1>2, <1>4, <1>5, <2>1
<1>6. CASE q \in IdleOf(v) /\ q \notin IdleOf(v)' /\ Total(v)' <= Total(v) + r
  <2>1. I = J + 1 /\ r * I = r * J + r
    BY <1>2, <1>3, <1>6
  <2>2. r * J \in Nat
    BY <1>2, ProductIsNat
  <2> QED
    BY <1>1, <1>2, <1>4, <1>6, <2>1, <2>2
<1>7. CASE q \notin IdleOf(v) /\ q \in IdleOf(v)' /\ Total(v)' <= Total(v) /\ d = 1
  <2>1. J = I + 1 /\ r * J = r * I + r
    BY <1>2, <1>3, <1>7
  <2> QED
    BY <1>1, <1>2, <1>4, <1>7, <2>1
<1> QED
  BY <1>5, <1>6, <1>7 DEF r

\* The write that reaches the limit.
LEMMA LimitIsReached ==
    ASSUME KeysInv, KeysInv', NEW v \in Version, NEW q \in WriteOf(v), OnHolds(v), Rows < MaxRows,
           sim'[v].rowCount = sim[v].rowCount, LateOf(v)' = LateOf(v),
           \A x \in LateOf(v) : work'[v][x].seen = work[v][x].seen,
           IdleOf(v)' \ {q} = IdleOf(v) \ {q}, Total(v)' <= Total(v),
           NEW d \in {0, 1}, trouble' = trouble + d, q \in IdleOf(v)' => d = 1
    PROVE  LimitReached(v)'
<1> DEFINE r == TickAt(sim[v].rowCount)
           P == InsertsPerTick
           I == Cardinality(IdleOf(v))
           J == Cardinality(IdleOf(v)')
           c == P * TwiceTicks(Cardinality(LateOf(v)))
<1>1. SizesHold /\ AheadHolds /\ SizesHold' /\ AheadHolds'
  BY NumbersNow
<1>2. TwiceBound' = TwiceBound + 2 * (P * d)
  BY <1>1, BoundGrows
<1>3. /\ Ahead(v)' = 2 * Total(v)' + 2 * (r * J) + c
      /\ AheadAtMost(v) = 2 * Total(v) + 2 * (P * I) + c
  BY AheadIs DEF AheadAtMost
<1>4. /\ r \in Nat /\ r <= P /\ P \in Nat /\ I \in Nat /\ J \in Nat /\ c \in Nat
      /\ Total(v) \in Nat /\ Total(v)' \in Nat /\ TwiceBound \in Nat /\ TwiceBound' \in Nat
  <2>1. I \in Nat /\ J \in Nat /\ Total(v) \in Nat /\ Total(v)' \in Nat /\ P \in Nat
    BY <1>1, SizesAssumption DEF SizesHold
  <2>2. r \in Nat /\ r <= P
    BY <1>1, TickAtIs DEF SizesHold
  <2>3. c \in Nat /\ TwiceBound \in Nat /\ TwiceBound' \in Nat
    BY <1>1 DEF AheadHolds
  <2> QED
    BY <2>1, <2>2, <2>3
<1>5. J <= I + d
  <2>1. IdleOf(v) \in SUBSET Query /\ IdleOf(v)' \in SUBSET Query /\ q \notin IdleOf(v) /\ q \in Query
    BY DEF IdleOf, WriteOf
  <2>2. (q \in IdleOf(v)' => J = I + 1) /\ (q \notin IdleOf(v)' => J = I)
    BY <2>1, OnePlaceChanges
  <2> QED
    BY <1>4, <2>2
<1>6. q \notin LateOf(v)' /\ q \in Query
  BY DEF LateOf, WriteOf
<1> HIDE DEF r, P, I, J, c
<1>7. r * J <= P * I + P * d
  <2>1. I + d \in Nat
    BY <1>4
  <2>2. r * J <= P * (I + d)
    BY <1>4, <1>5, <2>1, ProductGrows
  <2>3. P * (I + d) = P * I + P * d
    BY <1>4
  <2> QED
    BY <2>2, <2>3
<1>8. Ahead(v)' <= AheadAtMost(v) + 2 * (P * d) /\ AheadAtMost(v) \in Nat /\ Ahead(v)' \in Nat /\ P * d \in Nat
  <2>1. r * J \in Nat /\ P * I \in Nat /\ P * d \in Nat
    BY <1>4, ProductIsNat
  <2> QED
    BY <1>3, <1>4, <1>7, <2>1
<1>9. \/ AheadAtMost(v) <= TwiceBound
      \/ \E x \in LateOf(v) : AheadAtMost(v) <= TwiceBound + Less(work[v][x].seen)
  BY NearTheLimit
<1>10. CASE AheadAtMost(v) <= TwiceBound
  <2>1. Ahead(v)' <= TwiceBound'
    BY <1>2, <1>4, <1>8, <1>10
  <2> QED
    BY <1>6, <2>1 DEF LimitReached
<1>11. ASSUME NEW x \in LateOf(v), AheadAtMost(v) <= TwiceBound + Less(work[v][x].seen)
       PROVE  LimitReached(v)'
  <2>1. Less(work[v][x].seen) \in Nat
    <3>1. work[v][x].seen \in Nat
      BY <1>1 DEF SizesHold, LateOf, Work
    <3> QED
      BY <3>1, LessIs
  <2>2. x \in LateOf(v)' /\ work'[v][x].seen = work[v][x].seen
    BY DEF LateOf
  <2>3. Ahead(v)' <= TwiceBound' + Less(work[v][x].seen)
    BY <1>2, <1>4, <1>8, <1>11, <2>1
  <2>4. Ahead(v)' <= TwiceBound' + Less(work'[v][x].seen)
    BY <2>2, <2>3
  <2> QED
    BY <1>6, <2>2, <2>4 DEF LimitReached, Less, TickAt, Least, Minus
<1> QED
  BY <1>9, <1>10, <1>11

\* The others' counts are of no use while a write is not counted.
LEMMA OnlyOneIsNear ==
    ASSUME NEW v \in Version, NEW q \in Query, work'[v][q].step # "counted", CountIsNear(v, q)'
    PROVE  \A p \in Query : CountIsNear(v, p)'
<1> SUFFICES ASSUME NEW p \in Query, p # q PROVE CountIsNear(v, p)'
  OBVIOUS
<1>1. ~OthersCounted(v, p)'
  BY DEF OthersCounted
<1> QED
  BY <1>1 DEF CountIsNear

\* The rows known of: those of a count, the fields', or of a write more.
LEMMA KnownGrows ==
    ASSUME SizesHold, SizesHold', NEW v \in Version, NEW q \in Query,
           \A p \in Query \ {q} : work'[v][p] = work[v][p],
           sim'[v].rowCount = sim[v].rowCount,
           NEW m \in Nat, Rows' <= Rows + m, NEW a \in Nat, KnownUpTo(v, q, a),
           NEW b \in Nat, InsertsPerTick * a + m <= InsertsPerTick * b
    PROVE  \/ Rows' <= sim'[v].rowCount + InsertsPerTick * b
           \/ \E x \in Query \ {q} : Rows' <= work'[v][x].seen + InsertsPerTick * b
<1>1. /\ Rows \in Nat /\ Rows' \in Nat /\ sim[v].rowCount \in Nat /\ InsertsPerTick \in Nat
      /\ \A x \in Query : work[v][x].seen \in Nat
  BY SizesAssumption DEF SizesHold, Work
<1>2. InsertsPerTick * a \in Nat /\ InsertsPerTick * b \in Nat
  BY <1>1, ProductIsNat
<1>3. CASE Rows <= sim[v].rowCount + InsertsPerTick * a
  BY <1>1, <1>2, <1>3
<1>4. ASSUME NEW x \in Query \ {q}, Rows <= work[v][x].seen + InsertsPerTick * a
      PROVE  Rows' <= work'[v][x].seen + InsertsPerTick * b
  <2>1. work[v][x].seen \in Nat /\ work'[v][x].seen = work[v][x].seen
    BY <1>1
  <2> QED
    BY <1>1, <1>2, <1>4, <2>1
<1> QED
  BY <1>3, <1>4 DEF KnownUpTo

\* The fields a step of the overshoot reads.
LEMMA OnFacts ==
    ASSUME KeysInv, KeysInv', NEW v \in Version, sim[v].stage = "on", OverInv
    PROVE  /\ SizesHold /\ AheadHolds /\ SizesHold' /\ AheadHolds'
           /\ OnHolds(v) /\ LimitReached(v)
           /\ \A p \in Query : CountIsNear(v, p)
           /\ \A p \in WriteOf(v) : Length(work[v][p]) <= InsertsPerTick
           /\ InsertsPerTick \in Nat /\ trouble \in Nat /\ Rows \in Nat /\ Rows' \in Nat /\ MaxRows \in Nat
           /\ InsertsPerTick * trouble \in Nat
           /\ InsertsPerTick * (trouble + 1) = InsertsPerTick * trouble + InsertsPerTick
<1>1. SizesHold /\ AheadHolds /\ SizesHold' /\ AheadHolds'
  BY NumbersNow
<1>2. OnHolds(v)
  BY DEF OverInv, OverHolds
<1>3. InsertsPerTick \in Nat /\ trouble \in Nat /\ Rows \in Nat /\ Rows' \in Nat /\ MaxRows \in Nat
  BY <1>1, SizesAssumption DEF SizesHold
<1> QED
  BY <1>1, <1>2, <1>3, ProductIsNat DEF OnHolds

-----------------------------------------------------------------------------
(* The overshoot: one lemma for each step of a running version             *)

LEMMA OverTick ==
    ASSUME KeysInv, KeysInv', OverInv, NEW v \in Version, NEW q \in Query, Tick(v, q)
    PROVE  OverInv'
<1> DEFINE s == sim[v]
           r == TickAt(s.rowCount)
           m == Rendered(s, InsertsPerTick)
           w == Writing(s, InsertsPerTick)
<1>1. /\ s \in Sim /\ s.stage = "on" /\ work[v][q].step = "idle"
      /\ table' = table /\ trouble' = trouble /\ Rows' = Rows
      /\ sim' = [sim EXCEPT ![v] = m] /\ work' = [work EXCEPT ![v][q] = w]
      /\ sim \in [Version -> Sim]
  BY DEF Tick, KeysInv, TypeOK, Rows
<1>2. /\ SizesHold /\ AheadHolds /\ SizesHold' /\ AheadHolds'
      /\ OnHolds(v) /\ LimitReached(v)
      /\ \A p \in Query : CountIsNear(v, p)
      /\ \A p \in WriteOf(v) : Length(work[v][p]) <= InsertsPerTick
      /\ InsertsPerTick \in Nat /\ trouble \in Nat /\ Rows \in Nat /\ Rows' \in Nat /\ MaxRows \in Nat
      /\ InsertsPerTick * trouble \in Nat
      /\ InsertsPerTick * (trouble + 1) = InsertsPerTick * trouble + InsertsPerTick
  BY <1>1, OnFacts
<1>3. \A u \in Version \ {v} : sim[u].stage = "off" /\ sim'[u] = sim[u]
  BY <1>1, OthersAreOff DEF InUse
<1>4. sim'[v] = m /\ m.stage = "on" /\ m.rowCount = s.rowCount
  BY <1>1, <1>2, RenderedFields
<1>5. s.rowCount \in Nat /\ r \in Nat /\ r <= InsertsPerTick /\ (s.rowCount >= MaxRows => r = 0)
  BY <1>1, TickAtIs DEF Sim
<1>6. /\ w \in Work /\ w.step \in {"idle", "writing"}
      /\ w.step = "idle" <=> r = 0
      /\ w.step = "writing" => Length(w) = r /\ s.rowCount + r <= MaxRows /\ w.from <= w.to
  <2>1. Added(s, InsertsPerTick) = r
    BY DEF Added, Room, TickAt
  <2>2. /\ w \in Work /\ w.step \in {"idle", "writing"} /\ (w.step = "idle" <=> r = 0)
        /\ w.step = "writing" => w.from <= w.to
    BY <1>1, <1>2, <2>1, WritingFields
  <2>3. w.step = "writing" => Length(w) = r /\ s.rowCount + Length(w) <= MaxRows
    BY <1>1, <1>2, <2>1, <2>2, BeginsWithin
  <2> HIDE DEF w, r
  <2> QED
    BY <2>2, <2>3
<1> HIDE DEF s, r, m, w
<1>7. /\ work'[v][q] = w /\ \A p \in Query \ {q} : work'[v][p] = work[v][p]
      /\ IdleOf(v)' \ {q} = IdleOf(v) \ {q} /\ (q \in IdleOf(v)' <=> w.step = "idle")
      /\ WriteOf(v)' \ {q} = WriteOf(v) \ {q} /\ (q \in WriteOf(v)' <=> w.step = "writing")
      /\ LateOf(v)' \ {q} = LateOf(v) \ {q}
      /\ q \in LateOf(v)' <=> w.step = "counted" /\ w.seen < MaxRows
      /\ w.step # "writing" => Pending(v)' \subseteq Pending(v)
      /\ w.step = "writing" => Pending(v)' \subseteq Pending(v) \cup Keys(w)
  BY <1>1, <1>6, PlacesStep
<1>8. q \in IdleOf(v) /\ q \notin WriteOf(v) /\ q \notin LateOf(v)
  BY <1>1 DEF IdleOf, WriteOf, LateOf
<1>9. LateOf(v)' = LateOf(v) /\ \A x \in LateOf(v) : work'[v][x].seen = work[v][x].seen
  <2>1. LateOf(v)' = LateOf(v)
    BY <1>6, <1>7, <1>8
  <2>2. \A x \in LateOf(v) : x \in Query /\ x # q
    BY <1>8 DEF LateOf
  <2> QED
    BY <1>7, <2>1, <2>2
<1>10. LimitReached(v)'
  <2>1. CASE Rows < MaxRows
    BY <1>1, <1>2, <2>1 DEF LimitReached
  <2>2. CASE Rows >= MaxRows
    <3>1. Ahead(v)' <= Ahead(v) + 2 * (InsertsPerTick * 0)
      <4>1. CASE r = 0
        <5>1. (table \cup Pending(v))' \subseteq table \cup Pending(v)
          BY <1>1, <1>6, <1>7, <4>1
        <5>2. Total(v)' <= Total(v)
          BY <1>2, <5>1, TotalShrinks
        <5>3. q \in IdleOf(v)' <=> q \in IdleOf(v)
          BY <1>6, <1>7, <1>8, <4>1
        <5>4. sim'[v].rowCount = sim[v].rowCount
          BY <1>4 DEF s
        <5> QED
          BY <1>2, <1>7, <1>9, <5>2, <5>3, <5>4, AheadStep
      <4>2. CASE r # 0
        <5>1. w.step = "writing" /\ Length(w) = r /\ w.from <= w.to
          BY <1>6, <4>2
        <5>2. (table \cup Pending(v))' \subseteq table \cup Pending(v) \cup Keys(w)
          BY <1>1, <1>7, <5>1
        <5>3. Total(v)' <= Total(v) + TickAt(sim[v].rowCount)
          <6>1. Total(v)' <= Total(v) + Length(w)
            BY <1>2, <1>6, <5>1, <5>2, TotalGrows
          <6> QED
            BY <5>1, <6>1 DEF r, s
        <5>4. q \in IdleOf(v) /\ q \notin IdleOf(v)'
          BY <1>7, <1>8, <5>1
        <5>5. sim'[v].rowCount = sim[v].rowCount
          BY <1>4 DEF s
        <5> QED
          BY <1>2, <1>7, <1>9, <5>3, <5>4, <5>5, AheadStep
      <4> QED
        BY <4>1, <4>2
    <3>2. Frozen(v) => Frozen(v)'
      <4> SUFFICES ASSUME Frozen(v) PROVE Frozen(v)'
        OBVIOUS
      <4>1. table \in FirstRows /\ s.rowCount >= MaxRows /\ WriteOf(v) = {} /\ LateOf(v) = {}
        BY DEF Frozen, s
      <4>2. w.step = "idle"
        BY <1>5, <1>6, <4>1
      <4>3. WriteOf(v)' = {} /\ LateOf(v)' = {}
        BY <1>7, <1>9, <4>1, <4>2
      <4> QED
        BY <1>1, <1>4, <4>1, <4>3 DEF Frozen
    <3>3. trouble' = trouble + 0
      BY <1>1, <1>2
    <3> QED
      BY <1>2, <1>9, <2>2, <3>1, <3>2, <3>3, LimitStays
  <2> QED
    BY <1>2, <2>1, <2>2
<1>11. \A p \in WriteOf(v)' : Length(work'[v][p]) <= InsertsPerTick
  <2> SUFFICES ASSUME NEW p \in WriteOf(v)' PROVE Length(work'[v][p]) <= InsertsPerTick
    OBVIOUS
  <2>1. p \in Query
    BY DEF WriteOf
  <2>2. CASE p = q
    BY <1>5, <1>6, <1>7, <2>2
  <2>3. CASE p # q
    BY <1>2, <1>7, <2>1, <2>3
  <2> QED
    BY <2>2, <2>3
<1>12. CountIsNear(v, q)'
  <2> SUFFICES ASSUME OthersCounted(v, q)'
               PROVE  /\ KnownUpTo(v, q, trouble)'
                      /\ w.step = "writing" => WriteHasRoom(v, q)' /\ WriteIsNear(v, q)'
    BY <1>1, <1>6, <1>7 DEF CountIsNear
  <2>1. OthersCounted(v, q)
    BY <1>7 DEF OthersCounted
  <2>2. KnownUpTo(v, q, trouble)
    BY <1>1, <1>2, <2>1 DEF CountIsNear
  <2>3. \/ Rows <= s.rowCount + InsertsPerTick * trouble
        \/ \E x \in Query \ {q} : Rows <= work[v][x].seen + InsertsPerTick * trouble
    BY <2>2 DEF KnownUpTo, s
  <2>4. KnownUpTo(v, q, trouble)'
    BY <1>1, <1>4, <1>7, <2>3 DEF KnownUpTo
  <2>5. ASSUME w.step = "writing" PROVE WriteHasRoom(v, q)' /\ WriteIsNear(v, q)'
    <3>1. Length(w) = r /\ s.rowCount + r <= MaxRows
      BY <1>6, <2>5
    <3>2. CASE Rows <= s.rowCount + InsertsPerTick * trouble
      <4>1. /\ Rows' + Length(w) <= MaxRows + InsertsPerTick * trouble'
            /\ Rows' + Length(w) <= s.rowCount + InsertsPerTick * (trouble' + 1)
        BY <1>1, <1>2, <1>5, <3>1, <3>2
      <4> QED
        BY <1>4, <1>7, <4>1 DEF WriteHasRoom, WriteIsNear, Length
    <3>3. ASSUME NEW x \in Query \ {q}, Rows <= work[v][x].seen + InsertsPerTick * trouble
          PROVE  WriteHasRoom(v, q)' /\ WriteIsNear(v, q)'
      <4>1. work'[v][x].seen = work[v][x].seen /\ work[v][x].seen \in Nat
        BY <1>2, <1>7 DEF SizesHold, Work
      <4>2. Rows' + Length(w) <= work'[v][x].seen + InsertsPerTick * (trouble' + 1)
        BY <1>1, <1>2, <1>5, <3>1, <3>3, <4>1
      <4> QED
        BY <1>7, <4>2 DEF WriteHasRoom, WriteIsNear, Length
    <3> QED
      BY <2>3, <3>2, <3>3
  <2> QED
    BY <2>4, <2>5
<1>13. \A p \in Query : CountIsNear(v, p)'
  BY <1>6, <1>7, <1>12, OnlyOneIsNear
<1>14. OnHolds(v)'
  BY <1>10, <1>11, <1>13 DEF OnHolds, Length
<1>15. OverHolds(v)'
  BY <1>4, <1>14 DEF OverHolds
<1> QED
  BY <1>3, <1>4, <1>15, OverGoesOn

\* The keys a statement leaves to be written are fewer, whether it is applied or not.
LEMMA WriteIsApplied ==
    ASSUME KeysInv, KeysInv', NEW v \in Version, NEW q \in Query, work[v][q].step = "writing",
           NEW w \in Work, work' = [work EXCEPT ![v][q] = w],
           w.step = "writing" => Keys(w) \subseteq Keys(work[v][q]),
           table' = table \/ table' = table \cup Chunk(work[v][q])
    PROVE  /\ Total(v)' <= Total(v)
           /\ \E n \in Nat : Rows' = Rows + n /\ n <= Length(work[v][q])
           /\ Length(work[v][q]) \in Nat
<1>1. SizesHold /\ SizesHold'
  BY NumbersNow
<1>2. /\ q \in WriteOf(v) /\ work[v][q] \in Work /\ work[v][q].from <= work[v][q].to
      /\ Chunk(work[v][q]) \subseteq Keys(work[v][q])
  BY ChunkIsNew DEF WriteOf
<1>3. /\ Keys(work[v][q]) \subseteq Pending(v)
      /\ w.step # "writing" => Pending(v)' \subseteq Pending(v)
      /\ w.step = "writing" => Pending(v)' \subseteq Pending(v) \cup Keys(w)
  BY <1>2, PlacesStep
<1>4. (table \cup Pending(v))' \subseteq table \cup Pending(v)
  BY <1>2, <1>3
<1>5. Length(work[v][q]) \in Nat
  BY <1>2, KeysCount1
<1>6. \E n \in Nat : Rows' = Rows + n /\ n <= Length(work[v][q])
  <2>1. CASE table' = table
    <3>1. Rows' = Rows + 0 /\ 0 \in Nat /\ 0 <= Length(work[v][q])
      BY <1>1, <1>5, <2>1 DEF SizesHold, Rows
    <3> QED
      BY <3>1
  <2>2. CASE table' = table \cup Chunk(work[v][q])
    BY <2>2, ChunkCount DEF Writes
  <2> QED
    BY <2>1, <2>2
<1> QED
  BY <1>1, <1>4, <1>5, <1>6, TotalShrinks

\* A write is applied and to be counted, or fails.
Ends(v, q, w, d) ==
    /\ \/ /\ work[v][q].step = "writing"
          /\ table' = table \/ table' = table \cup Chunk(work[v][q])
       \/ work[v][q].step = "counting" /\ table' = table /\ d = 1
    /\ (w.step = "counting" /\ d = 0) \/ (w.step = "idle" /\ d = 1)

LEMMA OnWriteEnds ==
    ASSUME KeysInv, KeysInv', OverInv, NEW v \in Version, NEW q \in Query,
           sim[v].stage = "on", sim'[v].stage = "on", sim'[v].rowCount = sim[v].rowCount,
           NEW w \in Work, work' = [work EXCEPT ![v][q] = w],
           NEW d \in {0, 1}, trouble' = trouble + d, Ends(v, q, w, d)
    PROVE  OnHolds(v)'
<1> DEFINE P == InsertsPerTick
<1>1. /\ SizesHold /\ AheadHolds /\ SizesHold' /\ AheadHolds'
      /\ OnHolds(v) /\ LimitReached(v)
      /\ \A p \in Query : CountIsNear(v, p)
      /\ \A p \in WriteOf(v) : Length(work[v][p]) <= P
      /\ P \in Nat /\ trouble \in Nat /\ Rows \in Nat /\ Rows' \in Nat /\ MaxRows \in Nat
      /\ P * trouble \in Nat
      /\ P * (trouble + 1) = P * trouble + P
  BY OnFacts
<1>2. /\ w.step # "writing" /\ w.step # "counted" /\ (w.step = "idle" => d = 1)
      /\ (w.step = "counting" /\ d = 0) \/ (w.step = "idle" /\ d = 1)
      /\ work[v][q].step \in {"writing", "counting"}
      /\ work[v][q].step = "counting" => table' = table /\ d = 1
      /\ work[v][q].step = "writing" => table' = table \/ table' = table \cup Chunk(work[v][q])
  BY DEF Ends
<1>3. /\ work'[v][q] = w /\ \A p \in Query \ {q} : work'[v][p] = work[v][p]
      /\ IdleOf(v)' \ {q} = IdleOf(v) \ {q} /\ (q \in IdleOf(v)' <=> w.step = "idle")
      /\ WriteOf(v)' \ {q} = WriteOf(v) \ {q} /\ (q \in WriteOf(v)' <=> w.step = "writing")
      /\ LateOf(v)' \ {q} = LateOf(v) \ {q}
      /\ q \in LateOf(v)' <=> w.step = "counted" /\ w.seen < MaxRows
      /\ w.step # "writing" => Pending(v)' \subseteq Pending(v)
  <2>1. work'[v][q] = w /\ \A p \in Query \ {q} : work'[v][p] = work[v][p]
    BY DEF KeysInv, TypeOK
  <2>2. IdleOf(v)' \ {q} = IdleOf(v) \ {q}
    BY PlacesStep
  <2>3. (q \in IdleOf(v)' <=> w.step = "idle")
    BY <2>1 DEF IdleOf
  <2>4. WriteOf(v)' \ {q} = WriteOf(v) \ {q} /\ (q \in WriteOf(v)' <=> w.step = "writing")
    BY PlacesStep
  <2>5. LateOf(v)' \ {q} = LateOf(v) \ {q}
    BY PlacesStep
  <2>6. q \in LateOf(v)' <=> w.step = "counted" /\ w.seen < MaxRows
    BY PlacesStep
  <2>7. w.step # "writing" => Pending(v)' \subseteq Pending(v)
    BY PlacesStep
  <2> QED
    BY <2>1, <2>2, <2>3, <2>4, <2>5, <2>6, <2>7
<1>4. q \notin IdleOf(v) /\ q \notin LateOf(v) /\ (q \in WriteOf(v) <=> work[v][q].step = "writing")
  <2>1. work[v][q].step \in {"writing", "counting"}
    BY <1>2
  <2>2. q \notin IdleOf(v)
    BY <2>1 DEF IdleOf
  <2>3. q \notin LateOf(v)
    BY <2>1 DEF LateOf
  <2>4. q \in WriteOf(v) <=> work[v][q].step = "writing"
    BY DEF WriteOf
  <2> QED
    BY <2>2, <2>3, <2>4
<1>5. LateOf(v)' = LateOf(v) /\ \A x \in LateOf(v) : work'[v][x].seen = work[v][x].seen
  <2>1. LateOf(v)' = LateOf(v)
    <3>1. q \notin LateOf(v)' /\ q \notin LateOf(v) /\ LateOf(v)' \ {q} = LateOf(v) \ {q}
      BY <1>2, <1>3, <1>4
    <3> QED
      BY <3>1
  <2>2. \A x \in LateOf(v) : x \in Query /\ x # q
    BY <1>4 DEF LateOf
  <2> QED
    BY <1>3, <2>1, <2>2
<1>6. /\ Total(v)' <= Total(v)
      /\ \E n \in Nat : /\ Rows' = Rows + n /\ n <= P /\ (work[v][q].step = "counting" => n = 0)
                        /\ work[v][q].step = "writing" => n <= Length(work[v][q])
  <2>1. CASE work[v][q].step = "writing"
    <3>1. /\ Total(v)' <= Total(v)
          /\ \E n \in Nat : Rows' = Rows + n /\ n <= Length(work[v][q])
          /\ Length(work[v][q]) \in Nat
      BY <1>2, <2>1, WriteIsApplied
    <3>2. Length(work[v][q]) <= P
      BY <1>1, <1>4, <2>1
    <3> QED
      BY <1>1, <2>1, <3>1, <3>2
  <2>2. CASE work[v][q].step = "counting"
    <3>1. (table \cup Pending(v))' \subseteq table \cup Pending(v)
      BY <1>2, <1>3, <2>2
    <3>2. Total(v)' <= Total(v)
      BY <1>1, <3>1, TotalShrinks
    <3>3. Rows' = Rows + 0 /\ 0 \in Nat /\ 0 <= P
      BY <1>1, <1>2, <2>2 DEF Rows
    <3> QED
      BY <2>2, <3>2, <3>3
  <2> QED
    BY <1>2, <2>1, <2>2
<1>7. PICK n \in Nat : /\ Rows' = Rows + n /\ n <= P /\ (work[v][q].step = "counting" => n = 0)
                       /\ work[v][q].step = "writing" => n <= Length(work[v][q])
  BY <1>6
<1>8. LimitReached(v)'
  <2>1. CASE Rows >= MaxRows
    <3>1. Ahead(v)' <= Ahead(v) + 2 * (P * d)
      <4>1. \/ (q \in IdleOf(v)' <=> q \in IdleOf(v)) /\ Total(v)' <= Total(v)
            \/ q \notin IdleOf(v) /\ q \in IdleOf(v)' /\ Total(v)' <= Total(v) /\ d = 1
        BY <1>2, <1>3, <1>4, <1>6
      <4> QED
        BY <1>1, <1>3, <1>5, <4>1, AheadStep
    <3>2. Frozen(v) => Frozen(v)'
      <4> SUFFICES ASSUME Frozen(v) PROVE Frozen(v)'
        OBVIOUS
      <4>1. table \in FirstRows /\ sim[v].rowCount >= MaxRows /\ WriteOf(v) = {} /\ LateOf(v) = {}
        BY DEF Frozen
      <4>2. table' = table /\ WriteOf(v)' = {} /\ LateOf(v)' = {}
        BY <1>2, <1>3, <1>4, <1>5, <4>1
      <4> QED
        BY <4>1, <4>2 DEF Frozen
    <3> QED
      BY <1>1, <1>5, <2>1, <3>1, <3>2, LimitStays
  <2>2. CASE Rows < MaxRows /\ work[v][q].step = "writing"
    <3>1. q \in WriteOf(v) /\ (q \in IdleOf(v)' => d = 1)
      BY <1>2, <1>3, <1>4, <2>2
    <3> QED
      BY <1>1, <1>3, <1>5, <1>6, <2>2, <3>1, LimitIsReached
  <2>3. CASE Rows < MaxRows /\ work[v][q].step = "counting"
    <3>1. Rows' < MaxRows
      BY <1>1, <1>7, <2>3
    <3> QED
      BY <1>1, <3>1 DEF LimitReached
  <2> QED
    BY <1>1, <1>2, <2>1, <2>2, <2>3
<1>9. \A p \in WriteOf(v)' : Length(work'[v][p]) <= P
  <2> SUFFICES ASSUME NEW p \in WriteOf(v)' PROVE Length(work'[v][p]) <= P
    OBVIOUS
  <2>1. p \in Query /\ p # q
    BY <1>2, <1>3 DEF WriteOf
  <2> QED
    BY <1>1, <1>3, <2>1
<1>10. CountIsNear(v, q)'
  <2> SUFFICES ASSUME OthersCounted(v, q)'
               PROVE  /\ w.step = "idle" => KnownUpTo(v, q, trouble)'
                      /\ w.step = "counting" => KnownUpTo(v, q, trouble + 1)'
    BY <1>2, <1>3 DEF CountIsNear
  <2>1. OthersCounted(v, q)
    BY <1>3 DEF OthersCounted
  <2>2. CASE work[v][q].step = "writing"
    <3>1. WriteIsNear(v, q)
      BY <1>1, <2>1, <2>2 DEF CountIsNear
    <3>2. /\ sim[v].rowCount \in Nat /\ \A x \in Query : work[v][x].seen \in Nat
          /\ Length(work[v][q]) \in Int /\ P * (trouble + 1) \in Nat
      <4>1. work[v][q] \in Work
        BY <1>1 DEF SizesHold
      <4>2. Length(work[v][q]) \in Int
        BY <4>1 DEF Work, Length
      <4>3. sim[v].rowCount \in Nat /\ \A x \in Query : work[v][x].seen \in Nat
        BY <1>1 DEF SizesHold, Work
      <4> QED
        BY <1>1, <4>2, <4>3
    <3>3. \/ Rows' <= sim'[v].rowCount + P * (trouble + 1)
          \/ \E x \in Query \ {q} : Rows' <= work'[v][x].seen + P * (trouble + 1)
      <4>1. CASE Rows + Length(work[v][q]) <= sim[v].rowCount + P * (trouble + 1)
        BY <1>1, <1>7, <2>2, <3>2, <4>1
      <4>2. ASSUME NEW x \in Query \ {q}, Rows + Length(work[v][q]) <= work[v][x].seen + P * (trouble + 1)
            PROVE  Rows' <= work'[v][x].seen + P * (trouble + 1)
        <5>1. work'[v][x].seen = work[v][x].seen /\ work[v][x].seen \in Nat
          BY <1>3, <3>2
        <5> QED
          BY <1>1, <1>7, <2>2, <3>2, <4>2, <5>1
      <4> QED
        BY <3>1, <4>1, <4>2 DEF WriteIsNear
    <3>4. (w.step = "idle" => trouble' = trouble + 1) /\ (w.step = "counting" => trouble' = trouble)
      BY <1>1, <1>2
    <3> QED
      BY <3>3, <3>4 DEF KnownUpTo
  <2>3. CASE work[v][q].step = "counting"
    <3>1. KnownUpTo(v, q, trouble + 1)
      BY <1>1, <2>1, <2>3 DEF CountIsNear
    <3>2. P * (trouble + 1) + 0 <= P * (trouble + 1) /\ trouble + 1 \in Nat /\ Rows' <= Rows + 0 /\ 0 \in Nat
      BY <1>1, <1>7, <2>3
    <3>3. \/ Rows' <= sim'[v].rowCount + P * (trouble + 1)
          \/ \E x \in Query \ {q} : Rows' <= work'[v][x].seen + P * (trouble + 1)
      BY <1>1, <1>3, <3>1, <3>2, KnownGrows
    <3>4. w.step = "idle" /\ trouble' = trouble + 1
      BY <1>2, <2>3
    <3> QED
      BY <3>3, <3>4 DEF KnownUpTo
  <2> QED
    BY <1>2, <2>2, <2>3
<1>11. \A p \in Query : CountIsNear(v, p)'
  BY <1>2, <1>3, <1>10, OnlyOneIsNear
<1> QED
  BY <1>8, <1>9, <1>11 DEF OnHolds, Length

\* A write of a running version goes on with its next statement.
LEMMA OnWriteGoesOn ==
    ASSUME KeysInv, KeysInv', OverInv, NEW v \in Version, NEW q \in Query,
           sim[v].stage = "on", sim'[v] = sim[v], trouble' = trouble,
           work[v][q].step = "writing", table' = table \cup Chunk(work[v][q]),
           NEW w \in Work, work' = [work EXCEPT ![v][q] = w], w.step = "writing",
           w.from = work[v][q].from + ChunkSize, w.to = work[v][q].to, w.from <= w.to
    PROVE  OnHolds(v)'
<1> DEFINE P == InsertsPerTick
           rest == Length(w)
           all == Length(work[v][q])
<1>1. /\ SizesHold /\ AheadHolds /\ SizesHold' /\ AheadHolds'
      /\ OnHolds(v) /\ LimitReached(v)
      /\ \A p \in Query : CountIsNear(v, p)
      /\ \A p \in WriteOf(v) : Length(work[v][p]) <= P
      /\ P \in Nat /\ trouble \in Nat /\ Rows \in Nat /\ Rows' \in Nat /\ MaxRows \in Nat
      /\ P * trouble \in Nat
      /\ P * (trouble + 1) = P * trouble + P
  BY OnFacts
<1>2. /\ work'[v][q] = w /\ \A p \in Query \ {q} : work'[v][p] = work[v][p]
      /\ IdleOf(v)' \ {q} = IdleOf(v) \ {q} /\ q \notin IdleOf(v)'
      /\ WriteOf(v)' \ {q} = WriteOf(v) \ {q} /\ q \in WriteOf(v)'
      /\ LateOf(v)' \ {q} = LateOf(v) \ {q} /\ q \notin LateOf(v)'
  BY PlacesStep
<1>3. q \notin IdleOf(v) /\ q \notin LateOf(v) /\ q \in WriteOf(v)
  BY DEF IdleOf, LateOf, WriteOf
<1>4. LateOf(v)' = LateOf(v) /\ \A x \in LateOf(v) : x # q /\ work'[v][x].seen = work[v][x].seen
  <2>1. LateOf(v)' = LateOf(v)
    <3>1. q \notin LateOf(v)' /\ q \notin LateOf(v) /\ LateOf(v)' \ {q} = LateOf(v) \ {q}
      BY <1>2, <1>3
    <3> QED
      BY <3>1
  <2>2. \A x \in LateOf(v) : x \in Query /\ x # q
    BY <1>3 DEF LateOf
  <2> QED
    BY <1>2, <2>1, <2>2
<1>5. /\ all \in Nat /\ rest \in Nat /\ rest <= all /\ all = rest + ChunkSize
      /\ ChunkSize \in Nat /\ Rows' = Rows + ChunkSize
  <2>1. /\ work[v][q] \in Work /\ work[v][q].from \in Nat /\ work[v][q].to \in Nat
        /\ work[v][q].from <= work[v][q].to /\ ChunkSize \in Nat
    BY ChunkIsNew, SizesAssumption DEF Work
  <2>2. all \in Nat /\ rest \in Nat /\ rest <= all /\ all = rest + ChunkSize
    BY <2>1 DEF Length
  <2>3. Writes(v, q)
    BY DEF Writes
  <2>4. Rows' = Rows + ChunkSize
    BY <2>1, <2>3, ChunkCount
  <2> QED
    BY <2>1, <2>2, <2>4
<1>6. Total(v)' <= Total(v)
  <2>1. Keys(w) \subseteq Keys(work[v][q])
    <3>1. /\ work[v][q] \in Work /\ work[v][q].from \in Nat /\ work[v][q].to \in Nat /\ ChunkSize \in Nat
      BY ChunkIsNew, SizesAssumption DEF Work
    <3> QED
      BY <3>1 DEF Keys
  <2> QED
    BY <2>1, WriteIsApplied
<1> HIDE DEF P, rest, all
<1>7. LimitReached(v)'
  <2>1. trouble' = trouble + 0 /\ 0 \in {0, 1} /\ sim'[v].rowCount = sim[v].rowCount
    BY <1>1
  <2>2. CASE Rows < MaxRows
    BY <1>1, <1>2, <1>3, <1>4, <1>6, <2>1, <2>2, LimitIsReached
  <2>3. CASE Rows >= MaxRows
    <3>1. Ahead(v)' <= Ahead(v) + 2 * (InsertsPerTick * 0)
      BY <1>1, <1>2, <1>3, <1>4, <1>6, <2>1, AheadStep
    <3>2. ~Frozen(v)
      BY <1>3 DEF Frozen
    <3> QED
      BY <1>1, <1>4, <2>1, <2>3, <3>1, <3>2, LimitStays
  <2> QED
    BY <1>1, <2>2, <2>3
<1>8. \A p \in WriteOf(v)' : Length(work'[v][p]) <= P
  <2> SUFFICES ASSUME NEW p \in WriteOf(v)' PROVE Length(work'[v][p]) <= P
    OBVIOUS
  <2>1. CASE p = q
    <3>1. all <= P
      BY <1>1, <1>3 DEF all
    <3> QED
      BY <1>1, <1>2, <1>5, <2>1, <3>1 DEF rest
  <2>2. CASE p # q
    <3>1. p \in WriteOf(v) /\ p \in Query
      BY <1>2, <2>2 DEF WriteOf
    <3> QED
      BY <1>1, <1>2, <2>2, <3>1
  <2> QED
    BY <2>1, <2>2
<1>9. CountIsNear(v, q)'
  <2> SUFFICES ASSUME OthersCounted(v, q)' PROVE WriteHasRoom(v, q)' /\ WriteIsNear(v, q)'
    BY <1>2 DEF CountIsNear
  <2>1. OthersCounted(v, q)
    BY <1>2 DEF OthersCounted
  <2>2. WriteHasRoom(v, q) /\ WriteIsNear(v, q)
    BY <1>1, <2>1 DEF CountIsNear
  <2>3. Rows' + Length(work'[v][q]) = Rows + Length(work[v][q])
    BY <1>1, <1>2, <1>5 DEF rest, all
  <2>4. \A x \in Query \ {q} : work'[v][x].seen = work[v][x].seen
    BY <1>2
  <2>5. WriteHasRoom(v, q)'
    BY <2>2, <2>3, <2>4 DEF WriteHasRoom, Length
  <2>6. WriteIsNear(v, q)'
    BY <2>2, <2>3, <2>4 DEF WriteIsNear, Length
  <2> QED
    BY <2>5, <2>6
<1>10. \A p \in Query : CountIsNear(v, p)'
  BY <1>2, <1>9, OnlyOneIsNear
<1> QED
  BY <1>7, <1>8, <1>10 DEF OnHolds, Length, P

-----------------------------------------------------------------------------
(* The overshoot: one lemma for each step of a write                       *)

LEMMA ClosingGoesOn ==
    ASSUME KeysInv, KeysInv', NEW v \in Version, ClosingHolds(v), Total(v)' <= Total(v),
           NEW d \in {0, 1}, trouble' = trouble + d,
           WriteOf(v) = {} => WriteOf(v)' = {} /\ table' = table
    PROVE  ClosingHolds(v)'
<1>1. SizesHold /\ AheadHolds /\ SizesHold' /\ AheadHolds'
  BY NumbersNow
<1>2. TwiceBound' = TwiceBound + 2 * (InsertsPerTick * d)
  BY <1>1, BoundGrows
<1>3. TwiceBound \in Nat /\ InsertsPerTick * d \in Nat /\ Total(v) \in Nat /\ Total(v)' \in Nat
  <2>1. TwiceBound \in Nat
    BY <1>1 DEF AheadHolds
  <2>2. Total(v) \in Nat /\ Total(v)' \in Nat
    BY <1>1 DEF SizesHold
  <2>3. InsertsPerTick * d \in Nat
    BY SizesAssumption
  <2> QED
    BY <2>1, <2>2, <2>3
<1>4. 2 * Total(v) <= TwiceBound => 2 * Total(v)' <= TwiceBound'
  BY <1>2, <1>3
<1> QED
  BY <1>4 DEF ClosingHolds

\* A seed is given up, or its version stops: its rows are within the limit.
LEMMA SeedCloses ==
    ASSUME KeysInv, KeysInv', NEW v \in Version, Total(v)' <= Total(v), Total(v) <= MaxRows
    PROVE  ClosingHolds(v)'
<1>1. SizesHold /\ SizesHold' /\ AheadHolds'
  BY NumbersNow
<1>2. /\ Total(v) \in Nat /\ Total(v)' \in Nat /\ MaxRows \in Nat /\ TwiceBound' \in Nat
      /\ 2 * MaxRows <= TwiceBound'
  <2>1. /\ Total(v) \in Nat /\ Total(v)' \in Nat /\ MaxRows \in Nat /\ TwiceBound' \in Nat
        /\ InsertsPerTick * TwiceTicks(InFlight - 1) \in Nat /\ InsertsPerTick * trouble' \in Nat
        /\ TwiceBound' = 2 * MaxRows + InsertsPerTick * TwiceTicks(InFlight - 1) + 2 * (InsertsPerTick * trouble')
    BY <1>1, SizesAssumption DEF SizesHold, AheadHolds
  <2> QED
    BY <2>1
<1>3. 2 * Total(v)' <= TwiceBound'
  BY <1>2
<1> QED
  BY <1>3 DEF ClosingHolds

LEMMA OverInsert ==
    ASSUME KeysInv, KeysInv', OverInv, NEW v \in Version, NEW q \in Query, Insert(v, q)
    PROVE  OverInv'
<1> DEFINE w == work[v][q]
           ended == sim[v].stage = "closing"
           after == AfterInsert(w, ended)
           s == IF after = NoWork THEN Failed(sim[v]) ELSE sim[v]
<1>1. /\ w.step = "writing" /\ trouble' = trouble + 0 /\ table' = table \cup Chunk(w)
      /\ work' = [work EXCEPT ![v][q] = after] /\ sim' = [sim EXCEPT ![v] = s]
  BY SizesAssumption DEF Insert, KeysInv, TypeOK
<1>2. /\ sim[v] \in Sim /\ sim[v].stage \in {"seeding", "on", "closing"}
      /\ \A u \in Version \ {v} : sim[u].stage = "off"
      /\ sim \in [Version -> Sim]
  BY <1>1, WritesInUse DEF KeysInv, TypeOK
<1>3. /\ w \in Work /\ w.from <= w.to /\ w.from \in Nat /\ w.to \in Nat
      /\ ChunkSize \in Nat /\ InsertsPerTick \in Nat
  BY <1>1, ChunkIsNew, SizesAssumption DEF Work
<1>4. /\ after \in Work /\ after.step \in {"idle", "counting", "writing"}
      /\ after = NoWork <=> ended
      /\ after.step = "idle" <=> ended
      /\ after.step = "writing" =>
           after.from = w.from + ChunkSize /\ after.to = w.to /\ w.from + ChunkSize <= w.to
  <2>1. ended \in BOOLEAN
    OBVIOUS
  <2> HIDE DEF ended
  <2> QED
    BY <1>1, <1>3, <2>1, AfterInsertFields
<1>5. s \in Sim /\ s.stage = sim[v].stage /\ (~ended => s = sim[v])
  BY <1>2, <1>4, FailedFields
<1>6. sim'[v] = s /\ \A u \in Version \ {v} : sim[u].stage = "off" /\ sim'[u] = sim[u]
  BY <1>1, <1>2
<1> HIDE DEF after, s
<1>7. after.step = "writing" => Keys(after) \subseteq Keys(w)
  BY <1>3, <1>4 DEF Keys
<1>8. Total(v)' <= Total(v)
  BY <1>1, <1>4, <1>7, WriteIsApplied
<1>9. OverHolds(v)'
  <2>1. CASE sim[v].stage = "on"
    <3>1. sim'[v] = sim[v]
      BY <1>5, <1>6, <2>1
    <3>2. ASSUME after.step = "counting" PROVE OnHolds(v)'
      <4>1. Ends(v, q, after, 0)
        BY <1>1, <3>2 DEF Ends
      <4> QED
        BY <1>1, <1>4, <2>1, <3>1, <4>1, OnWriteEnds
    <3>3. ASSUME after.step = "writing" PROVE OnHolds(v)'
      <4>1. /\ after.from = work[v][q].from + ChunkSize /\ after.to = work[v][q].to
            /\ after.from <= after.to /\ trouble' = trouble
        BY <1>1, <1>4, <3>3 DEF Insert
      <4> QED
        BY <1>1, <1>4, <2>1, <3>1, <3>3, <4>1, OnWriteGoesOn
    <3> QED
      BY <1>4, <2>1, <3>1, <3>2, <3>3 DEF OverHolds
  <2>2. CASE sim[v].stage = "seeding"
    <3>1. OneWrite(v) /\ Total(v) <= MaxRows
      BY <2>2 DEF OverInv, OverHolds, SeedHolds
    <3>2. \A p \in Query \ {q} : work[v][p].step = "idle"
      BY <1>1, <3>1, OnlyWrite
    <3>3. work'[v][q] = after /\ \A p \in Query \ {q} : work'[v][p] = work[v][p]
      BY <1>1 DEF KeysInv, TypeOK
    <3>4. OneWrite(v)'
      BY <3>2, <3>3 DEF OneWrite
    <3>5. \A p \in Query : work'[v][p].step # "counted"
      BY <1>4, <3>2, <3>3
    <3>6. Total(v)' <= MaxRows
      <4>1. Total(v) \in Nat /\ Total(v)' \in Nat /\ MaxRows \in Nat
        BY NumbersNow, SizesAssumption DEF SizesHold
      <4> QED
        BY <1>8, <3>1, <4>1
    <3>7. SeedHolds(v)'
      BY <3>4, <3>5, <3>6 DEF SeedHolds
    <3> QED
      BY <1>5, <1>6, <2>2, <3>7 DEF OverHolds
  <2>3. CASE sim[v].stage = "closing"
    <3>1. ClosingHolds(v)
      BY <2>3 DEF OverInv, OverHolds
    <3>2. WriteOf(v) # {}
      BY <1>1 DEF WriteOf
    <3>3. ClosingHolds(v)'
      BY <1>1, <1>8, <3>1, <3>2, ClosingGoesOn
    <3> QED
      BY <1>5, <1>6, <2>3, <3>3 DEF OverHolds
  <2> QED
    BY <1>2, <2>1, <2>2, <2>3
<1> QED
  BY <1>2, <1>5, <1>6, <1>9, OverGoesOn

LEMMA OverQueryFails ==
    ASSUME KeysInv, KeysInv', OverInv, NEW v \in Version, NEW q \in Query, QueryFails(v, q)
    PROVE  OverInv'
<1> DEFINE s == Failed(sim[v])
<1>1. /\ trouble' = trouble + 1 /\ work[v][q].step \in {"writing", "counting"}
      /\ table' = table \/ (work[v][q].step = "writing" /\ table' = table \cup Chunk(work[v][q]))
      /\ work' = [work EXCEPT ![v][q] = NoWork] /\ sim' = [sim EXCEPT ![v] = s]
  BY DEF QueryFails
<1>2. /\ sim[v] \in Sim /\ sim[v].stage \in {"seeding", "on", "closing"}
      /\ \A u \in Version \ {v} : sim[u].stage = "off"
      /\ sim \in [Version -> Sim] /\ NoWork \in Work /\ NoWork.step = "idle"
  BY <1>1, WritesInUse, UnusedTypes DEF KeysInv, TypeOK
<1>3. /\ s \in Sim /\ s.rowCount = sim[v].rowCount
      /\ s.stage = IF sim[v].stage = "seeding" THEN "closing" ELSE sim[v].stage
  BY <1>2, FailedFields
<1>4. sim'[v] = s /\ \A u \in Version \ {v} : sim[u].stage = "off" /\ sim'[u] = sim[u]
  BY <1>1, <1>2
<1> HIDE DEF s
<1>5. /\ WriteOf(v)' \ {q} = WriteOf(v) \ {q} /\ q \notin WriteOf(v)'
      /\ Pending(v)' \subseteq Pending(v)
  BY <1>1, <1>2, PlacesStep
<1>6. Total(v)' <= Total(v)
  <2>1. CASE work[v][q].step = "writing"
    BY <1>1, <1>2, <2>1, WriteIsApplied
  <2>2. CASE work[v][q].step = "counting"
    <3>1. (table \cup Pending(v))' \subseteq table \cup Pending(v)
      BY <1>1, <1>5, <2>2
    <3>2. SizesHold
      BY NumbersNow
    <3> QED
      BY <3>1, <3>2, TotalShrinks
  <2> QED
    BY <1>1, <2>1, <2>2
<1>7. OverHolds(v)'
  <2>1. CASE sim[v].stage = "on"
    <3>1. Ends(v, q, NoWork, 1)
      BY <1>1, <1>2 DEF Ends
    <3>2. sim'[v].stage = "on" /\ sim'[v].rowCount = sim[v].rowCount
      BY <1>3, <1>4, <2>1
    <3>3. OnHolds(v)'
      BY <1>1, <1>2, <2>1, <3>1, <3>2, OnWriteEnds
    <3> QED
      BY <3>2, <3>3 DEF OverHolds
  <2>2. CASE sim[v].stage = "seeding"
    <3>1. Total(v) <= MaxRows
      BY <2>2 DEF OverInv, OverHolds, SeedHolds
    <3>2. ClosingHolds(v)'
      BY <1>6, <3>1, SeedCloses
    <3> QED
      BY <1>3, <1>4, <2>2, <3>2 DEF OverHolds
  <2>3. CASE sim[v].stage = "closing"
    <3>1. ClosingHolds(v)
      BY <2>3 DEF OverInv, OverHolds
    <3>2. WriteOf(v) = {} => WriteOf(v)' = {} /\ table' = table
      <4> SUFFICES ASSUME WriteOf(v) = {} PROVE WriteOf(v)' = {} /\ table' = table
        OBVIOUS
      <4>1. work[v][q].step # "writing"
        BY DEF WriteOf
      <4> QED
        BY <1>1, <1>5, <4>1
    <3>3. ClosingHolds(v)'
      BY <1>1, <1>6, <3>1, <3>2, ClosingGoesOn
    <3> QED
      BY <1>3, <1>4, <2>3, <3>3 DEF OverHolds
  <2> QED
    BY <1>2, <2>1, <2>2, <2>3
<1>8. sim'[v].stage \in {"seeding", "on", "closing"}
  BY <1>2, <1>3, <1>4
<1> QED
  BY <1>2, <1>4, <1>7, <1>8, OverGoesOn

\* The count after a write of a running version is taken: it is true now.
LEMMA OnCountRows ==
    ASSUME KeysInv, KeysInv', OverInv, NEW v \in Version, NEW q \in Query,
           sim[v].stage = "on", sim' = sim, table' = table, trouble' = trouble, work[v][q].step = "counting",
           NEW w \in Work, w.step = "counted", w.seen = Rows, work' = [work EXCEPT ![v][q] = w],
           Total(v)' <= Total(v)
    PROVE  OnHolds(v)'
<1> DEFINE P == InsertsPerTick
<1>1. /\ SizesHold /\ AheadHolds /\ SizesHold' /\ AheadHolds'
      /\ OnHolds(v) /\ LimitReached(v)
      /\ \A p \in Query : CountIsNear(v, p)
      /\ \A p \in WriteOf(v) : Length(work[v][p]) <= P
      /\ P \in Nat /\ trouble \in Nat /\ Rows \in Nat /\ Rows' \in Nat /\ MaxRows \in Nat
      /\ P * trouble \in Nat
      /\ P * (trouble + 1) = P * trouble + P
  BY OnFacts
<1>2. Rows' = Rows
  BY DEF Rows
<1>3. work'[v][q] = w /\ \A p \in Query \ {q} : work'[v][p] = work[v][p]
  BY DEF KeysInv, TypeOK
<1>4. /\ IdleOf(v)' \ {q} = IdleOf(v) \ {q} /\ q \notin IdleOf(v)'
      /\ WriteOf(v)' \ {q} = WriteOf(v) \ {q} /\ q \notin WriteOf(v)'
      /\ LateOf(v)' \ {q} = LateOf(v) \ {q} /\ (q \in LateOf(v)' <=> w.seen < MaxRows)
  BY PlacesStep
<1>5. q \notin IdleOf(v) /\ q \notin WriteOf(v) /\ q \notin LateOf(v)
  BY DEF IdleOf, WriteOf, LateOf
<1>6. IdleOf(v)' = IdleOf(v) /\ WriteOf(v)' = WriteOf(v)
  BY <1>4, <1>5
<1>7. LimitReached(v)'
  <2>1. CASE Rows < MaxRows
    BY <1>1, <1>2, <2>1 DEF LimitReached
  <2>2. CASE Rows >= MaxRows
    <3>1. LateOf(v)' = LateOf(v) /\ \A x \in LateOf(v) : work'[v][x].seen = work[v][x].seen
      <4>1. q \notin LateOf(v)'
        BY <1>1, <1>4, <2>2
      <4>2. LateOf(v)' = LateOf(v)
        BY <1>4, <1>5, <4>1
      <4>3. \A x \in LateOf(v) : x \in Query /\ x # q
        BY <1>5 DEF LateOf
      <4> QED
        BY <1>3, <4>2, <4>3
    <3>2. trouble' = trouble + 0 /\ sim'[v].rowCount = sim[v].rowCount /\ 0 \in {0, 1}
      BY <1>1
    <3>3. Ahead(v)' <= Ahead(v) + 2 * (P * 0)
      BY <1>1, <1>6, <3>1, <3>2, AheadStep
    <3>4. Frozen(v) => Frozen(v)'
      BY <1>6, <3>1 DEF Frozen
    <3> QED
      BY <1>1, <2>2, <3>1, <3>2, <3>3, <3>4, LimitStays
  <2> QED
    BY <1>1, <2>1, <2>2
<1>8. \A p \in WriteOf(v)' : Length(work'[v][p]) <= P
  <2> SUFFICES ASSUME NEW p \in WriteOf(v)' PROVE Length(work'[v][p]) <= P
    OBVIOUS
  <2>1. p \in WriteOf(v) /\ p \in Query /\ p # q
    BY <1>5, <1>6 DEF WriteOf
  <2> QED
    BY <1>1, <1>3, <2>1
<1>9. ASSUME NEW p \in Query PROVE CountIsNear(v, p)'
  <2>1. Rows' <= work'[v][q].seen + P * trouble' /\ Rows' <= work'[v][q].seen + P * (trouble' + 1)
    BY <1>1, <1>2, <1>3
  <2>2. CASE p = q
    <3>1. work'[v][p].step = "counted" /\ \E x \in Query : Rows' <= work'[v][x].seen + P * trouble'
      BY <1>3, <2>1, <2>2
    <3> QED
      BY <3>1 DEF CountIsNear
  <2>3. CASE p # q
    <3>1. KnownUpTo(v, p, trouble)' /\ KnownUpTo(v, p, trouble + 1)'
      BY <2>1, <2>3 DEF KnownUpTo
    <3>2. \E x \in Query : Rows' <= work'[v][x].seen + P * trouble'
      BY <2>1
    <3>3. work'[v][p].step = "writing" => WriteHasRoom(v, p)' /\ WriteIsNear(v, p)'
      <4> SUFFICES ASSUME work'[v][p].step = "writing"
                   PROVE  Rows' + Length(work'[v][p]) <= work'[v][q].seen + P * (trouble' + 1)
        BY <2>3 DEF WriteHasRoom, WriteIsNear, Length
      <4>1. work'[v][p] = work[v][p] /\ p \in WriteOf(v) /\ work[v][p] \in Work
        BY <1>3, <2>3 DEF WriteOf, KeysInv, TypeOK
      <4>2. Length(work[v][p]) <= P /\ Length(work[v][p]) \in Int
        BY <1>1, <4>1 DEF Length, Work
      <4> QED
        BY <1>1, <1>2, <1>3, <4>1, <4>2
    <3> QED
      BY <3>1, <3>2, <3>3 DEF CountIsNear
  <2> QED
    BY <2>2, <2>3
<1> QED
  BY <1>7, <1>8, <1>9 DEF OnHolds, Length

LEMMA OverCountRows ==
    ASSUME KeysInv, KeysInv', OverInv, NEW v \in Version, NEW q \in Query, CountRows(v, q)
    PROVE  OverInv'
<1> DEFINE w == [work[v][q] EXCEPT !.step = "counted", !.seen = Rows]
<1>1. /\ work[v][q].step = "counting" /\ sim' = sim /\ table' = table /\ trouble' = trouble
      /\ work' = [work EXCEPT ![v][q] = w] /\ trouble' = trouble + 0 /\ Rows' = Rows
  BY SizesAssumption DEF CountRows, KeysInv, TypeOK, Rows
<1>2. /\ sim[v] \in Sim /\ sim[v].stage \in {"seeding", "on", "closing"}
      /\ \A u \in Version \ {v} : sim[u].stage = "off"
      /\ work[v][q] \in Work /\ Rows \in Nat
  BY <1>1, WritesInUse, RowsType DEF KeysInv, TypeOK
<1>3. w \in Work /\ w.step = "counted" /\ w.seen = Rows
  BY <1>2 DEF Work, Step
<1> HIDE DEF w
<1>4. /\ WriteOf(v)' \ {q} = WriteOf(v) \ {q} /\ q \notin WriteOf(v)'
      /\ Pending(v)' \subseteq Pending(v)
  BY <1>1, <1>3, PlacesStep
<1>5. Total(v)' <= Total(v)
  <2>1. (table \cup Pending(v))' \subseteq table \cup Pending(v)
    BY <1>1, <1>4
  <2>2. SizesHold
    BY NumbersNow
  <2> QED
    BY <2>1, <2>2, TotalShrinks
<1>6. OverHolds(v)'
  <2>1. CASE sim[v].stage = "on"
    <3>1. OnHolds(v)'
      BY <1>1, <1>3, <1>5, <2>1, OnCountRows
    <3> QED
      BY <1>1, <2>1, <3>1 DEF OverHolds
  <2>2. CASE sim[v].stage = "seeding"
    <3>1. OneWrite(v) /\ Total(v) <= MaxRows
      BY <2>2 DEF OverInv, OverHolds, SeedHolds
    <3>2. \A p \in Query \ {q} : work[v][p].step = "idle"
      BY <1>1, <3>1, OnlyWrite
    <3>3. work'[v][q] = w /\ \A p \in Query \ {q} : work'[v][p] = work[v][p]
      BY <1>1 DEF KeysInv, TypeOK
    <3>4. OneWrite(v)'
      BY <3>2, <3>3 DEF OneWrite
    <3>5. \A p \in Query : work'[v][p].step = "counted" => work'[v][p].seen = Rows'
      BY <1>1, <1>3, <3>2, <3>3
    <3>6. Total(v)' <= MaxRows
      <4>1. Total(v) \in Nat /\ Total(v)' \in Nat /\ MaxRows \in Nat
        BY NumbersNow, SizesAssumption DEF SizesHold
      <4> QED
        BY <1>5, <3>1, <4>1
    <3>7. SeedHolds(v)'
      BY <3>4, <3>5, <3>6 DEF SeedHolds
    <3> QED
      BY <1>1, <2>2, <3>7 DEF OverHolds
  <2>3. CASE sim[v].stage = "closing"
    <3>1. ClosingHolds(v)
      BY <2>3 DEF OverInv, OverHolds
    <3>2. WriteOf(v) = {} => WriteOf(v)' = {} /\ table' = table
      BY <1>1, <1>4
    <3>3. ClosingHolds(v)'
      BY <1>1, <1>5, <3>1, <3>2, ClosingGoesOn
    <3> QED
      BY <1>1, <2>3, <3>3 DEF OverHolds
  <2> QED
    BY <1>2, <2>1, <2>2, <2>3
<1> QED
  BY <1>1, <1>2, <1>6, OverGoesOn

\* A version that has just started, or has just seeded, knows the rows.
KnowsTable(v) == Quiet(v) /\ sim[v].rowCount = Rows /\ (Rows <= MaxRows \/ RowsBounded)

StartsWell == \A v \in Version : KnowsTable(v) => OnHolds(v)

LEMMA StartHolds == KeysInv => StartsWell
<1> SUFFICES ASSUME KeysInv, NEW v \in Version, KnowsTable(v) PROVE OnHolds(v)
  BY DEF StartsWell
<1>1. SizesHold /\ AheadHolds
  BY Sizes, AheadSizes
<1>2. /\ \A q \in Query : work[v][q].step = "idle"
      /\ WriteOf(v) = {} /\ LateOf(v) = {} /\ sim[v].rowCount = Rows
  BY DEF KnowsTable, Quiet, WriteOf, LateOf
<1>3. /\ Rows \in Nat /\ MaxRows \in Nat /\ InsertsPerTick \in Nat /\ trouble \in Nat /\ InsertsPerTick * trouble \in Nat
      /\ Cardinality(IdleOf(v)) \in Nat /\ InFlight \in Nat
  BY <1>1, SizesAssumption, InFlightType DEF SizesHold, AheadHolds
<1>4. TwiceBound \in Nat /\ 2 * MaxRows <= TwiceBound
  <2>1. TwiceBound \in Nat /\ InsertsPerTick * TwiceTicks(InFlight - 1) \in Nat
    BY <1>1 DEF AheadHolds
  <2> QED
    BY <1>1, <1>3, <2>1 DEF AheadHolds
<1>5. Rows >= MaxRows => Ahead(v) = 2 * Rows
  <2> SUFFICES ASSUME Rows >= MaxRows PROVE Ahead(v) = 2 * Rows
    OBVIOUS
  <2>1. Total(v) = Rows /\ TickAt(sim[v].rowCount) = 0 /\ Cardinality(LateOf(v)) = 0
    BY <1>2, <1>3, TotalIs, TickAtIs, FS_EmptySet
  <2>2. TwiceTicks(0) = 0
    BY <1>3 DEF TwiceTicks
  <2>3. Ahead(v) = 2 * Rows + 2 * (0 * Cardinality(IdleOf(v))) + InsertsPerTick * 0
    BY <2>1, <2>2, AheadIs
  <2> QED
    BY <1>3, <2>3
<1>6. LimitReached(v)
  <2> SUFFICES ASSUME Rows >= MaxRows
               PROVE  LateOf(v) # Query /\ (Ahead(v) <= TwiceBound \/ Frozen(v))
    BY DEF LimitReached
  <2>1. LateOf(v) # Query
    BY <1>2, SizesAssumption
  <2>2. CASE Rows <= MaxRows
    BY <1>3, <1>4, <1>5, <2>1, <2>2
  <2>3. CASE RowsBounded
    BY <1>2, <1>3, <1>5, <2>1, <2>3 DEF RowsBounded, Frozen
  <2> QED
    BY <2>2, <2>3 DEF KnowsTable
<1>7. ASSUME NEW p \in Query PROVE CountIsNear(v, p)
  <2>1. work[v][p].step = "idle" /\ Rows <= sim[v].rowCount + InsertsPerTick * trouble
    BY <1>2, <1>3
  <2> QED
    BY <2>1 DEF CountIsNear, KnownUpTo
<1> QED
  BY <1>2, <1>6, <1>7 DEF OnHolds

LEMMA StartNext == KeysInv' => StartsWell'
BY StartHolds, PTL

\* A count is recorded.  If it is late, those that are idle now write once more.
LEMMA OnCounted ==
    ASSUME KeysInv, KeysInv', OverInv, NEW v \in Version, NEW q \in Query,
           sim[v].stage = "on", sim'[v].rowCount = work[v][q].seen, work[v][q].step = "counted",
           work' = [work EXCEPT ![v][q] = NoWork], table' = table, trouble' = trouble,
           Total(v)' <= Total(v)
    PROVE  OnHolds(v)'
<1> DEFINE P == InsertsPerTick
           n == work[v][q].seen
           r == TickAt(n)
           I == Cardinality(IdleOf(v))
           J == Cardinality(IdleOf(v)')
           k == Cardinality(LateOf(v))
           h == Cardinality(LateOf(v)')
<1>1. /\ SizesHold /\ AheadHolds /\ SizesHold' /\ AheadHolds'
      /\ OnHolds(v) /\ LimitReached(v)
      /\ \A p \in Query : CountIsNear(v, p)
      /\ \A p \in WriteOf(v) : Length(work[v][p]) <= P
      /\ P \in Nat /\ trouble \in Nat /\ Rows \in Nat /\ Rows' \in Nat /\ MaxRows \in Nat
      /\ P * trouble \in Nat
      /\ P * (trouble + 1) = P * trouble + P
  BY OnFacts
<1>2. Rows' = Rows /\ NoWork \in Work /\ NoWork.step = "idle"
  BY UnusedTypes DEF Rows
<1>3. work'[v][q] = NoWork /\ \A p \in Query \ {q} : work'[v][p] = work[v][p]
  BY DEF KeysInv, TypeOK
<1>4. /\ IdleOf(v)' \ {q} = IdleOf(v) \ {q} /\ q \in IdleOf(v)'
      /\ WriteOf(v)' \ {q} = WriteOf(v) \ {q} /\ q \notin WriteOf(v)'
      /\ LateOf(v)' \ {q} = LateOf(v) \ {q} /\ q \notin LateOf(v)'
  BY <1>2, PlacesStep
<1>5. /\ q \notin IdleOf(v) /\ q \notin WriteOf(v) /\ (q \in LateOf(v) <=> n < MaxRows)
      /\ IdleOf(v) \in SUBSET Query /\ IdleOf(v)' \in SUBSET Query
      /\ LateOf(v) \in SUBSET Query /\ LateOf(v)' \in SUBSET Query
  BY DEF IdleOf, WriteOf, LateOf
<1>6. WriteOf(v)' = WriteOf(v)
  BY <1>4, <1>5
<1>7. n \in Nat /\ r \in Nat /\ r <= P /\ (n >= MaxRows => r = 0)
  <2>1. n \in Nat
    BY <1>1 DEF SizesHold, Work
  <2> HIDE DEF n
  <2> QED
    BY <1>1, <2>1, TickAtIs
<1>8. /\ I \in Nat /\ J \in Nat /\ k \in Nat /\ h \in Nat /\ Total(v) \in Nat /\ Total(v)' \in Nat
      /\ I + k <= InFlight /\ InFlight \in Nat
  <2>1. /\ I \in Nat /\ k \in Nat /\ Cardinality(WriteOf(v)) \in Nat /\ Total(v) \in Nat
        /\ I + Cardinality(WriteOf(v)) + k <= InFlight
    BY <1>1 DEF SizesHold
  <2>2. J \in Nat /\ h \in Nat /\ Total(v)' \in Nat
    BY <1>1 DEF SizesHold
  <2> QED
    BY <2>1, <2>2, InFlightType
<1>9. J = I + 1 /\ (q \in LateOf(v) => k = h + 1)
  BY <1>4, <1>5, OnePlaceChanges
<1>10. /\ Ahead(v) = 2 * Total(v) + 2 * (TickAt(sim[v].rowCount) * I) + P * TwiceTicks(k)
       /\ Ahead(v)' = 2 * Total(v)' + 2 * (r * J) + P * TwiceTicks(h)
  BY AheadIs
<1>11. TickAt(sim[v].rowCount) * I \in Nat /\ P * TwiceTicks(k) \in Nat /\ Ahead(v) \in Nat /\ TwiceBound \in Nat
  BY <1>1 DEF AheadHolds
<1>12. r * J \in Nat /\ P * TwiceTicks(h) \in Nat /\ Ahead(v)' \in Nat
  <2>1. P * TwiceTicks(h) \in Nat /\ Ahead(v)' \in Nat
    BY <1>1 DEF AheadHolds
  <2> QED
    BY <1>7, <1>8, <2>1, ProductIsNat
<1>13. TwiceBound' = TwiceBound
  BY DEF TwiceBound, TwiceTicks, InFlight
<1>14. \A x \in LateOf(v) : x # q => work'[v][x].seen = work[v][x].seen /\ x \in LateOf(v)'
  BY <1>3, <1>4, <1>5
<1>15. ASSUME Rows >= MaxRows, n >= MaxRows PROVE LimitReached(v)'
  <2>1. q \notin LateOf(v)
    BY <1>1, <1>5, <1>7, <1>15
  <2>2. LateOf(v)' = LateOf(v) /\ \A x \in LateOf(v) : work'[v][x].seen = work[v][x].seen
    BY <1>4, <1>14, <2>1
  <2>3. r * J = 0 /\ h = k
    BY <1>7, <1>8, <1>15, <2>2
  <2> HIDE DEF P, r, I, J, k, h, n
  <2>4. Ahead(v)' <= Ahead(v) + 2 * (P * 0)
    BY <1>1, <1>8, <1>10, <1>11, <2>3
  <2>5. Frozen(v) => Frozen(v)'
    BY <1>6, <1>15, <2>2 DEF Frozen, n
  <2>6. trouble' = trouble + 0 /\ 0 \in {0, 1}
    BY <1>1
  <2>7. Ahead(v)' <= Ahead(v) + 2 * (InsertsPerTick * 0)
    BY <2>4 DEF P
  <2>8. LimitReached(v)'
    BY <1>1, <1>15, <2>2, <2>5, <2>6, <2>7, LimitStays
  <2> QED
    BY <2>8
<1>16. ASSUME Rows >= MaxRows, n < MaxRows PROVE LimitReached(v)'
  <2>1. q \in LateOf(v) /\ k = h + 1
    BY <1>5, <1>9, <1>16
  <2>2. LateOf(v) # Query
    BY <1>1, <1>16 DEF LimitReached
  <2>3. k < InFlight
    <3>1. PICK y \in Query : y \notin LateOf(v)
      BY <1>5, <2>2
    <3> QED
      BY <1>5, <1>8, <3>1, AllButOne
  <2> HIDE DEF P, r, I, J, k, h, n
  <2>4. 2 * (r * J) + P * TwiceTicks(k - 1) + 4 * (P - r) <= P * TwiceTicks(k)
    <3>1. 1 <= k /\ J <= InFlight - k + 1
      BY <1>8, <1>9, <2>1
    <3> QED
      BY <1>7, <1>8, <2>3, <3>1, LateSpent DEF P
  <2>5. k - 1 = h /\ Less(n) = 4 * (P - r) /\ Less(n) \in Nat
    BY <1>7, <1>8, <2>1, LessIs DEF Less, P, r
  <2>6. Ahead(v)' + Less(n) <= Ahead(v)
    BY <1>1, <1>7, <1>8, <1>10, <1>11, <1>12, <2>4, <2>5
  <2>7. q \notin LateOf(v)' /\ q \in Query
    BY <1>4
  <2>8. CASE Ahead(v) <= TwiceBound
    <3>1. Ahead(v)' <= TwiceBound'
      BY <1>11, <1>12, <1>13, <2>5, <2>6, <2>8
    <3> QED
      BY <2>7, <3>1 DEF LimitReached
  <2>9. ASSUME NEW x \in LateOf(v), Ahead(v) <= TwiceBound + Less(work[v][x].seen)
        PROVE  LimitReached(v)'
    <3>1. Less(work[v][x].seen) \in Nat
      <4>1. work[v][x].seen \in Nat
        BY <1>1 DEF SizesHold, LateOf, Work
      <4> QED
        BY <4>1, LessIs
    <3>2. CASE x = q
      <4>1. Ahead(v) <= TwiceBound + Less(n)
        BY <2>9, <3>2 DEF n
      <4>2. Ahead(v)' <= TwiceBound'
        BY <1>11, <1>12, <1>13, <2>5, <2>6, <4>1
      <4> QED
        BY <2>7, <4>2 DEF LimitReached
    <3>3. CASE x # q
      <4>1. Ahead(v)' <= TwiceBound' + Less(work[v][x].seen)
        BY <1>11, <1>12, <1>13, <2>5, <2>6, <2>9, <3>1
      <4>2. x \in LateOf(v)' /\ work'[v][x].seen = work[v][x].seen
        BY <1>14, <3>3
      <4>3. Ahead(v)' <= TwiceBound' + Less(work'[v][x].seen)
        BY <4>1, <4>2
      <4> QED
        BY <2>7, <4>2, <4>3 DEF LimitReached, Less, TickAt, Least, Minus
    <3> QED
      BY <3>2, <3>3
  <2>10. ~Frozen(v)
    BY <2>1 DEF Frozen
  <2> QED
    BY <1>1, <1>16, <2>8, <2>9, <2>10 DEF LimitReached
<1>17. LimitReached(v)'
  <2>1. CASE Rows < MaxRows
    BY <1>1, <1>2, <2>1 DEF LimitReached
  <2> QED
    BY <1>1, <1>7, <1>15, <1>16, <2>1
<1>18. \A p \in WriteOf(v)' : Length(work'[v][p]) <= P
  <2> SUFFICES ASSUME NEW p \in WriteOf(v)' PROVE Length(work'[v][p]) <= P
    OBVIOUS
  <2>1. p \in WriteOf(v) /\ p \in Query /\ p # q
    BY <1>5, <1>6 DEF WriteOf
  <2> QED
    BY <1>1, <1>3, <2>1
<1>19. CountIsNear(v, q)'
  <2> SUFFICES ASSUME OthersCounted(v, q)' PROVE KnownUpTo(v, q, trouble)'
    BY <1>2, <1>3 DEF CountIsNear
  <2>1. OthersCounted(v, q)
    BY <1>3 DEF OthersCounted
  <2>2. PICK x \in Query : Rows <= work[v][x].seen + P * trouble
    BY <1>1, <2>1 DEF CountIsNear
  <2>3. CASE x = q
    BY <1>2, <2>2, <2>3 DEF KnownUpTo
  <2>4. CASE x # q
    BY <1>2, <1>3, <2>2, <2>4 DEF KnownUpTo
  <2> QED
    BY <2>3, <2>4
<1>20. \A p \in Query : CountIsNear(v, p)'
  BY <1>2, <1>3, <1>19, OnlyOneIsNear
<1> QED
  BY <1>17, <1>18, <1>20 DEF OnHolds, Length

LEMMA OverCounted ==
    ASSUME KeysInv, KeysInv', OverInv, NEW v \in Version, NEW q \in Query, Counted(v, q)
    PROVE  OverInv'
<1> DEFINE n == work[v][q].seen
           s == SetOn(Recorded(sim[v], n))
<1>1. /\ work[v][q].step = "counted" /\ table' = table /\ trouble' = trouble
      /\ work' = [work EXCEPT ![v][q] = NoWork] /\ sim' = [sim EXCEPT ![v] = s]
      /\ trouble' = trouble + 0 /\ Rows' = Rows
  BY SizesAssumption DEF Counted, KeysInv, TypeOK, Rows
<1>2. /\ sim[v] \in Sim /\ sim[v].stage \in {"seeding", "on", "closing"}
      /\ \A u \in Version \ {v} : sim[u].stage = "off"
      /\ sim \in [Version -> Sim] /\ n \in Nat /\ NoWork \in Work /\ NoWork.step = "idle"
  BY <1>1, WritesInUse, UnusedTypes DEF KeysInv, TypeOK, Work
<1>3. s.rowCount = n /\ s.stage = IF sim[v].stage = "seeding" THEN "on" ELSE sim[v].stage
  BY <1>2, CountedFields
<1>4. sim'[v] = s /\ \A u \in Version \ {v} : sim[u].stage = "off" /\ sim'[u] = sim[u]
  BY <1>1, <1>2
<1> HIDE DEF s
<1>5. /\ WriteOf(v)' \ {q} = WriteOf(v) \ {q} /\ q \notin WriteOf(v)'
      /\ Pending(v)' \subseteq Pending(v)
  BY <1>1, <1>2, PlacesStep
<1>6. Total(v)' <= Total(v)
  <2>1. (table \cup Pending(v))' \subseteq table \cup Pending(v)
    BY <1>1, <1>5
  <2>2. SizesHold
    BY NumbersNow
  <2> QED
    BY <2>1, <2>2, TotalShrinks
<1>7. OverHolds(v)'
  <2>1. CASE sim[v].stage = "on"
    <3>1. sim'[v].rowCount = work[v][q].seen /\ sim'[v].stage = "on"
      BY <1>3, <1>4, <2>1
    <3>2. OnHolds(v)'
      BY <1>1, <1>6, <2>1, <3>1, OnCounted
    <3> QED
      BY <3>1, <3>2 DEF OverHolds
  <2>2. CASE sim[v].stage = "seeding"
    <3>1. OneWrite(v) /\ Total(v) <= MaxRows /\ n = Rows
      BY <1>1, <2>2 DEF OverInv, OverHolds, SeedHolds
    <3>2. \A p \in Query \ {q} : work[v][p].step = "idle"
      BY <1>1, <3>1, OnlyWrite
    <3>3. Quiet(v)'
      <4>1. work'[v][q] = NoWork /\ \A p \in Query \ {q} : work'[v][p] = work[v][p]
        BY <1>1 DEF KeysInv, TypeOK
      <4> QED
        BY <1>2, <3>2, <4>1 DEF Quiet
    <3>4. Rows' <= MaxRows
      <4>1. Total(v) \in Nat /\ Rows \in Nat /\ Rows <= Total(v) /\ MaxRows \in Nat
        BY NumbersNow, SizesAssumption DEF SizesHold
      <4> QED
        BY <1>1, <3>1, <4>1
    <3>5. sim'[v].rowCount = Rows' /\ sim'[v].stage = "on"
      BY <1>1, <1>3, <1>4, <2>2, <3>1
    <3>6. KnowsTable(v)'
      BY <3>3, <3>4, <3>5 DEF KnowsTable
    <3>7. OnHolds(v)'
      BY <3>6, StartNext DEF StartsWell
    <3> QED
      BY <3>5, <3>7 DEF OverHolds
  <2>3. CASE sim[v].stage = "closing"
    <3>1. ClosingHolds(v)
      BY <2>3 DEF OverInv, OverHolds
    <3>2. WriteOf(v) = {} => WriteOf(v)' = {} /\ table' = table
      BY <1>1, <1>5
    <3>3. ClosingHolds(v)'
      BY <1>1, <1>6, <3>1, <3>2, ClosingGoesOn
    <3> QED
      BY <1>3, <1>4, <2>3, <3>3 DEF OverHolds
  <2> QED
    BY <1>2, <2>1, <2>2, <2>3
<1>8. sim'[v].stage \in {"seeding", "on", "closing"}
  BY <1>2, <1>3, <1>4
<1> QED
  BY <1>2, <1>4, <1>7, <1>8, OverGoesOn

-----------------------------------------------------------------------------
(* The overshoot: starts, stops and the others                             *)

LEMMA OverCountAtStart ==
    ASSUME KeysInv, KeysInv', OverInv, NEW v \in Version, CountAtStart(v)
    PROVE  OverInv'
<1> DEFINE s == Recorded(sim[v], Rows)
           n == Missing(v, Rows)
           m == Ready(sim[v], v)
<1>1. /\ sim[v] \in Sim /\ sim[v].stage = "counting" /\ Rows \in Nat /\ Rows' = Rows
      /\ table' = table /\ trouble' = trouble /\ trouble' = trouble + 0 /\ sim \in [Version -> Sim]
  BY RowsType, SizesAssumption DEF CountAtStart, KeysInv, TypeOK, Rows
<1>2. Quiet(v) /\ \A u \in Version \ {v} : sim[u].stage = "off"
  BY <1>1, OthersAreOff DEF InUse, KeysInv, KeysHold, AtRest
<1>3. s \in Sim /\ s.rowCount = Rows /\ n \in Nat
  BY <1>1, RecordedFields, MissingRows
<1>4. PICK q \in Query, w \in Work :
        w = Writing(s, n) /\ work' = [work EXCEPT ![v][q] = w] /\ sim' = [sim EXCEPT ![v] = m]
  BY <1>3, WritingFields DEF CountAtStart, Recorded, Ready
<1>5. m.rowCount = Rows /\ m.stage = IF Added(s, n) = 0 THEN "on" ELSE "seeding"
  BY <1>1, ReadyFields
<1>6. /\ w.step \in {"idle", "writing"} /\ (w.step = "idle" <=> Added(s, n) = 0)
      /\ w.step = "writing" => w.from <= w.to
  BY <1>3, <1>4, WritingFields
<1>7. w.step = "writing" => Rows + Length(w) <= MaxRows
  BY <1>3, <1>4, BeginsWithin
<1> HIDE DEF s, n, m
<1>8. sim'[v] = m /\ \A u \in Version \ {v} : sim[u].stage = "off" /\ sim'[u] = sim[u]
  BY <1>1, <1>2, <1>4
<1>9. work'[v][q] = w /\ \A p \in Query \ {q} : work'[v][p] = work[v][p] /\ work'[v][p].step = "idle"
  BY <1>2, <1>4 DEF KeysInv, TypeOK, Quiet
<1>10. OverHolds(v)'
  <2>1. CASE w.step = "idle"
    <3>1. Quiet(v)' /\ sim'[v].rowCount = Rows' /\ sim'[v].stage = "on"
      BY <1>1, <1>5, <1>6, <1>8, <1>9, <2>1 DEF Quiet
    <3>2. RowsBounded'
      BY <1>1, BoundStays DEF OverInv
    <3>3. KnowsTable(v)'
      BY <3>1, <3>2 DEF KnowsTable
    <3>4. OnHolds(v)'
      BY <3>3, StartNext DEF StartsWell
    <3> QED
      BY <3>1, <3>4 DEF OverHolds
  <2>2. CASE w.step = "writing"
    <3>1. sim'[v].stage = "seeding"
      BY <1>5, <1>6, <1>8, <2>2
    <3>2. OneWrite(v)' /\ \A p \in Query : work'[v][p].step # "counted"
      BY <1>9, <2>2 DEF OneWrite
    <3>3. Total(v)' <= MaxRows
      <4>1. SizesHold /\ SizesHold'
        BY NumbersNow
      <4>2. Total(v) = Rows
        <5>1. WriteOf(v) = {}
          BY <1>2 DEF WriteOf, Quiet
        <5> QED
          BY <5>1, TotalIs
      <4>3. (table \cup Pending(v))' \subseteq table \cup Pending(v) \cup Keys(w)
        <5>1. Pending(v)' \subseteq Pending(v) \cup Keys(w)
          BY <1>4, <2>2, PlacesStep
        <5> QED
          BY <1>1, <5>1
      <4>4. Total(v)' <= Total(v) + Length(w)
        BY <1>6, <2>2, <4>1, <4>3, TotalGrows
      <4>5. Total(v)' \in Nat /\ Length(w) \in Nat /\ MaxRows \in Nat
        BY <1>6, <2>2, <4>1, KeysCount1, SizesAssumption DEF SizesHold
      <4> QED
        BY <1>1, <1>7, <2>2, <4>2, <4>4, <4>5
    <3>4. SeedHolds(v)'
      BY <3>2, <3>3 DEF SeedHolds
    <3> QED
      BY <3>1, <3>4 DEF OverHolds
  <2> QED
    BY <1>6, <2>1, <2>2
<1> QED
  BY <1>1, <1>8, <1>10, OverGoesOn

\* sample() changes nothing but the counter; what went wrong is only counted.
LEMMA OnSample ==
    ASSUME KeysInv, KeysInv', OverInv, NEW v \in Version, sim[v].stage = "on",
           sim'[v].rowCount = sim[v].rowCount, work' = work, table' = table, trouble' = trouble + 1
    PROVE  OnHolds(v)'
<1> DEFINE P == InsertsPerTick
<1>1. /\ SizesHold /\ AheadHolds /\ SizesHold' /\ AheadHolds'
      /\ OnHolds(v) /\ LimitReached(v)
      /\ \A p \in Query : CountIsNear(v, p)
      /\ \A p \in WriteOf(v) : Length(work[v][p]) <= P
      /\ P \in Nat /\ trouble \in Nat /\ Rows \in Nat /\ Rows' \in Nat /\ MaxRows \in Nat
      /\ P * trouble \in Nat
      /\ P * (trouble + 1) = P * trouble + P
  BY OnFacts
<1>2. /\ Rows' = Rows /\ Total(v)' = Total(v) /\ IdleOf(v)' = IdleOf(v)
      /\ WriteOf(v)' = WriteOf(v) /\ LateOf(v)' = LateOf(v)
  BY DEF Rows, Total, Pending, IdleOf, WriteOf, LateOf, Keys
<1>3. LimitReached(v)'
  <2>1. CASE Rows < MaxRows
    BY <1>1, <1>2, <2>1 DEF LimitReached
  <2>2. CASE Rows >= MaxRows
    <3>1. PICK q \in Query : TRUE
      BY SizesAssumption
    <3>2. Total(v)' <= Total(v) /\ 1 \in {0, 1}
      <4>1. SizesHold
        BY <1>1
      <4>2. Total(v) \in Nat
        BY <4>1 DEF SizesHold
      <4> QED
        BY <1>2, <4>2
    <3>3. Ahead(v)' <= Ahead(v) + 2 * (P * 1)
      BY <1>1, <1>2, <3>1, <3>2, AheadStep
    <3>4. Frozen(v) => Frozen(v)'
      BY <1>2 DEF Frozen
    <3> QED
      BY <1>1, <1>2, <2>2, <3>2, <3>3, <3>4, LimitStays
  <2> QED
    BY <1>1, <2>1, <2>2
<1>4. P * (trouble' + 1) = P * trouble' + P /\ P * trouble' = P * trouble + P /\ P * trouble' \in Nat
  BY <1>1
<1>5. ASSUME NEW p \in Query, OthersCounted(v, p)' PROVE CountIsNear(v, p)'
  <2>1. OthersCounted(v, p)
    BY <1>5 DEF OthersCounted
  <2>2. ASSUME NEW a \in Nat, KnownUpTo(v, p, a)
        PROVE  \/ Rows' <= sim'[v].rowCount + P * (a + 1)
               \/ \E x \in Query \ {p} : Rows' <= work'[v][x].seen + P * (a + 1)
    <3>1. 0 \in Nat /\ Rows' <= Rows + 0 /\ a + 1 \in Nat /\ P * a + 0 <= P * (a + 1)
      <4>1. P * a \in Nat /\ P * (a + 1) = P * a + P
        BY <1>1, ProductIsNat
      <4> QED
        BY <1>1, <1>2, <4>1
    <3> QED
      BY <1>1, <2>2, <3>1, KnownGrows
  <2>3. CASE work[v][p].step = "idle"
    <3>1. KnownUpTo(v, p, trouble)
      BY <1>1, <2>1, <2>3 DEF CountIsNear
    <3>2. KnownUpTo(v, p, trouble)'
      BY <1>1, <2>2, <3>1 DEF KnownUpTo
    <3> QED
      BY <2>3, <3>2 DEF CountIsNear
  <2>7. CASE work[v][p].step = "writing"
    <3>1. WriteHasRoom(v, p) /\ WriteIsNear(v, p)
      BY <1>1, <2>1, <2>7 DEF CountIsNear
    <3>2. /\ Length(work[v][p]) \in Int /\ sim[v].rowCount \in Nat
          /\ \A x \in Query : work[v][x].seen \in Nat
      <4>1. \A x \in Query : work[v][x] \in Work
        BY <1>1 DEF SizesHold
      <4>2. sim[v].rowCount \in Nat
        BY <1>1 DEF SizesHold
      <4> QED
        BY <4>1, <4>2 DEF Work, Length
    <3> DEFINE m == Length(work[v][p])
    <3>3. \/ Rows' + m <= MaxRows + P * trouble'
          \/ \E x \in Query \ {p} : Rows' + m <= work'[v][x].seen + P * (trouble' + 1)
      BY <1>1, <1>2, <1>4, <3>1, <3>2 DEF WriteHasRoom
    <3>4. \/ Rows' + m <= sim'[v].rowCount + P * (trouble' + 1)
          \/ \E x \in Query \ {p} : Rows' + m <= work'[v][x].seen + P * (trouble' + 1)
      BY <1>1, <1>2, <1>4, <3>1, <3>2 DEF WriteIsNear
    <3>5. WriteHasRoom(v, p)' /\ WriteIsNear(v, p)'
      BY <3>3, <3>4 DEF WriteHasRoom, WriteIsNear, Length
    <3> QED
      BY <2>7, <3>5 DEF CountIsNear
  <2>4. CASE work[v][p].step = "counting"
    <3>1. KnownUpTo(v, p, trouble + 1) /\ trouble + 1 \in Nat
      BY <1>1, <2>1, <2>4 DEF CountIsNear
    <3>2. KnownUpTo(v, p, trouble + 1)'
      BY <2>2, <3>1 DEF KnownUpTo
    <3> QED
      BY <2>4, <3>2 DEF CountIsNear
  <2>5. CASE work[v][p].step = "counted"
    <3>1. PICK x \in Query : Rows <= work[v][x].seen + P * trouble
      BY <1>1, <2>1, <2>5 DEF CountIsNear
    <3>2. work[v][x].seen \in Nat
      BY <1>1 DEF SizesHold, Work
    <3>3. Rows' <= work'[v][x].seen + P * trouble'
      BY <1>1, <1>2, <1>4, <3>1, <3>2
    <3> QED
      BY <2>5, <3>3 DEF CountIsNear
  <2>6. work[v][p].step \in Step
    BY <1>1 DEF SizesHold, Work
  <2> QED
    BY <2>3, <2>4, <2>5, <2>6, <2>7 DEF Step
<1>6. \A p \in Query : CountIsNear(v, p)'
  BY <1>5 DEF CountIsNear
<1>7. \A p \in WriteOf(v)' : Length(work'[v][p]) <= P
  BY <1>1, <1>2
<1> QED
  BY <1>3, <1>6, <1>7 DEF OnHolds, Length

LEMMA OverOther ==
    ASSUME OneAfterAnother, KeysInv, KeysInv', OverInv, NEW v \in Version,
           Start(v) \/ ReadCounters(v) \/ StartFails(v) \/ Sample(v) \/ Stop(v) \/ Closed(v)
    PROVE  OverInv'
<1>1. /\ sim[v] \in Sim /\ AtRest(v) /\ work' = work /\ table' = table /\ sim \in [Version -> Sim]
      /\ trouble' = trouble \/ trouble' = trouble + 1
  BY DEF KeysInv, TypeOK, KeysHold, Start, ReadCounters, StartFails, Sample, Stop, Closed
<1>2. \A u \in Version \ {v} : sim[u].stage = "off"
  <2>1. CASE Start(v)
    BY <2>1 DEF Start, OneAfterAnother
  <2>2. CASE ~Start(v)
    <3>1. InUse(v)
      BY <2>2 DEF InUse, ReadCounters, StartFails, Sample, Stop, Closed
    <3> QED
      BY <3>1, OthersAreOff
  <2> QED
    BY <2>1, <2>2
<1>3. \A u \in Version \ {v} : sim'[u] = sim[u]
  BY <1>1 DEF Start, ReadCounters, StartFails, Sample, Stop, Closed
<1>4. PICK d \in {0, 1} : trouble' = trouble + d
  <2>1. trouble \in Nat
    BY SizesAssumption DEF KeysInv, TypeOK
  <2> QED
    BY <1>1, <2>1
<1>5. /\ SizesHold /\ Total(v)' = Total(v) /\ WriteOf(v)' = WriteOf(v) /\ Total(v) \in Nat
  <2>1. SizesHold
    BY NumbersNow
  <2>2. Total(v)' = Total(v) /\ WriteOf(v)' = WriteOf(v)
    BY <1>1 DEF Total, Pending, WriteOf, Keys
  <2> QED
    BY <2>1, <2>2 DEF SizesHold
<1>6. ClosingHolds(v) => ClosingHolds(v)'
  <2>1. Total(v)' <= Total(v)
    BY <1>5
  <2> QED
    BY <1>1, <1>4, <1>5, <2>1, ClosingGoesOn
<1>7. OverHolds(v)'
  <2>1. CASE Start(v) \/ ReadCounters(v) \/ Closed(v)
    <3>1. sim'[v].stage \in {"starting", "counting", "off"}
      BY <1>1, <2>1 DEF Start, ReadCounters, Closed, Sim
    <3> QED
      BY <3>1 DEF OverHolds
  <2>2. CASE StartFails(v)
    <3>1. sim'[v].stage = "closing" /\ Quiet(v)
      BY <1>1, <2>2 DEF StartFails, AtRest, Sim
    <3>2. WriteOf(v) = {}
      BY <3>1 DEF WriteOf, Quiet
    <3>3. Total(v) = Rows
      BY <3>2, TotalIs
    <3>4. ClosingHolds(v)
      BY <3>2, <3>3 DEF OverInv, RowsBounded, ClosingHolds
    <3> QED
      BY <1>6, <3>1, <3>4 DEF OverHolds
  <2>3. CASE Stop(v)
    <3>1. sim[v].stage = "on" /\ sim'[v].stage = "closing"
      BY <1>1, <2>3 DEF Stop, Sim
    <3>2. ClosingHolds(v)
      BY <3>1, OnIsBounded DEF OverInv, OverHolds
    <3> QED
      BY <1>6, <3>1, <3>2 DEF OverHolds
  <2>4. CASE Sample(v)
    <3>1. /\ sim[v].stage = "on" /\ sim'[v].stage = "on" /\ sim'[v].rowCount = sim[v].rowCount
          /\ trouble' = trouble + 1
      BY <1>1, <2>4 DEF Sample, Sim
    <3>2. OnHolds(v)'
      BY <1>1, <3>1, OnSample
    <3> QED
      BY <3>1, <3>2 DEF OverHolds
  <2> QED
    BY <2>1, <2>2, <2>3, <2>4
<1> QED
  BY <1>1, <1>2, <1>3, <1>7, OverGoesOn

LEMMA OverCrash ==
    ASSUME KeysInv, KeysInv', OverInv, Crash
    PROVE  OverInv'
<1>1. \A v \in Version : sim'[v].stage = "off"
  BY UnusedTypes DEF Crash
<1>2. RowsBounded'
  <2>1. table' = table /\ trouble' = trouble + 1 /\ 1 \in {0, 1}
    BY DEF Crash
  <2> QED
    BY <2>1, BoundStays DEF OverInv
<1> QED
  BY <1>1, <1>2 DEF OverInv, OverHolds

LEMMA OverStutters ==
    ASSUME OverInv, UNCHANGED vars
    PROVE  OverInv'
<1>1. table' = table /\ sim' = sim /\ work' = work /\ trouble' = trouble
  BY DEF vars
<1>2. Rows' = Rows /\ RowsBounded'
  <2>1. Rows' = Rows
    BY <1>1 DEF Rows
  <2>2. TwiceBound' = TwiceBound
    BY <1>1 DEF TwiceBound
  <2> QED
    BY <1>1, <2>1, <2>2 DEF RowsBounded, OverInv
<1>3. ASSUME NEW v \in Version PROVE OverHolds(v)'
  <2>1. OverHolds(v)
    BY DEF OverInv
  <2>2. Total(v)' = Total(v) /\ Ahead(v)' = Ahead(v)
    BY <1>1 DEF Total, Pending, Keys, Ahead, Rows, IdleOf, WriteOf, LateOf, Length
  <2>3. /\ TwiceBound' = TwiceBound /\ Frozen(v)' = Frozen(v)
        /\ WriteOf(v)' = WriteOf(v) /\ LateOf(v)' = LateOf(v)
    BY <1>1 DEF TwiceBound, Frozen, WriteOf, LateOf
  <2>5. ASSUME sim[v].stage = "on" PROVE OnHolds(v)'
    <3>1. OnHolds(v)
      BY <2>1, <2>5 DEF OverHolds
    <3>2. LimitReached(v)'
      BY <1>1, <1>2, <2>2, <2>3, <3>1 DEF OnHolds, LimitReached
    <3>3. ASSUME NEW p \in Query PROVE CountIsNear(v, p)'
      <4>1. CountIsNear(v, p)
        BY <3>1 DEF OnHolds
      <4>2. OthersCounted(v, p)' = OthersCounted(v, p)
        BY <1>1 DEF OthersCounted
      <4>3. /\ KnownUpTo(v, p, trouble)' = KnownUpTo(v, p, trouble)
            /\ KnownUpTo(v, p, trouble + 1)' = KnownUpTo(v, p, trouble + 1)
            /\ WriteHasRoom(v, p)' = WriteHasRoom(v, p) /\ WriteIsNear(v, p)' = WriteIsNear(v, p)
        BY <1>1, <1>2 DEF KnownUpTo, WriteHasRoom, WriteIsNear, Length
      <4> QED
        BY <1>1, <1>2, <4>1, <4>2, <4>3 DEF CountIsNear
    <3> QED
      BY <1>1, <2>3, <3>1, <3>2, <3>3 DEF OnHolds
  <2>6. ASSUME sim[v].stage = "seeding" PROVE SeedHolds(v)'
    <3>1. SeedHolds(v)
      BY <2>1, <2>6 DEF OverHolds
    <3> QED
      BY <1>1, <1>2, <2>2, <3>1 DEF SeedHolds, OneWrite
  <2>7. ASSUME sim[v].stage = "closing" PROVE ClosingHolds(v)'
    BY <1>1, <2>1, <2>2, <2>3, <2>7 DEF OverHolds, ClosingHolds
  <2> QED
    BY <1>1, <2>5, <2>6, <2>7 DEF OverHolds
<1> QED
  BY <1>2, <1>3 DEF OverInv

LEMMA OverNext ==
    ASSUME OneAfterAnother
    PROVE  KeysInv /\ KeysInv' /\ OverInv /\ [Next]_vars => OverInv'
<1> SUFFICES ASSUME KeysInv, KeysInv', OverInv, [Next]_vars PROVE OverInv'
  OBVIOUS
<1>1. ASSUME NEW v \in Version, Start(v) \/ Runs(v) \/ StartFails(v) \/ Sample(v) \/ Stop(v)
      PROVE  OverInv'
  <2>1. ASSUME NEW q \in Query, Tick(v, q) \/ Insert(v, q) \/ CountRows(v, q) \/ Counted(v, q)
        PROVE  OverInv'
    BY <2>1, OverTick, OverInsert, OverCountRows, OverCounted
  <2> QED
    BY <1>1, <2>1, OverCountAtStart, OverOther DEF Runs
<1>2. ASSUME NEW v \in Version, NEW q \in Query, QueryFails(v, q) PROVE OverInv'
  BY <1>2, OverQueryFails
<1>3. CASE Crash
  BY <1>3, OverCrash
<1>4. CASE UNCHANGED vars
  BY <1>4, OverStutters
<1> QED
  BY <1>1, <1>2, <1>3, <1>4 DEF Next

LEMMA OverInit == Init => OverInv
<1> SUFFICES ASSUME Init PROVE OverInv
  OBVIOUS
<1>1. \A v \in Version : sim[v].stage = "off"
  BY UnusedTypes DEF Init
<1> QED
  BY <1>1 DEF Init, OverInv, OverHolds, RowsBounded

\* A table exceeds its limit by so much and no more, however many ticks are in
\* flight, however many statements each takes, in whatever order they are counted,
\* and if answers are lost.
THEOREM OvershootIsLimited ==
    ASSUME OneAfterAnother
    PROVE  Spec => []OvershootIsBounded
<1>1. Spec => []KeysInv
  BY KeysInductive
<1>2. KeysInv /\ OverInv => OvershootIsBounded
  BY BoundIs DEF OverInv
<1> QED
  BY <1>1, <1>2, OverInit, OverNext, PTL DEF Spec

=============================================================================
