-------------------------- MODULE GeneratorsProofs --------------------------
(***************************************************************************)
(* What the editor's check of a generator's settings is worth, for every   *)
(* setting: what the service takes, which values come out of it and which  *)
(* column they need.                                                       *)
(***************************************************************************)
EXTENDS Generators, FiniteSetTheorems, TLAPS

-----------------------------------------------------------------------------
(* Places of a list.                                                       *)

\* How far a place is among the places 1 .. n.
LEMMA PlacesUpTo ==
    ASSUME NEW n \in Nat, NEW i \in 1 .. n
    PROVE  Cardinality({j \in 1 .. n : j <= i}) = i
<1>1. {j \in 1 .. n : j <= i} = 1 .. i
  OBVIOUS
<1>2. Cardinality(1 .. i) = i
  BY FS_Interval
<1> QED
  BY <1>1, <1>2

LEMMA NthOfAll ==
    ASSUME NEW n \in Nat, NEW k \in 1 .. n
    PROVE  Nth(1 .. n, k) = k
<1>1. \A i \in 1 .. n : Cardinality({j \in 1 .. n : j <= i}) = i
  BY PlacesUpTo
<1> QED
  BY <1>1 DEF Nth

\* A set of places that is closed downwards is an interval.
LEMMA LowPlaces ==
    ASSUME NEW n \in Nat, NEW D \in SUBSET (1 .. n),
           \A i \in D, j \in 1 .. n : j <= i => j \in D
    PROVE  Cardinality(D) \in 0 .. n /\ D = 1 .. Cardinality(D)
<1> DEFINE m == Cardinality(D)
<1>1. IsFiniteSet(1 .. n) /\ Cardinality(1 .. n) = n
  BY FS_Interval
<1>2. IsFiniteSet(D) /\ m \in Nat /\ m <= n
  BY <1>1, FS_Subset, FS_CardinalityType
<1>3. m = 0 <=> D = {}
  BY <1>2, FS_EmptySet
<1>4. ASSUME m > 0 PROVE m \in D
  <2> SUFFICES ASSUME m \notin D PROVE FALSE
    OBVIOUS
  <2> HIDE DEF m
  <2>1. D \subseteq 1 .. (m - 1)
    BY <1>2, <1>4
  <2>2. IsFiniteSet(1 .. (m - 1)) /\ Cardinality(1 .. (m - 1)) = m - 1
    BY <1>2, <1>4, FS_Interval
  <2>3. Cardinality(D) <= Cardinality(1 .. (m - 1))
    BY <2>1, <2>2, FS_Subset
  <2>4. m <= m - 1
    BY <2>2, <2>3 DEF m
  <2> QED
    BY <1>2, <2>4
<1>5. 1 .. m \subseteq D
  <2> HIDE DEF m
  <2> QED
    BY <1>2, <1>4
<1>6. Cardinality(1 .. m) = m
  <2> HIDE DEF m
  <2> QED
    BY <1>2, FS_Interval
<1>7. D = 1 .. m
  BY <1>2, <1>5, <1>6, FS_Subset
<1> QED
  BY <1>2, <1>7

LEMMA LastPlace ==
    ASSUME NEW n \in Nat, NEW S \in SUBSET (1 .. n), S # {}
    PROVE  \E i \in S : \A j \in S : j <= i
<1> DEFINE D == {j \in 1 .. n : \E i \in S : j <= i}
           m == Cardinality(D)
<1>1. m \in 0 .. n /\ D = 1 .. m
  <2>1. D \in SUBSET (1 .. n) /\ \A i \in D, j \in 1 .. n : j <= i => j \in D
    OBVIOUS
  <2> HIDE DEF D
  <2> QED
    BY <2>1, LowPlaces
<1>2. S \subseteq D
  OBVIOUS
<1>3. \A j \in D : \E i \in S : j <= i
  OBVIOUS
<1> HIDE DEF m, D
<1>4. m \in D
  <2>1. PICK i \in S : TRUE
    OBVIOUS
  <2>2. i \in 1 .. m
    BY <1>1, <1>2, <2>1
  <2> QED
    BY <1>1, <2>2
<1>5. PICK i \in S : m <= i
  BY <1>3, <1>4
<1> QED
  BY <1>1, <1>2, <1>5

UpTo(S, last) == {place \in S : place <= last}

LEMMA UpToIs ==
    ASSUME NEW n \in Nat, NEW S \in SUBSET (1 .. n)
    PROVE  /\ IsFiniteSet(S) /\ Cardinality(S) \in Nat
           /\ \A i \in Int : IsFiniteSet(UpTo(S, i)) /\ Cardinality(UpTo(S, i)) \in Nat
           /\ \A i, j \in Int : i <= j => Cardinality(UpTo(S, i)) <= Cardinality(UpTo(S, j))
           /\ UpTo(S, n) = S /\ Cardinality(UpTo(S, 0)) = 0
<1>1. IsFiniteSet(S) /\ Cardinality(S) \in Nat
  <2>1. IsFiniteSet(1 .. n)
    BY FS_Interval
  <2> QED
    BY <2>1, FS_Subset, FS_CardinalityType
<1>2. \A i \in Int : UpTo(S, i) \in SUBSET S
  BY DEF UpTo
<1>3. \A i \in Int : IsFiniteSet(UpTo(S, i)) /\ Cardinality(UpTo(S, i)) \in Nat
  BY <1>1, <1>2, FS_Subset, FS_CardinalityType
<1>4. \A i, j \in Int : i <= j => UpTo(S, i) \in SUBSET UpTo(S, j)
  <2>1. \A i, j \in Int, place \in 1 .. n : i <= j /\ place <= i => place <= j
    OBVIOUS
  <2> QED
    BY <2>1 DEF UpTo
<1>5. UpTo(S, n) = S /\ UpTo(S, 0) = {}
  <2>1. \A place \in S : place <= n /\ ~ place <= 0
    OBVIOUS
  <2> QED
    BY <2>1 DEF UpTo
<1> QED
  BY <1>1, <1>3, <1>4, <1>5, FS_Subset, FS_EmptySet

LEMMA NthPlace ==
    ASSUME NEW n \in Nat, NEW S \in SUBSET (1 .. n), NEW k \in 1 .. Cardinality(S)
    PROVE  Nth(S, k) \in S /\ Cardinality({j \in S : j <= Nth(S, k)}) = k
<1> DEFINE C(i) == Cardinality(UpTo(S, i))
           D == {i \in 1 .. n : C(i) < k}
           m == Cardinality(D)
           i == m + 1
<1>1. /\ \A a \in Int : C(a) \in Nat
      /\ \A a, b \in Int : a <= b => C(a) <= C(b)
      /\ C(n) = Cardinality(S) /\ C(0) = 0 /\ Cardinality(S) \in Nat
  BY UpToIs, Zenon
<1> HIDE DEF C
<1>2. m \in 0 .. n /\ D = 1 .. m
  <2>1. D \in SUBSET (1 .. n)
    OBVIOUS
  <2>2. \A a \in D, b \in 1 .. n : b <= a => b \in D
    <3> TAKE a \in D, b \in 1 .. n
    <3> HAVE b <= a
    <3>1. a \in 1 .. n /\ C(a) < k
      OBVIOUS
    <3>2. C(b) <= C(a) /\ C(a) \in Nat /\ C(b) \in Nat
      BY <1>1, <3>1
    <3> QED
      BY <3>1, <3>2
  <2> HIDE DEF D
  <2> QED
    BY <2>1, <2>2, LowPlaces
<1>3. \A a \in 1 .. n : a \in D <=> C(a) < k
  OBVIOUS
<1> HIDE DEF D, m
<1>4. m < n /\ C(m) < k /\ ~ C(i) < k
  <2>1. m # n
    <3> SUFFICES ASSUME m = n PROVE FALSE
      OBVIOUS
    <3>1. CASE n = 0
      BY <1>1, <3>1
    <3>2. CASE n > 0
      BY <1>1, <1>2, <1>3, <3>2
    <3> QED
      BY <3>1, <3>2
  <2>2. C(m) < k
    <3>1. CASE m = 0
      BY <1>1, <3>1
    <3>2. CASE m # 0
      BY <1>2, <1>3, <3>2
    <3> QED
      BY <3>1, <3>2
  <2>3. ~ C(i) < k
    BY <1>2, <1>3, <2>1
  <2> QED
    BY <1>2, <2>1, <2>2, <2>3
<1>5. UpTo(S, i) \subseteq UpTo(S, m) \cup {i} /\ (i \notin S => UpTo(S, i) = UpTo(S, m))
  <2>1. \A place \in S : place <= i <=> place <= m \/ place = i
    BY <1>2
  <2>2. \A place \in UpTo(S, i) : place \in UpTo(S, m) \/ place = i
    BY <2>1 DEF UpTo
  <2>3. ASSUME i \notin S PROVE UpTo(S, i) = UpTo(S, m)
    <3>1. \A place \in S : place <= i <=> place <= m
      BY <2>1, <2>3
    <3> QED
      BY <3>1, Zenon DEF UpTo
  <2>4. UpTo(S, i) \subseteq UpTo(S, m) \cup {i}
    BY <2>2, Zenon
  <2> QED
    BY <2>3, <2>4, Zenon
<1>6. C(i) <= C(m) + 1
  <2>1. IsFiniteSet(UpTo(S, m))
    <3>1. m \in Int
      BY <1>2
    <3> QED
      BY <3>1, UpToIs, Zenon
  <2>2. /\ IsFiniteSet(UpTo(S, m) \cup {i})
        /\ Cardinality(UpTo(S, m) \cup {i}) = C(m) \/ Cardinality(UpTo(S, m) \cup {i}) = C(m) + 1
    BY <2>1, FS_AddElement DEF C
  <2>3. C(i) <= Cardinality(UpTo(S, m) \cup {i})
    BY <1>5, <2>2, FS_Subset DEF C
  <2>4. C(m) \in Nat /\ C(i) \in Nat
    BY <1>1, <1>2
  <2> QED
    BY <2>2, <2>3, <2>4
<1>7. C(m) \in Nat /\ C(i) \in Nat
  <2>1. m \in Int /\ i \in Int
    BY <1>2
  <2>2. \A a \in Int : C(a) \in Nat
    BY <1>1
  <2> HIDE DEF i
  <2> QED
    BY <2>1, <2>2
<1>8. i \in S
  <2> SUFFICES ASSUME i \notin S PROVE FALSE
    OBVIOUS
  <2>1. C(i) = C(m)
    BY <1>5 DEF C
  <2> QED
    BY <1>4, <1>7, <2>1
<1>9. C(i) = k
  BY <1>4, <1>6, <1>7
<1>10. \E place \in S : Cardinality({j \in S : j <= place}) = k
  BY <1>8, <1>9 DEF C, UpTo
<1> QED
  BY <1>10 DEF Nth

\* All places of a list are the list.
LEMMA ListedAll ==
    ASSUME NEW list, NEW n \in Nat
    PROVE  Listed(list, 1 .. n) = [i \in 1 .. n |-> list[i]]
<1>1. Cardinality(1 .. n) = n
  BY FS_Interval
<1>2. \A k \in 1 .. n : Nth(1 .. n, k) = k
  BY NthOfAll
<1>3. Listed(list, 1 .. n) = [k \in 1 .. n |-> list[Nth(1 .. n, k)]]
  BY <1>1 DEF Listed
<1> QED
  BY <1>2, <1>3

\* The elements of a list at some of its places.
LEMMA ListedIs ==
    ASSUME NEW list, NEW n \in Nat, DOMAIN list = 1 .. n, NEW S \in SUBSET (1 .. n)
    PROVE  /\ Cardinality(S) \in Nat /\ DOMAIN Listed(list, S) = 1 .. Cardinality(S)
           /\ Listed(list, S) = [k \in 1 .. Cardinality(S) |-> Listed(list, S)[k]]
           /\ \A k \in 1 .. Cardinality(S) : Listed(list, S)[k] = list[Nth(S, k)] /\ Nth(S, k) \in S
           /\ \A j, k \in 1 .. Cardinality(S) : Nth(S, j) = Nth(S, k) => j = k
           /\ \A i \in S : \E k \in 1 .. Cardinality(S) : Nth(S, k) = i
<1>1. Cardinality(S) \in Nat
  BY UpToIs
<1>2. \A k \in 1 .. Cardinality(S) : Nth(S, k) \in S /\ Cardinality({j \in S : j <= Nth(S, k)}) = k
  BY NthPlace
<1>3. \A j, k \in 1 .. Cardinality(S) : Nth(S, j) = Nth(S, k) => j = k
  <2> TAKE j, k \in 1 .. Cardinality(S)
  <2> HAVE Nth(S, j) = Nth(S, k)
  <2>1. Cardinality({i \in S : i <= Nth(S, j)}) = j /\ Cardinality({i \in S : i <= Nth(S, k)}) = k
    BY <1>2
  <2> QED
    BY <2>1
<1>4. Listed(list, S) = [k \in 1 .. Cardinality(S) |-> list[Nth(S, k)]]
  BY DEF Listed
<1>5. ASSUME NEW i \in S PROVE \E k \in 1 .. Cardinality(S) : Nth(S, k) = i
  <2> DEFINE k == Cardinality(UpTo(S, i))
  <2>1. \A a, b \in S : a < b => Cardinality(UpTo(S, a)) < Cardinality(UpTo(S, b))
    <3> SUFFICES ASSUME NEW a \in S, NEW b \in S, a < b
                 PROVE  Cardinality(UpTo(S, a)) < Cardinality(UpTo(S, b))
      OBVIOUS
    <3>1. a \in Int /\ b \in Int
      OBVIOUS
    <3>2. UpTo(S, a) \in SUBSET UpTo(S, b) /\ b \in UpTo(S, b) /\ b \notin UpTo(S, a)
      <4>1. \A place \in S : place <= a => place <= b
        BY <3>1
      <4>2. b <= b /\ ~ b <= a
        BY <3>1
      <4> QED
        BY <4>1, <4>2 DEF UpTo
    <3>3. IsFiniteSet(UpTo(S, a)) /\ IsFiniteSet(UpTo(S, b))
          /\ Cardinality(UpTo(S, a)) \in Nat /\ Cardinality(UpTo(S, b)) \in Nat
      BY <3>1, UpToIs
    <3>4. Cardinality(UpTo(S, a) \cup {b}) = Cardinality(UpTo(S, a)) + 1 /\ IsFiniteSet(UpTo(S, a) \cup {b})
      BY <3>2, <3>3, FS_AddElement
    <3>5. Cardinality(UpTo(S, a) \cup {b}) <= Cardinality(UpTo(S, b))
      BY <3>2, <3>3, FS_Subset
    <3> QED
      BY <3>3, <3>4, <3>5
  <2>2. k \in 1 .. Cardinality(S)
    <3>1. i \in Int /\ 0 < i /\ i <= n
      OBVIOUS
    <3>2. UpTo(S, i) \in SUBSET S /\ i \in UpTo(S, i)
      BY <3>1 DEF UpTo
    <3>3. IsFiniteSet(S) /\ IsFiniteSet(UpTo(S, i)) /\ k \in Nat /\ Cardinality(S) \in Nat
      BY <3>1, UpToIs
    <3>4. k <= Cardinality(S) /\ k # 0
      BY <3>2, <3>3, FS_Subset, FS_EmptySet
    <3> QED
      BY <3>3, <3>4
  <2>3. Nth(S, k) \in S /\ Cardinality(UpTo(S, Nth(S, k))) = k
    BY <1>2, <2>2 DEF UpTo
  <2> HIDE DEF k
  <2>4. ~ Nth(S, k) < i /\ ~ i < Nth(S, k)
    <3>1. Cardinality(UpTo(S, i)) = k
      BY DEF k
    <3>2. k \in Nat
      BY <2>2
    <3> DEFINE place == Nth(S, k)
    <3>3. place \in S /\ Cardinality(UpTo(S, place)) = k
      BY <2>3
    <3> HIDE DEF place
    <3>4. ~ place < i /\ ~ i < place
      BY <2>1, <3>1, <3>2, <3>3
    <3> QED
      BY <3>4 DEF place
  <2>5. Nth(S, k) = i
    <3>1. \A place \in S : ~ place < i /\ ~ i < place => place = i
      OBVIOUS
    <3> QED
      BY <2>3, <2>4, <3>1
  <2> QED
    BY <2>2, <2>5
<1> QED
  BY <1>1, <1>2, <1>3, <1>4, <1>5

-----------------------------------------------------------------------------
(* Settings: what is in them, and what the check says of them.             *)

NumberSetting(s, key) == isNumber(s[key]) \/ s[key] \in {Undefined, NaN}

\* The settings of each kind.
LEMMA SettingIsShaped ==
    ASSUME NEW s, Setting(s)
    PROVE  Shaped(s)
BY DEF Setting, Shaped, SettingOr

LEMMA ShapedOf ==
    ASSUME NEW s, Shaped(s)
    PROVE  /\ s.kind \in Kinds /\ "kind" \in DOMAIN s
           /\ s.kind = "constant" => DOMAIN s = {"kind", "value"}
           /\ s.kind = "now" => DOMAIN s = {"kind"}
           /\ s.kind = "enum" => DOMAIN s = {"kind", "values"}
           /\ s.kind = "randomWalk" => DOMAIN s = {"kind", "min", "max", "step", "start", "integer"}
           /\ s.kind = "dailyProfile" => DOMAIN s = {"kind", "min", "max", "peakHours", "noise", "integer"}
           /\ s.kind = "sequence" => DOMAIN s = {"kind", "start", "padTo"}
           /\ s.kind = "jitter" => DOMAIN s = {"kind", "center", "spread", "precision"}
BY DEF Shaped, SettingOr, Kinds, defaultSpec

LEMMA SettingsOf ==
    ASSUME NEW s, Setting(s)
    PROVE  /\ s.kind \in Kinds /\ "kind" \in DOMAIN s
           /\ s.kind = "constant" => DOMAIN s = {"kind", "value"}
           /\ s.kind = "now" => DOMAIN s = {"kind"}
           /\ s.kind = "enum" => DOMAIN s = {"kind", "values"}
           /\ s.kind = "randomWalk" => DOMAIN s = {"kind", "min", "max", "step", "start", "integer"}
           /\ s.kind = "dailyProfile" => DOMAIN s = {"kind", "min", "max", "peakHours", "noise", "integer"}
           /\ s.kind = "sequence" => DOMAIN s = {"kind", "start", "padTo"}
           /\ s.kind = "jitter" => DOMAIN s = {"kind", "center", "spread", "precision"}
BY SettingIsShaped, ShapedOf

LEMMA NumbersOf ==
    ASSUME NEW s, Setting(s)
    PROVE  /\ s.kind = "randomWalk" =>
                /\ NumberSetting(s, "min") /\ NumberSetting(s, "max") /\ NumberSetting(s, "step")
                /\ NumberSetting(s, "start") /\ s.integer \in BOOLEAN \cup {Undefined}
           /\ s.kind = "dailyProfile" =>
                /\ NumberSetting(s, "min") /\ NumberSetting(s, "max") /\ NumberSetting(s, "noise")
                /\ s.integer \in BOOLEAN \cup {Undefined}
                /\ s.peakHours = [i \in DOMAIN s.peakHours |-> s.peakHours[i]]
           /\ s.kind = "sequence" => NumberSetting(s, "start") /\ NumberSetting(s, "padTo")
           /\ s.kind = "jitter" =>
                NumberSetting(s, "center") /\ NumberSetting(s, "spread") /\ NumberSetting(s, "precision")
BY SettingsOf DEF Setting, SettingOr, Numeric, NumberSetting

LEMMA ShapedNumbersOf ==
    ASSUME NEW s, Shaped(s)
    PROVE  /\ s.kind = "randomWalk" => s.integer \in BOOLEAN \cup {Undefined}
           /\ s.kind = "dailyProfile" =>
                /\ s.integer \in BOOLEAN \cup {Undefined}
                /\ s.peakHours = [i \in DOMAIN s.peakHours |-> s.peakHours[i]]
BY ShapedOf DEF Shaped, SettingOr, Numeric

\* Every kind's default is a setting.
LEMMA DefaultIsSetting ==
    ASSUME NEW kind \in Kinds
    PROVE  Setting(defaultSpec(kind)) /\ defaultSpec(kind).kind = kind
<1>1. defaultSpec(kind).kind = kind
  BY DEF Kinds, defaultSpec
<1>2. CASE kind \in {"constant", "now", "enum"}
  BY <1>2 DEF Setting, SettingOr, Kinds, defaultSpec, Numeric
<1>3. CASE kind = "randomWalk"
  <2> DEFINE d == defaultSpec(kind)
  <2>1. d = [kind |-> kind, min |-> 0, max |-> 100 * One, step |-> 5 * One, start |-> Undefined, integer |-> FALSE]
    BY <1>3 DEF defaultSpec
  <2> HIDE DEF d
  <2>2. DOMAIN d = {"kind", "min", "max", "step", "start", "integer"} /\ d = [key \in DOMAIN d |-> d[key]]
    BY <2>1
  <2>3. d.min \in Int /\ d.max \in Int /\ d.step \in Int /\ d.start = Undefined /\ d.integer \in BOOLEAN
    BY <2>1 DEF One
  <2> QED
    BY <1>1, <2>2, <2>3 DEF d, Setting, SettingOr, Numeric, isNumber
<1>4. CASE kind = "dailyProfile"
  <2> DEFINE d == defaultSpec(kind)
  <2>1. d = [kind |-> kind, min |-> 0, max |-> 100 * One, peakHours |-> <<8 * One, 17 * One>>, noise |-> 2,
             integer |-> FALSE]
    BY <1>4 DEF defaultSpec
  <2> HIDE DEF d
  <2>2. DOMAIN d = {"kind", "min", "max", "peakHours", "noise", "integer"} /\ d = [key \in DOMAIN d |-> d[key]]
    BY <2>1
  <2>3. d.min \in Int /\ d.max \in Int /\ d.noise \in Int /\ d.integer \in BOOLEAN
    BY <2>1 DEF One
  <2>4. d.peakHours = [i \in DOMAIN d.peakHours |-> d.peakHours[i]]
    BY <2>1
  <2> QED
    BY <1>1, <2>2, <2>3, <2>4 DEF d, Setting, SettingOr, Numeric, isNumber
<1>5. CASE kind = "sequence"
  BY <1>5 DEF Setting, SettingOr, Kinds, defaultSpec, Numeric, isNumber, One
<1>6. CASE kind = "jitter"
  BY <1>6 DEF Setting, SettingOr, Kinds, defaultSpec, Numeric, isNumber, One
<1> QED
  BY <1>1, <1>2, <1>3, <1>4, <1>5, <1>6 DEF Kinds

\* Only what is no number changes on the way to the service.
LEMMA NumbersPass ==
    ASSUME NEW v, isNumber(v) \/ v = Undefined
    PROVE  Wire(v) = v
BY NoValues DEF Wire, isNumber

LEMMA OnWireFields ==
    ASSUME NEW s, Shaped(s)
    PROVE  /\ OnWire(s).kind = s.kind /\ DOMAIN OnWire(s) = DOMAIN s
           /\ OnWire(s) = [key \in DOMAIN OnWire(s) |-> OnWire(s)[key]]
           /\ \A key \in DOMAIN s \cap Numeric : OnWire(s)[key] = Wire(s[key])
           /\ \A key \in DOMAIN s \ (Numeric \cup {"peakHours"}) : OnWire(s)[key] = s[key]
           /\ "peakHours" \in DOMAIN s =>
                OnWire(s).peakHours = [i \in DOMAIN s.peakHours |-> Wire(s.peakHours[i])]
<1>1. "kind" \in DOMAIN s
  BY ShapedOf
<1> QED
  BY <1>1 DEF OnWire, Numeric

\* What is found wrong is named, whatever else is.
LEMMA WholeInIsNumber ==
    ASSUME NEW v, NEW from \in Int, NEW to \in Int, wholeIn(v, from, to)
    PROVE  v \in Int /\ Whole(v) /\ from * One <= v /\ v <= to * One
BY DEF wholeIn, isNumber

-----------------------------------------------------------------------------
(* Lemmas about the check.                                                 *)

LEMMA WalkChecked ==
    ASSUME NEW s, s.kind = "randomWalk", specErrors(s) = {}
    PROVE  /\ s.min \in Int /\ s.max \in Int /\ s.min <= s.max /\ s.step \in Int /\ s.step > 0
           /\ s.start = Undefined \/ s.start \in Int
           /\ s.integer = TRUE =>
                Whole(s.min) /\ Whole(s.max) /\ (s.start # Undefined => Whole(s.start))
<1>1. range(s) = {} /\ "step" \notin walkErrors(s) /\ "start" \notin walkErrors(s)
  BY DEF specErrors, walkErrors
<1>2. isNumber(s.step) /\ ~(s.step <= 0) /\ (s.start = Undefined \/ isNumber(s.start))
      /\ (s.start # Undefined /\ s.integer = TRUE => Whole(s.start))
  BY <1>1 DEF walkErrors, When
<1>3. isNumber(s.min) /\ isNumber(s.max) /\ ~(s.min > s.max)
      /\ (s.integer = TRUE => Whole(s.min) /\ Whole(s.max))
  BY <1>1 DEF range, When
<1> QED
  BY <1>2, <1>3 DEF isNumber

LEMMA ProfileChecked ==
    ASSUME NEW s, s.kind = "dailyProfile", specErrors(s) = {}
    PROVE  /\ s.min \in Int /\ s.max \in Int /\ s.min <= s.max
           /\ s.peakHours # <<>> /\ \A i \in DOMAIN s.peakHours : wholeIn(s.peakHours[i], 0, 23)
           /\ s.noise = Undefined \/ s.noise \in 0 .. One
           /\ s.integer = TRUE => Whole(s.min) /\ Whole(s.max)
<1>1. range(s) = {} /\ "peakHours" \notin profileErrors(s) /\ "noise" \notin profileErrors(s)
  BY DEF specErrors, profileErrors
<1>2. s.peakHours # <<>> /\ \A i \in DOMAIN s.peakHours : wholeIn(s.peakHours[i], 0, 23)
  BY <1>1 DEF profileErrors, When
<1>3. s.noise = Undefined \/ (isNumber(s.noise) /\ ~(s.noise < 0) /\ ~(s.noise > One))
  BY <1>1 DEF profileErrors, When
<1>4. isNumber(s.min) /\ isNumber(s.max) /\ ~(s.min > s.max)
      /\ (s.integer = TRUE => Whole(s.min) /\ Whole(s.max))
  BY <1>1 DEF range, When
<1>5. s.noise = Undefined \/ s.noise \in 0 .. One
  BY <1>3 DEF isNumber, One
<1> QED
  BY <1>2, <1>4, <1>5 DEF isNumber

LEMMA SequenceChecked ==
    ASSUME NEW s, s.kind = "sequence", specErrors(s) = {}
    PROVE  wholeIn(Or(s.start, One), 0, MAX_SAFE_INTEGER) /\ wholeIn(Or(s.padTo, 0), 0, 12)
BY DEF specErrors, When

LEMMA JitterChecked ==
    ASSUME NEW s, s.kind = "jitter", specErrors(s) = {}
    PROVE  /\ s.center \in Int /\ s.spread \in Int /\ s.spread > 0
           /\ wholeIn(Or(s.precision, 6 * One), 0, 12)
<1>1. /\ "center" \notin specErrors(s) /\ "spread" \notin specErrors(s) /\ "precision" \notin specErrors(s)
  OBVIOUS
<1> QED
  BY <1>1 DEF specErrors, When, isNumber

\* The service's schema takes every setting the check finds nothing wrong with,
\* unless a null passed for a default.
LEMMA CheckedIsTaken ==
    ASSUME NEW s, Shaped(s), specErrors(s) = {}, ~NullPassesForDefault(s)
    PROVE  generatorSpecSchema(OnWire(s))
<1> DEFINE w == OnWire(s)
<1>0. /\ \A key \in DOMAIN s \cap Numeric : w[key] = Wire(s[key])
      /\ \A key \in DOMAIN s \ (Numeric \cup {"peakHours"}) : w[key] = s[key]
      /\ "peakHours" \in DOMAIN s => w.peakHours = [i \in DOMAIN s.peakHours |-> Wire(s.peakHours[i])]
  BY OnWireFields
<1>1. w.kind = s.kind /\ s.kind \in Kinds
  BY OnWireFields, ShapedOf
<1> HIDE DEF w
<1>2. CASE s.kind \in {"constant", "now"}
  BY <1>1, <1>2 DEF generatorSpecSchema, w
<1>3. CASE s.kind = "enum"
  <2>1. s.values # <<>>
    BY <1>3 DEF specErrors, When
  <2>2. w.values = s.values
    BY <1>0, <1>3, ShapedOf DEF Numeric
  <2> QED
    BY <1>1, <1>3, <2>1, <2>2 DEF generatorSpecSchema, w
<1>4. CASE s.kind = "randomWalk"
  <2>1. DOMAIN s = {"kind", "min", "max", "step", "start", "integer"} /\ s.integer \in BOOLEAN \cup {Undefined}
    BY <1>4, ShapedOf, ShapedNumbersOf
  <2>2. w.min = Wire(s.min) /\ w.max = Wire(s.max) /\ w.step = Wire(s.step) /\ w.start = Wire(s.start)
        /\ w.integer = s.integer
    BY <1>0, <2>1 DEF Numeric
  <2>3. s.min \in Int /\ s.max \in Int /\ s.step \in Int /\ s.step > 0 /\ (s.start = Undefined \/ s.start \in Int)
    BY <1>4, WalkChecked
  <2>4. w.min = s.min /\ w.max = s.max /\ w.step = s.step /\ w.start = s.start
    BY <2>2, <2>3, NumbersPass DEF isNumber
  <2>5. w.integer # Null
    BY <2>1, <2>2, NoValues
  <2> QED
    BY <1>1, <1>4, <2>3, <2>4, <2>5 DEF generatorSpecSchema, isNumber, w
<1>5. CASE s.kind = "dailyProfile"
  <2>1. DOMAIN s = {"kind", "min", "max", "peakHours", "noise", "integer"} /\ s.integer \in BOOLEAN \cup {Undefined}
    BY <1>5, ShapedOf, ShapedNumbersOf
  <2>2. w.min = Wire(s.min) /\ w.max = Wire(s.max) /\ w.noise = Wire(s.noise) /\ w.integer = s.integer
    BY <1>0, <2>1 DEF Numeric
  <2>3. s.min \in Int /\ s.max \in Int /\ (s.noise = Undefined \/ s.noise \in 0 .. One)
    BY <1>5, ProfileChecked
  <2>4. w.min = s.min /\ w.max = s.max /\ w.noise = s.noise
    BY <2>2, <2>3, NumbersPass DEF isNumber, One
  <2>5. w.integer # Null
    BY <2>1, <2>2, NoValues
  <2>6. DOMAIN w.peakHours = DOMAIN s.peakHours /\ \A i \in DOMAIN s.peakHours : w.peakHours[i] = Wire(s.peakHours[i])
    BY <1>0, <2>1
  <2>7. ASSUME NEW i \in DOMAIN s.peakHours
        PROVE  s.peakHours[i] \in 0 .. 23 * One
    <3>1. wholeIn(s.peakHours[i], 0, 23)
      BY <1>5, ProfileChecked
    <3> QED
      BY <3>1, WholeInIsNumber DEF One
  <2>8. ASSUME NEW i \in DOMAIN w.peakHours
        PROVE  w.peakHours[i] \in 0 .. 23 * One
    <3>1. s.peakHours[i] \in 0 .. 23 * One /\ w.peakHours[i] = Wire(s.peakHours[i])
      BY <2>6, <2>7
    <3>2. isNumber(s.peakHours[i])
      BY <3>1 DEF isNumber, One
    <3> QED
      BY <3>1, <3>2, NumbersPass
  <2>9. w.peakHours # <<>>
    <3>1. s.peakHours = [i \in DOMAIN s.peakHours |-> s.peakHours[i]] /\ s.peakHours # <<>>
      BY <1>5, ShapedNumbersOf, ProfileChecked
    <3>2. \E i : i \in DOMAIN s.peakHours
      <4>1. DOMAIN s.peakHours = {} => [i \in DOMAIN s.peakHours |-> s.peakHours[i]] = <<>>
        OBVIOUS
      <4> QED
        BY <3>1, <4>1
    <3> QED
      BY <2>6, <3>2
  <2> QED
    BY <1>1, <1>5, <2>3, <2>4, <2>5, <2>8, <2>9 DEF generatorSpecSchema, isNumber, w
<1>6. CASE s.kind = "sequence"
  <2>1. DOMAIN s = {"kind", "start", "padTo"} /\ s.start # Null /\ s.padTo # Null
    BY <1>6, ShapedOf DEF NullPassesForDefault
  <2>2. w.start = Wire(s.start) /\ w.padTo = Wire(s.padTo)
    BY <1>0, <2>1 DEF Numeric
  <2>3. wholeIn(Or(s.start, One), 0, MAX_SAFE_INTEGER) /\ wholeIn(Or(s.padTo, 0), 0, 12)
    BY <1>6, SequenceChecked
  <2>4. s.start = Undefined \/ (s.start \in Int /\ Or(s.start, One) = s.start)
    BY <2>1, <2>3, NoValues DEF wholeIn, isNumber, Or
  <2>5. s.padTo = Undefined \/ (s.padTo \in Int /\ Or(s.padTo, 0) = s.padTo)
    BY <2>1, <2>3, NoValues DEF wholeIn, isNumber, Or
  <2>6. w.start = s.start /\ w.padTo = s.padTo
    BY <2>2, <2>4, <2>5, NumbersPass DEF isNumber
  <2>7. w.start = Undefined \/ (isNumber(w.start) /\ w.start >= 0 /\ Whole(w.start))
    BY <2>3, <2>4, <2>6, WholeInIsNumber DEF wholeIn, One
  <2>8. w.padTo = Undefined \/ wholeIn(w.padTo, 0, 12)
    BY <2>3, <2>5, <2>6
  <2> QED
    BY <1>1, <1>6, <2>7, <2>8 DEF generatorSpecSchema, w
<1>7. CASE s.kind = "jitter"
  <2>1. DOMAIN s = {"kind", "center", "spread", "precision"} /\ s.precision # Null
    BY <1>7, ShapedOf DEF NullPassesForDefault
  <2>2. w.center = Wire(s.center) /\ w.spread = Wire(s.spread) /\ w.precision = Wire(s.precision)
    BY <1>0, <2>1 DEF Numeric
  <2>3. s.center \in Int /\ s.spread \in Int /\ s.spread > 0 /\ wholeIn(Or(s.precision, 6 * One), 0, 12)
    BY <1>7, JitterChecked
  <2>4. s.precision = Undefined \/ (s.precision \in Int /\ Or(s.precision, 6 * One) = s.precision)
    BY <2>1, <2>3, NoValues DEF wholeIn, isNumber, Or
  <2>5. w.center = s.center /\ w.spread = s.spread /\ w.precision = s.precision
    BY <2>2, <2>3, <2>4, NumbersPass DEF isNumber
  <2>6. w.precision = Undefined \/ wholeIn(w.precision, 0, 12)
    BY <2>3, <2>4, <2>5
  <2> QED
    BY <1>1, <1>7, <2>3, <2>5, <2>6 DEF generatorSpecSchema, isNumber, w
<1> QED
  BY <1>1, <1>2, <1>3, <1>4, <1>5, <1>6, <1>7 DEF Kinds

-----------------------------------------------------------------------------
(* Lemmas about the values a generator produces.                           *)

LEMMA ClampStays ==
    ASSUME NEW v \in Int, NEW min \in Int, NEW max \in Int, min <= max
    PROVE  clamp(v, min, max) \in min .. max
BY DEF clamp, Smaller, Larger

\* Rounding goes to a whole number, and not past one.
LEMMA RoundStays ==
    ASSUME NEW v \in Int
    PROVE  /\ Round(v, One) \in Int /\ Whole(Round(v, One))
           /\ \A min \in Int, max \in Int :
                Whole(min) /\ Whole(max) /\ v \in min .. max => Round(v, One) \in min .. max
<1> DEFINE k == (2 * v + 20) \div 40
<1>1. Round(v, One) = k * 20
  BY DEF Round, One
<1>2. k \in Int /\ 40 * k <= 2 * v + 20 /\ 2 * v + 20 < 40 * k + 40
  OBVIOUS
<1> HIDE DEF k
<1>3. k * 20 \in Int /\ (k * 20) % 20 = 0
  BY <1>2
<1>4. ASSUME NEW min \in Int, NEW max \in Int, min % 20 = 0, max % 20 = 0, min <= v, v <= max
      PROVE  min <= k * 20 /\ k * 20 <= max
  <2>1. PICK a \in Int, b \in Int : min = 20 * a /\ max = 20 * b
    <3>1. min = 20 * (min \div 20) /\ max = 20 * (max \div 20) /\ min \div 20 \in Int /\ max \div 20 \in Int
      BY <1>4
    <3> QED
      BY <3>1
  <2> QED
    BY <1>2, <1>4, <2>1
<1> QED
  BY <1>1, <1>3, <1>4 DEF Whole, One

\* Settings of numbers that a generator starts from, as the service keeps them.
Walks(s) == s.kind = "randomWalk" /\ s.min \in Int /\ s.max \in Int /\ s.min <= s.max /\ s.step \in Int
Curves(s) == s.kind = "dailyProfile" /\ s.min \in Int /\ s.max \in Int /\ s.min <= s.max

LEMMA ValuesAreClamped ==
    ASSUME NEW s, Walks(s) \/ Curves(s), NEW at \in SUBSET Int, NEW value \in Values(s, at)
    PROVE  \E v \in s.min .. s.max : value = Scalar("number", Rounded(s, v))
<1>1. CASE Walks(s)
  <2>1. PICK current \in at : \E v \in WalkStep(s, current) : value = Scalar("number", Rounded(s, v))
    BY <1>1 DEF Values, Walks
  <2>2. PICK v \in WalkStep(s, current) : value = Scalar("number", Rounded(s, v))
    BY <2>1
  <2>3. PICK offset \in {-s.step, -(s.step \div 3), 0, s.step} : v = clamp(current + offset, s.min, s.max)
    BY <2>2 DEF WalkStep
  <2>4. current + offset \in Int
    BY <1>1, <2>3 DEF Walks
  <2>5. v \in s.min .. s.max
    BY <1>1, <2>3, <2>4, ClampStays DEF Walks
  <2> QED
    BY <2>2, <2>5
<1>2. CASE Curves(s)
  <2>1. PICK v \in ProfileShape(s) : value = Scalar("number", Rounded(s, clamp(v, s.min, s.max)))
    BY <1>2 DEF Values, Curves
  <2>2. v \in Int
    BY <1>2, <2>1 DEF ProfileShape, Curves, One
  <2>3. clamp(v, s.min, s.max) \in s.min .. s.max
    BY <1>2, <2>2, ClampStays DEF Curves
  <2> QED
    BY <2>1, <2>3
<1> QED
  BY <1>1, <1>2

\* Where a walk may have got to.
Reached(s) == IF s.kind = "randomWalk" THEN {StartOf(s), s.min, s.max} ELSE {}

LEMMA ReachedNumbers ==
    ASSUME NEW s, s.kind \in {"randomWalk", "dailyProfile"}, specErrors(s) = {}
    PROVE  Reached(s) \in SUBSET Int /\ (Walks(s) \/ Curves(s))
<1>1. CASE s.kind = "randomWalk"
  <2>1. s.min \in Int /\ s.max \in Int /\ s.min <= s.max /\ s.step \in Int /\ (s.start = Undefined \/ s.start \in Int)
    BY <1>1, WalkChecked
  <2>2. StartOf(s) \in Int
    BY <2>1, NoValues DEF StartOf, Or
  <2> QED
    BY <1>1, <2>1, <2>2 DEF Reached, Walks
<1>2. CASE s.kind = "dailyProfile"
  BY <1>2, ProfileChecked DEF Reached, Curves
<1> QED
  BY <1>1, <1>2

\* A walk or a daily profile the check finds nothing wrong with keeps its range.
LEMMA CheckedStaysInRange ==
    ASSUME NEW s, s.kind \in {"randomWalk", "dailyProfile"}, specErrors(s) = {},
           NEW value \in Values(s, Reached(s))
    PROVE  value.is \in s.min .. s.max
<1>1. Reached(s) \in SUBSET Int /\ (Walks(s) \/ Curves(s))
  BY ReachedNumbers
<1>2. PICK v \in s.min .. s.max : value = Scalar("number", Rounded(s, v))
  BY <1>1, ValuesAreClamped
<1>3. s.min \in Int /\ s.max \in Int /\ v \in Int
  BY <1>1, <1>2 DEF Walks, Curves
<1>4. value.is = Rounded(s, v)
  BY <1>2 DEF Scalar
<1>5. CASE s.integer = TRUE
  <2>1. Whole(s.min) /\ Whole(s.max)
    BY <1>5, WalkChecked, ProfileChecked
  <2> QED
    BY <1>3, <1>4, <1>5, <2>1, RoundStays DEF Rounded
<1>6. CASE s.integer # TRUE
  BY <1>2, <1>4, <1>6 DEF Rounded
<1> QED
  BY <1>5, <1>6

\* What was sent is kept as it is.
LEMMA ParsedKeeps ==
    ASSUME NEW s, Shaped(s)
    PROVE  /\ Parsed(s).kind = s.kind
           /\ \A key \in DOMAIN s : s[key] # Undefined => Parsed(s)[key] = s[key]
           /\ \A key \in DOMAIN s : key \in {"value", "values"} => Parsed(s)[key] = s[key]
           /\ "integer" \in DOMAIN s => (Parsed(s).integer = TRUE <=> s.integer = TRUE)
<1>1. \A key \in DOMAIN s : s[key] # Undefined => Parsed(s)[key] = s[key]
  BY DEF Parsed
<1>2. s.kind # Undefined
  BY NoValues, ShapedOf
<1>3. \A key \in DOMAIN s : key \in {"value", "values"} => Parsed(s)[key] = s[key]
  BY DEF Parsed, SchemaDefaults
<1>4. "integer" \in DOMAIN s /\ s.integer = Undefined => Parsed(s).integer = FALSE
  BY DEF Parsed, SchemaDefaults
<1>5. "integer" \in DOMAIN s => (Parsed(s).integer = TRUE <=> s.integer = TRUE)
  BY <1>1, <1>4, NoValues
<1> QED
  BY <1>1, <1>2, <1>3, <1>5, ShapedOf

OneType(s) == s.kind = "enum" => \A i \in DOMAIN s.values : s.values[i].type = s.values[1].type

\* The column takes every value of the generator, if its numbers fit in the column.
LEMMA CheckedFits ==
    ASSUME NEW s, Shaped(s), specErrors(s) = {}, OneType(s), WithinColumn(s),
           NEW value \in Values(Parsed(s), Reached(s))
    PROVE  Fits(columnTypeFor(s), value)
<1> DEFINE r == Parsed(s)
<1>1. r.kind = s.kind /\ s.kind \in Kinds
  BY ParsedKeeps, ShapedOf
<1>2. CASE s.kind = "constant"
  <2>1. value = s.value
    BY <1>1, <1>2, ParsedKeeps, ShapedOf DEF Values
  <2>2. columnTypeFor(s) = "integer" => value.is \in int4
    BY <1>2, <2>1 DEF WithinColumn
  <2> QED
    BY <1>2, <2>1, <2>2 DEF columnTypeFor, Fits
<1>3. CASE s.kind = "now"
  BY <1>1, <1>3 DEF Values, columnTypeFor, Fits, Scalar
<1>4. CASE s.kind = "enum"
  <2>0. r.values = s.values /\ Values(r, Reached(s)) = {r.values[i] : i \in DOMAIN r.values}
    <3>1. "values" \in DOMAIN s
      BY <1>4, ShapedOf
    <3>2. r.values = s.values
      BY <3>1, ParsedKeeps
    <3> HIDE DEF r
    <3> QED
      BY <1>1, <1>4, <3>2 DEF Values
  <2>1. PICK i \in DOMAIN s.values : value = s.values[i]
    BY <2>0
  <2>2. value.type = s.values[1].type
    BY <1>4, <2>1 DEF OneType
  <2>3. s.values # <<>>
    BY <1>4 DEF specErrors, When
  <2> DEFINE t == s.values[1].type
  <2>4. columnTypeFor(s) = CASE t = "number" -> "double" [] t = "boolean" -> "boolean" [] OTHER -> "text"
    BY <1>4, <2>3 DEF columnTypeFor
  <2> HIDE DEF t
  <2>5. value.type = t
    BY <2>2 DEF t
  <2> QED
    BY <2>4, <2>5 DEF Fits
<1>5. CASE s.kind \in {"randomWalk", "dailyProfile"}
  <2>1. Reached(s) \in SUBSET Int /\ (Walks(s) \/ Curves(s))
    BY <1>5, ReachedNumbers
  <2>2. r.min = s.min /\ r.max = s.max /\ (s.kind = "randomWalk" => r.step = s.step)
    BY <1>5, <2>1, ParsedKeeps, ShapedOf, NoValues DEF Walks, Curves
  <2>3. Walks(r) \/ Curves(r)
    BY <1>1, <2>1, <2>2 DEF Walks, Curves
  <2>4. PICK v \in r.min .. r.max : value = Scalar("number", Rounded(r, v))
    BY <2>1, <2>3, ValuesAreClamped
  <2>5. v \in Int
    BY <2>3, <2>4 DEF Walks, Curves
  <2>6. value.type = "number" /\ value.is = Rounded(r, v)
    BY <2>4 DEF Scalar
  <2>7. r.integer = TRUE <=> s.integer = TRUE
    BY <1>5, ParsedKeeps, ShapedOf
  <2>8. s.integer = TRUE => Whole(value.is)
    BY <2>5, <2>6, <2>7, RoundStays DEF Rounded
  <2>9. columnTypeFor(s) = IF s.integer = TRUE THEN "integer" ELSE "double"
    BY <1>5 DEF columnTypeFor
  <2>10. s.integer = TRUE => value.is \in int4
    <3> SUFFICES ASSUME s.integer = TRUE
                 PROVE  value.is \in int4
      OBVIOUS
    <3>1. Whole(s.min) /\ Whole(s.max) /\ s.min \in Int /\ s.max \in Int
      BY <1>5, WalkChecked, ProfileChecked
    <3>2. value.is \in s.min .. s.max
      BY <2>2, <2>4, <2>5, <2>6, <2>7, <3>1, RoundStays DEF Rounded
    <3>3. s.min \in int4 /\ s.max \in int4
      BY <1>5, <2>9 DEF WithinColumn
    <3> QED
      BY <3>1, <3>2, <3>3, NoValues DEF int4, One
  <2> QED
    BY <2>6, <2>8, <2>9, <2>10 DEF Fits
<1>6. CASE s.kind = "sequence"
  BY <1>6 DEF columnTypeFor, Fits
<1>7. CASE s.kind = "jitter"
  BY <1>1, <1>7 DEF Values, columnTypeFor, Fits, Scalar
<1> QED
  BY <1>1, <1>2, <1>3, <1>4, <1>5, <1>6, <1>7 DEF Kinds
=============================================================================
