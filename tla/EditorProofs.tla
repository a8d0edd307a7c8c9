----------------------------- MODULE EditorProofs -----------------------------
(***************************************************************************)
(* What the editor calls valid the service takes, and what it saved comes  *)
(* back as it was: proofs for every portal, source and typed input.        *)
(***************************************************************************)
EXTENDS Editor, GeneratorsProofs

\* A text of the JSON view that can be read lists fields.
TextFits(text) == Readable(text) => "fields" \in DOMAIN text /\ FieldList(text.fields)

\* What a person makes of the text, if it can be read, still lists fields with the
\* settings of their kinds; all else in it may be anything.
JsonKeeps == \A text, next : TextFits(text) /\ next \in JsonTexts(text) => TextFits(next)

-----------------------------------------------------------------------------
(* Lists.                                                                  *)

LEMMA SeqGrows ==
    ASSUME NEW S, NEW T, S \subseteq T, NEW s \in Seq(S)
    PROVE  s \in Seq(T)
OBVIOUS

LEMMA SeqParts ==
    ASSUME NEW S, NEW s \in Seq(S)
    PROVE  /\ Len(s) \in Nat /\ DOMAIN s = 1 .. Len(s)
           /\ s = [i \in 1 .. Len(s) |-> s[i]]
           /\ \A i \in 1 .. Len(s) : s[i] \in S
OBVIOUS

LEMMA SeqMade ==
    ASSUME NEW S, NEW n \in Nat, NEW s, s = [i \in 1 .. n |-> s[i]], \A i \in 1 .. n : s[i] \in S
    PROVE  s \in Seq(S) /\ Len(s) = n
OBVIOUS

LEMMA SeqJoined ==
    ASSUME NEW S, NEW s \in Seq(S), NEW t \in Seq(S)
    PROVE  /\ s \o t \in Seq(S)
           /\ \A i \in DOMAIN (s \o t) :
                \/ \E j \in DOMAIN s : (s \o t)[i] = s[j]
                \/ \E j \in DOMAIN t : (s \o t)[i] = t[j]
<1>1. s \o t \in Seq(S) /\ Len(s \o t) = Len(s) + Len(t)
  OBVIOUS
<1>2. ASSUME NEW i \in 1 .. Len(s \o t)
      PROVE  \/ \E j \in 1 .. Len(s) : (s \o t)[i] = s[j]
             \/ \E j \in 1 .. Len(t) : (s \o t)[i] = t[j]
  <2>1. CASE i <= Len(s)
    BY <1>1, <2>1
  <2>2. CASE i > Len(s)
    <3>1. i - Len(s) \in 1 .. Len(t) /\ (s \o t)[i] = t[i - Len(s)]
      BY <1>1, <2>2
    <3> QED
      BY <3>1
  <2> QED
    BY <1>1, <2>1, <2>2
<1> QED
  BY <1>1, <1>2

LEMMA SeqRemoved ==
    ASSUME NEW S, NEW s \in Seq(S), NEW i \in DOMAIN s
    PROVE  /\ RemoveAt(s, i) \in Seq(S)
           /\ \A k \in DOMAIN RemoveAt(s, i) : \E j \in DOMAIN s : RemoveAt(s, i)[k] = s[j]
<1> DEFINE before == SubSeq(s, 1, i - 1)
           after == SubSeq(s, i + 1, Len(s))
<1>1. /\ before \in Seq(S) /\ \A k \in DOMAIN before : \E j \in DOMAIN s : before[k] = s[j]
      /\ after \in Seq(S) /\ \A k \in DOMAIN after : \E j \in DOMAIN s : after[k] = s[j]
  <2>1. i \in 1 .. Len(s) /\ Len(s) \in Nat
    OBVIOUS
  <2>2. before \in Seq(S) /\ Len(before) = i - 1 /\ \A k \in 1 .. i - 1 : before[k] = s[k]
    BY <2>1
  <2>3. after \in Seq(S) /\ Len(after) = Len(s) - i /\ \A k \in 1 .. Len(s) - i : after[k] = s[i + k]
    BY <2>1
  <2>4. \A k \in 1 .. Len(s) - i : i + k \in 1 .. Len(s)
    BY <2>1
  <2>5. DOMAIN s = 1 .. Len(s) /\ DOMAIN before = 1 .. i - 1 /\ DOMAIN after = 1 .. Len(s) - i
    BY <2>2, <2>3, SeqParts
  <2>6. \A k \in 1 .. i - 1 : k \in 1 .. Len(s)
    BY <2>1
  <2> HIDE DEF before, after
  <2> QED
    BY <2>2, <2>3, <2>4, <2>5, <2>6, Zenon
<1>2. RemoveAt(s, i) = before \o after
  BY DEF RemoveAt
<1> HIDE DEF before, after
<1>3. /\ before \o after \in Seq(S)
      /\ \A k \in DOMAIN (before \o after) :
           \/ \E j \in DOMAIN before : (before \o after)[k] = before[j]
           \/ \E j \in DOMAIN after : (before \o after)[k] = after[j]
  <2>1. before \in Seq(S) /\ after \in Seq(S)
    BY <1>1
  <2> QED
    BY <2>1, SeqJoined, SMTT(20)
<1>4. \A k \in DOMAIN (before \o after) : \E j \in DOMAIN s : (before \o after)[k] = s[j]
  <2> TAKE k \in DOMAIN (before \o after)
  <2>1. \/ \E j \in DOMAIN before : (before \o after)[k] = before[j]
        \/ \E j \in DOMAIN after : (before \o after)[k] = after[j]
    BY <1>3
  <2> QED
    BY <1>1, <2>1, Zenon
<1> QED
  BY <1>2, <1>3, <1>4

-----------------------------------------------------------------------------
(* Lists of fields.                                                        *)

IsField(f) == f = Field(f.name, f.spec) /\ Shaped(f.spec)

LEMMA ListOf ==
    ASSUME NEW f, FieldList(f)
    PROVE  /\ Len(f) \in Nat /\ DOMAIN f = 1 .. Len(f)
           /\ f = [i \in 1 .. Len(f) |-> f[i]]
           /\ \A i \in DOMAIN f : IsField(f[i])
BY SeqParts DEF FieldList, IsField

LEMMA ListFrom ==
    ASSUME NEW S, NEW f \in Seq(S), \A i \in DOMAIN f : IsField(f[i])
    PROVE  FieldList(f)
<1>1. Len(f) \in Nat /\ DOMAIN f = 1 .. Len(f) /\ f = [i \in 1 .. Len(f) |-> f[i]]
  BY SeqParts
<1>2. \A i \in 1 .. Len(f) : f[i] \in {f[j] : j \in DOMAIN f}
  BY <1>1
<1>3. f \in Seq({f[j] : j \in DOMAIN f})
  BY <1>1, <1>2, SeqMade
<1> QED
  BY <1>3 DEF FieldList, IsField

LEMMA ListMade ==
    ASSUME NEW n \in Nat, NEW f, f = [i \in 1 .. n |-> f[i]], \A i \in 1 .. n : IsField(f[i])
    PROVE  FieldList(f)
<1>1. f \in Seq({f[i] : i \in 1 .. n}) /\ DOMAIN f = 1 .. n
  BY SeqMade
<1> QED
  BY <1>1, ListFrom

LEMMA FieldMade ==
    ASSUME NEW name, NEW spec, Shaped(spec)
    PROVE  IsField(Field(name, spec)) /\ Field(name, spec).name = name /\ Field(name, spec).spec = spec
BY DEF IsField, Field

LEMMA ListChanged ==
    ASSUME NEW f, FieldList(f), NEW i \in DOMAIN f, NEW g, IsField(g)
    PROVE  FieldList([f EXCEPT ![i] = g])
<1> DEFINE h == [f EXCEPT ![i] = g]
<1> SUFFICES FieldList(h)
  OBVIOUS
<1>1. DOMAIN h = 1 .. Len(f) /\ h = [j \in 1 .. Len(f) |-> h[j]] /\ Len(f) \in Nat
  BY ListOf
<1>2. \A j \in 1 .. Len(f) : IsField(h[j])
  BY ListOf
<1> HIDE DEF h
<1> QED
  BY <1>1, <1>2, ListMade, Zenon

LEMMA ListJoined ==
    ASSUME NEW f, NEW g, FieldList(f), FieldList(g)
    PROVE  FieldList(f \o g)
<1> DEFINE S == {f[i] : i \in DOMAIN f} \cup {g[i] : i \in DOMAIN g}
<1>1. f \in Seq(S) /\ g \in Seq(S)
  BY SeqGrows DEF FieldList
<1> HIDE DEF S
<1>2. /\ f \o g \in Seq(S)
      /\ \A i \in DOMAIN (f \o g) :
           \/ \E j \in DOMAIN f : (f \o g)[i] = f[j]
           \/ \E j \in DOMAIN g : (f \o g)[i] = g[j]
  BY <1>1, SeqJoined, SMTT(20)
<1>3. \A i \in DOMAIN (f \o g) : IsField((f \o g)[i])
  BY <1>2, ListOf
<1> QED
  BY <1>2, <1>3, ListFrom

LEMMA ListExtended ==
    ASSUME NEW f, FieldList(f), NEW g, IsField(g)
    PROVE  FieldList(Append(f, g))
<1> DEFINE h == Append(f, g)
<1> SUFFICES FieldList(h)
  OBVIOUS
<1> DEFINE n == Len(f) + 1
           S == {f[j] : j \in DOMAIN f} \cup {g}
<1>0. f \in Seq(S) /\ g \in S
  BY SeqGrows DEF FieldList
<1> HIDE DEF S
<1>1. n \in Nat /\ h = [j \in 1 .. n |-> h[j]]
  <2>1. h \in Seq(S) /\ Len(h) = n /\ n \in Nat
    BY <1>0
  <2> HIDE DEF h, n
  <2> QED
    BY <2>1, SeqParts
<1>2. \A j \in 1 .. n : j = n \/ j \in 1 .. Len(f)
  BY <1>0
<1>3. \A j \in 1 .. Len(f) : h[j] = f[j]
  BY <1>0
<1>4. h[n] = g
  BY <1>0
<1> HIDE DEF h, n
<1>5. \A j \in 1 .. n : IsField(h[j])
  BY <1>2, <1>3, <1>4, ListOf
<1> QED
  BY <1>1, <1>5, ListMade, Zenon

LEMMA ListShortened ==
    ASSUME NEW f, FieldList(f), NEW i \in DOMAIN f
    PROVE  FieldList(RemoveAt(f, i))
<1> DEFINE S == {f[j] : j \in DOMAIN f}
<1>1. f \in Seq(S)
  BY DEF FieldList
<1> HIDE DEF S
<1>2. RemoveAt(f, i) \in Seq(S) /\ \A k \in DOMAIN RemoveAt(f, i) : \E j \in DOMAIN f : RemoveAt(f, i)[k] = f[j]
  BY <1>1, SeqRemoved, SMTT(20)
<1>3. \A k \in DOMAIN RemoveAt(f, i) : IsField(RemoveAt(f, i)[k])
  BY <1>2, ListOf
<1> QED
  BY <1>2, <1>3, ListFrom

-----------------------------------------------------------------------------
(* Fields whose names are all different are sent as they are.              *)

Unique(fields) == Cardinality(Names(fields)) = Len(fields)

LEMMA UniqueNames ==
    ASSUME NEW f, FieldList(f), Unique(f)
    PROVE  \A i, j \in DOMAIN f : f[i].name = f[j].name => i = j
<1> DEFINE n == Len(f)
           nameOf == [i \in 1 .. n |-> f[i].name]
<1>1. n \in Nat /\ DOMAIN f = 1 .. n
  BY ListOf
<1>2. IsFiniteSet(1 .. n) /\ Cardinality(1 .. n) = n
  <2> HIDE DEF n
  <2> QED
    BY <1>1, FS_Interval
<1>3. Names(f) = {nameOf[i] : i \in 1 .. n} /\ nameOf \in Surjection(1 .. n, Names(f))
  BY <1>1 DEF Names, Surjection
<1>4. IsFiniteSet(Names(f))
  BY <1>2, <1>3, FS_Surjection
<1>5. Cardinality(1 .. n) = Cardinality(Names(f))
  BY <1>2 DEF Unique
<1>6. nameOf \in Injection(1 .. n, Names(f))
  BY <1>2, <1>3, <1>4, <1>5, FS_SurjSameCardinalityImpliesInj
<1>7. \A i, j \in 1 .. n : nameOf[i] = nameOf[j] => i = j
  BY <1>6 DEF Injection, IsInjective
<1> QED
  BY <1>1, <1>7

LEMMA DifferentNames ==
    ASSUME NEW f, FieldList(f), \A i, j \in DOMAIN f : f[i].name = f[j].name => i = j
    PROVE  Unique(f)
<1> DEFINE n == Len(f)
           nameOf == [i \in 1 .. n |-> f[i].name]
<1>1. n \in Nat /\ DOMAIN f = 1 .. n
  BY ListOf
<1>2. IsFiniteSet(1 .. n) /\ Cardinality(1 .. n) = n
  <2> HIDE DEF n
  <2> QED
    BY <1>1, FS_Interval
<1>3. nameOf \in Bijection(1 .. n, Names(f))
  BY <1>1 DEF Names, Bijection, Injection, Surjection, IsInjective
<1> HIDE DEF nameOf, n
<1>4. Cardinality(1 .. n) = Cardinality(Names(f))
  BY <1>2, <1>3, FS_Bijection DEF ExistsBijection
<1> QED
  BY <1>2, <1>4 DEF Unique, n

LEMMA UniqueIsNamed ==
    ASSUME NEW f, FieldList(f), Unique(f), NEW i \in DOMAIN f
    PROVE  LastNamed(f, f[i].name) = f[i]
<1>1. \A j \in DOMAIN f : f[j].name = f[i].name => j = i
  BY UniqueNames
<1>2. i \in Nat
  BY ListOf
<1> QED
  BY <1>1, <1>2 DEF LastNamed

LEMMA UniqueIsSent ==
    ASSUME NEW f, FieldList(f), Unique(f)
    PROVE  Merged(f) = f
<1> DEFINE n == Len(f)
<1>1. n \in Nat /\ DOMAIN f = 1 .. n /\ f = [i \in 1 .. n |-> f[i]]
  BY ListOf
<1>2. Firsts(f) = 1 .. n
  BY <1>1, UniqueNames DEF Firsts
<1>3. Cardinality(Firsts(f)) = n
  BY <1>1, <1>2, FS_Interval
<1>4. \A k \in 1 .. n : LastNamed(f, f[Nth(Firsts(f), k)].name) = f[k]
  BY <1>1, <1>2, NthOfAll, UniqueIsNamed
<1> HIDE DEF n
<1>5. Merged(f) = [k \in 1 .. n |-> f[k]]
  BY <1>3, <1>4 DEF Merged
<1> QED
  BY <1>1, <1>5

-----------------------------------------------------------------------------
(* Checked settings have no number missing a value, so JSON keeps them.    *)

NoNaN(s) == /\ \A key \in DOMAIN s \cap Numeric : s[key] # NaN
            /\ "peakHours" \in DOMAIN s => \A i \in DOMAIN s.peakHours : s.peakHours[i] # NaN

LEMMA CheckedHasNumbers ==
    ASSUME NEW s, Shaped(s), specErrors(s) = {}
    PROVE  NoNaN(s)
<1> USE DEF NoNaN
<1>1. CASE s.kind \in {"constant", "now", "enum"}
  BY <1>1, ShapedOf DEF Numeric
<1>2. CASE s.kind = "randomWalk"
  <2>1. s.min \in Int /\ s.max \in Int /\ s.step \in Int /\ (s.start = Undefined \/ s.start \in Int)
    BY <1>2, WalkChecked
  <2>2. DOMAIN s = {"kind", "min", "max", "step", "start", "integer"}
    BY <1>2, ShapedOf
  <2> QED
    BY <2>1, <2>2, NoValues DEF Numeric
<1>3. CASE s.kind = "dailyProfile"
  <2>1. /\ s.min \in Int /\ s.max \in Int /\ (s.noise = Undefined \/ s.noise \in 0 .. One)
        /\ \A i \in DOMAIN s.peakHours : wholeIn(s.peakHours[i], 0, 23)
    BY <1>3, ProfileChecked
  <2>2. DOMAIN s = {"kind", "min", "max", "peakHours", "noise", "integer"}
    BY <1>3, ShapedOf
  <2>3. \A i \in DOMAIN s.peakHours : s.peakHours[i] \in Int
    BY <2>1 DEF wholeIn, isNumber
  <2>4. NaN \notin Int /\ NaN # Undefined
    BY NoValues
  <2>5. s.noise # NaN
    BY <2>1, <2>4 DEF One
  <2> QED
    BY <2>1, <2>2, <2>3, <2>4, <2>5 DEF Numeric
<1>4. CASE s.kind = "sequence"
  <2>1. Or(s.start, One) \in Int /\ Or(s.padTo, 0) \in Int
    BY <1>4, SequenceChecked DEF wholeIn, isNumber
  <2>2. DOMAIN s = {"kind", "start", "padTo"}
    BY <1>4, ShapedOf
  <2>3. NaN \notin Int /\ NaN \notin {Undefined, Null}
    BY NoValues
  <2> QED
    BY <2>1, <2>2, <2>3 DEF Or, Numeric
<1>5. CASE s.kind = "jitter"
  <2>1. s.center \in Int /\ s.spread \in Int /\ Or(s.precision, 6 * One) \in Int
    BY <1>5, JitterChecked DEF wholeIn, isNumber
  <2>2. DOMAIN s = {"kind", "center", "spread", "precision"}
    BY <1>5, ShapedOf
  <2>3. NaN \notin Int /\ NaN \notin {Undefined, Null}
    BY NoValues
  <2> QED
    BY <2>1, <2>2, <2>3 DEF Or, Numeric
<1> QED
  BY <1>1, <1>2, <1>3, <1>4, <1>5, ShapedOf DEF Kinds

LEMMA NumbersAreKept ==
    ASSUME NEW s, Shaped(s), NoNaN(s)
    PROVE  OnWire(s) = s
<1> DEFINE w == OnWire(s)
<1>1. /\ DOMAIN w = DOMAIN s /\ w = [key \in DOMAIN w |-> w[key]]
      /\ \A key \in DOMAIN s \cap Numeric : w[key] = Wire(s[key])
      /\ \A key \in DOMAIN s \ (Numeric \cup {"peakHours"}) : w[key] = s[key]
      /\ "peakHours" \in DOMAIN s => w.peakHours = [i \in DOMAIN s.peakHours |-> Wire(s.peakHours[i])]
  BY OnWireFields
<1>2. s = [key \in DOMAIN s |-> s[key]] /\ ("peakHours" \in DOMAIN s => s.peakHours = [i \in DOMAIN s.peakHours |-> s.peakHours[i]])
  BY DEF Shaped, SettingOr
<1>3. \A key \in DOMAIN s \cap Numeric : Wire(s[key]) = s[key]
  BY DEF Wire, NoNaN
<1>4. "peakHours" \in DOMAIN s => \A i \in DOMAIN s.peakHours : Wire(s.peakHours[i]) = s.peakHours[i]
  BY DEF Wire, NoNaN
<1> SUFFICES w = s
  OBVIOUS
<1> HIDE DEF w
<1>5. \A key \in DOMAIN s : w[key] = s[key]
  BY <1>1, <1>2, <1>3, <1>4
<1> QED
  BY <1>1, <1>2, <1>5, Zenon

LEMMA CheckedIsKept ==
    ASSUME NEW s, Shaped(s), specErrors(s) = {}
    PROVE  OnWire(s) = s
BY CheckedHasNumbers, NumbersAreKept

-----------------------------------------------------------------------------
(* What a draft without errors is.                                         *)

Drafted(d) == /\ {"name", "fields"} \subseteq DOMAIN d
              /\ d.name \notin {Undefined, Null}
              /\ FieldList(d.fields)

LEMMA ValidParts ==
    ASSUME NEW d, validate(d) = {}
    PROVE  /\ d.name # "" /\ d.fields # <<>> /\ Unique(d.fields)
           /\ isSql(d) => sqlErrors(d) = {}
           /\ ~isSql(d) => d.transport.topic # <<>>
           /\ \A i \in DOMAIN d.fields : specErrors(d.fields[i].spec) = {}
           /\ ~fills(d) => ~intervalError(d.intervalSeconds)
<1> DEFINE settings == UNION {specErrors(d.fields[i].spec) : i \in DOMAIN d.fields}
           way == IF isSql(d) THEN sqlErrors(d)
                  ELSE When(d.transport.url = "", "url") \cup When(d.transport.topic = <<>>, "topic")
<1>1. /\ When(d.name = "", "name") = {} /\ way = {} /\ When(d.fields = <<>>, "fields") = {}
      /\ When(Cardinality(Names(d.fields)) # Len(d.fields), "unique") = {}
      /\ settings = {}
      /\ When(~fills(d) /\ intervalError(d.intervalSeconds), "interval") = {}
  <2> HIDE DEF settings, way
  <2>1. validate(d) = UNION {When(d.name = "", "name"), way, When(d.fields = <<>>, "fields"),
                             When("" \in Names(d.fields), "field name"),
                             When(Cardinality(Names(d.fields)) # Len(d.fields), "unique"),
                             settings,
                             When(~fills(d) /\ intervalError(d.intervalSeconds), "interval")}
    BY DEF validate, settings, way
  <2> QED
    BY <2>1
<1>2. d.name # "" /\ d.fields # <<>> /\ Unique(d.fields) /\ (~fills(d) => ~intervalError(d.intervalSeconds))
  BY <1>1 DEF When, Unique
<1>3. \A i \in DOMAIN d.fields : specErrors(d.fields[i].spec) = {}
  <2> HIDE DEF way
  <2> QED
    BY <1>1
<1>4. /\ isSql(d) => sqlErrors(d) = {}
      /\ ~isSql(d) => d.transport.topic # <<>>
  BY <1>1 DEF When
<1> QED
  BY <1>2, <1>3, <1>4

SeedsBroken(d)   == rowsError(d.seedRows, 0, 10000)
InsertsBroken(d) == rowsError(d.insertsPerTick, 0, 100)

LEMMA NoneOfSix ==
    ASSUME NEW a, NEW b, NEW c, NEW d, NEW e, NEW f, UNION {a, b, c, d, e, f} = {}
    PROVE  a = {} /\ b = {} /\ c = {} /\ d = {} /\ e = {} /\ f = {}
OBVIOUS

LEMMA TableErrors ==
    ASSUME NEW d
    PROVE  sqlErrors(d) =
             UNION {When(d.transport.table = "", "table"),
                            When(d.primaryKey \in {Undefined, ""}, "primaryKey"),
                            When(maxRowsError(d.maxRows), "maxRows"),
                            When(~fills(d) /\ SeedsBroken(d), "seedRows"),
                            When(~fills(d) /\ InsertsBroken(d), "insertsPerTick"),
                            When(Names(d.fields) \cap Dotted # {}, "dotted")}
BY DEF sqlErrors, SeedsBroken, InsertsBroken

LEMMA ValidTable ==
    ASSUME NEW d, sqlErrors(d) = {}
    PROVE  /\ d.transport.table # "" /\ d.primaryKey \notin {Undefined, ""} /\ ~maxRowsError(d.maxRows)
           /\ (~fills(d) => ~SeedsBroken(d)) /\ (~fills(d) => ~InsertsBroken(d))
           /\ Names(d.fields) \cap Dotted = {}
<1>1. d.transport.table # ""
  <2>1. When(d.transport.table = "", "table") = {}
    BY TableErrors, NoneOfSix, Zenon
  <2> QED
    BY <2>1, Zenon DEF When
<1>2. d.primaryKey \notin {Undefined, ""}
  <2>1. When(d.primaryKey \in {Undefined, ""}, "primaryKey") = {}
    BY TableErrors, NoneOfSix, Zenon
  <2> QED
    BY <2>1, Zenon DEF When
<1>3. ~maxRowsError(d.maxRows)
  <2>1. When(maxRowsError(d.maxRows), "maxRows") = {}
    BY TableErrors, NoneOfSix, Zenon
  <2> QED
    BY <2>1, Zenon DEF When
<1>4. ~fills(d) => ~SeedsBroken(d)
  <2>1. When(~fills(d) /\ SeedsBroken(d), "seedRows") = {}
    BY TableErrors, NoneOfSix, Zenon
  <2> QED
    BY <2>1, Zenon DEF When
<1>5. ~fills(d) => ~InsertsBroken(d)
  <2>1. When(~fills(d) /\ InsertsBroken(d), "insertsPerTick") = {}
    BY TableErrors, NoneOfSix, Zenon
  <2> QED
    BY <2>1, Zenon DEF When
<1>6. Names(d.fields) \cap Dotted = {}
  <2>1. When(Names(d.fields) \cap Dotted # {}, "dotted") = {}
    BY TableErrors, NoneOfSix, Zenon
  <2> QED
    BY <2>1, Zenon DEF When
<1> QED
  BY <1>1, <1>2, <1>3, <1>4, <1>5, <1>6, Zenon

-----------------------------------------------------------------------------
(* What is sent of a draft.                                                *)

Columns(fields) == [n \in Names(fields) |-> columnTypeFor(LastNamed(fields, n).spec)]
SentFields(d)   == [i \in DOMAIN Merged(d.fields) |->
                      Field(Merged(d.fields)[i].name, OnWire(Merged(d.fields)[i].spec))]
SentInterval(d) == IF fills(d) /\ ~isNumber(d.intervalSeconds) THEN 10 * One ELSE Wire(d.intervalSeconds)

SentName(d)     == IF d.name = "" THEN Undefined ELSE d.name
SentTable(d)    == IF isSql(d) THEN {[primaryKey |-> d.primaryKey, columns |-> Columns(d.fields)]} ELSE {}
SentSeeds(d)    == IF isSql(d) THEN Wire(Or(d.seedRows, 0)) ELSE Undefined
SentInserts(d)  == IF isSql(d) THEN Wire(Or(d.insertsPerTick, One)) ELSE Undefined
SentLimit(d)    == IF isSql(d) THEN Wire(d.maxRows) ELSE Undefined
SentCadence(d)  == IF fills(d) THEN "fillToLimit" ELSE Undefined

LEMMA Sent ==
    ASSUME NEW d
    PROVE  toInput(d) =
             [name |-> SentName(d), origin |-> d.origin, enabled |-> d.enabled,
              transport |-> d.transport, intervalSeconds |-> SentInterval(d),
              fields |-> SentFields(d), table |-> SentTable(d),
              seedRows |-> SentSeeds(d), insertsPerTick |-> SentInserts(d), maxRows |-> SentLimit(d),
              cadence |-> SentCadence(d), extras |-> {}]
BY DEF toInput, SentName, SentInterval, SentFields, SentTable, SentSeeds, SentInserts, SentLimit,
       SentCadence, Columns

LEMMA SentIsValid ==
    ASSUME NEW d, Drafted(d), validate(d) = {}
    PROVE  SentFields(d) = d.fields
<1>1. Unique(d.fields) /\ \A i \in DOMAIN d.fields : specErrors(d.fields[i].spec) = {}
  BY ValidParts
<1>2. /\ Merged(d.fields) = d.fields
      /\ d.fields = [i \in DOMAIN d.fields |-> d.fields[i]]
      /\ \A i \in DOMAIN d.fields : IsField(d.fields[i])
  BY <1>1, UniqueIsSent, ListOf DEF Drafted
<1>3. \A i \in DOMAIN d.fields : Field(d.fields[i].name, OnWire(d.fields[i].spec)) = d.fields[i]
  BY <1>1, <1>2, CheckedIsKept DEF IsField
<1>4. SentFields(d) = [i \in DOMAIN d.fields |-> Field(d.fields[i].name, OnWire(d.fields[i].spec))]
  BY <1>2 DEF SentFields
<1> QED
  BY <1>2, <1>3, <1>4

LEMMA RowsChecked ==
    ASSUME NEW v, NEW from \in Int, NEW to \in Int, ~rowsError(v, from, to)
    PROVE  v = Undefined \/ wholeIn(v, from, to)
BY DEF rowsError

LEMMA LimitChecked ==
    ASSUME NEW v, ~maxRowsError(v)
    PROVE  wholeIn(v, 1, 100000) /\ v \in Int /\ v # Undefined /\ Wire(v) = v
<1>1. v \notin {Undefined, NaN} /\ ~rowsError(v, 1, 100000)
  BY DEF maxRowsError
<1>2. wholeIn(v, 1, 100000)
  BY <1>1 DEF rowsError
<1>3. v \in Int
  BY <1>2 DEF wholeIn, isNumber
<1> QED
  BY <1>1, <1>2, <1>3 DEF Wire

LEMMA IntervalChecked ==
    ASSUME NEW v, ~intervalError(v)
    PROVE  isNumber(v) /\ v >= One /\ v <= 3600 * One
BY DEF intervalError, isNumber, One

LEMMA HiddenIs ==
    ASSUME NEW d
    PROVE  HiddenBroken(d) <=>
             /\ fills(d)
             /\ \/ SeedsBroken(d) \/ InsertsBroken(d)
                \/ isNumber(d.intervalSeconds) /\ intervalError(d.intervalSeconds)
BY DEF HiddenBroken, SeedsBroken, InsertsBroken

\* What a draft without errors, hidden ones included, sends for its numbers.
LEMMA SoundInterval ==
    ASSUME NEW d, validate(d) = {}, ~HiddenBroken(d)
    PROVE  /\ SentInterval(d) \in Int /\ SentInterval(d) >= One /\ SentInterval(d) <= 3600 * One
           /\ SentInterval(d) = IF isNumber(d.intervalSeconds) THEN d.intervalSeconds ELSE 10 * One
           /\ ~isNumber(d.intervalSeconds) => fills(d)
<1> DEFINE v == d.intervalSeconds
<1>1. fills(d) /\ isNumber(v) => ~intervalError(v)
  BY HiddenIs, Zenon
<1>2. ~fills(d) => ~intervalError(v)
  BY ValidParts, Zenon
<1>3. CASE fills(d) /\ ~isNumber(v)
  <2>1. SentInterval(d) = 10 * One
    BY <1>3 DEF SentInterval
  <2> QED
    BY <1>3, <2>1 DEF One
<1>4. CASE ~(fills(d) /\ ~isNumber(v))
  <2>1. ~intervalError(v)
    BY <1>1, <1>2, <1>4, Zenon
  <2>2. isNumber(v) /\ v >= One /\ v <= 3600 * One
    BY <2>1, IntervalChecked
  <2>3. SentInterval(d) = v
    BY <1>4, <2>2, NumbersPass DEF SentInterval
  <2> HIDE DEF v
  <2> QED
    BY <2>2, <2>3 DEF isNumber, v
<1> QED
  BY <1>3, <1>4

LEMMA SoundRows ==
    ASSUME NEW d, validate(d) = {}, ~HiddenBroken(d), isSql(d)
    PROVE  /\ d.seedRows = Undefined \/ wholeIn(d.seedRows, 0, 10000)
           /\ d.insertsPerTick = Undefined \/ wholeIn(d.insertsPerTick, 0, 100)
<1>1. fills(d) => ~SeedsBroken(d) /\ ~InsertsBroken(d)
  BY DEF HiddenBroken, SeedsBroken, InsertsBroken
<1>2. sqlErrors(d) = {}
  BY ValidParts, Zenon
<1>3. ~fills(d) => ~SeedsBroken(d) /\ ~InsertsBroken(d)
  BY <1>2, ValidTable, Zenon
<1>4. ~SeedsBroken(d) /\ ~InsertsBroken(d)
  BY <1>1, <1>3, Zenon
<1> QED
  BY <1>4, RowsChecked DEF SeedsBroken, InsertsBroken

\* A number of rows that was left out is filled in.
LEMMA RowsSent ==
    ASSUME NEW v, NEW default \in Int, v = Undefined \/ v \in Int
    PROVE  /\ Wire(Or(v, default)) \in Int
           /\ Wire(Or(v, default)) = IF v = Undefined THEN default ELSE v
BY NoValues DEF Wire, Or

LEMMA WholeIsInt ==
    ASSUME NEW v, NEW from, NEW to, wholeIn(v, from, to)
    PROVE  v \in Int /\ v # Undefined
BY NoValues DEF wholeIn, isNumber

-----------------------------------------------------------------------------
(* The service takes what is valid.                                        *)

LEMMA NamesIn ==
    ASSUME NEW f, FieldList(f), f # <<>>
    PROVE  Names(f) # {} /\ DOMAIN Columns(f) = Names(f)
<1>1. Len(f) \in Nat /\ DOMAIN f = 1 .. Len(f) /\ f = [i \in 1 .. Len(f) |-> f[i]]
  BY ListOf
<1>2. Len(f) # 0
  BY <1>1
<1>3. 1 \in DOMAIN f
  BY <1>1, <1>2
<1> QED
  BY <1>3 DEF Names, Columns

IntervalTaken(b) == sentOr(b.intervalSeconds, /\ isNumber(b.intervalSeconds)
                                              /\ b.intervalSeconds > 0
                                              /\ b.intervalSeconds <= 3600 * One)
SeedsTaken(b)    == sentOr(b.seedRows, wholeIn(b.seedRows, 0, 10000))
InsertsTaken(b)  == sentOr(b.insertsPerTick, wholeIn(b.insertsPerTick, 0, 100))
LimitTaken(b)    == sentOr(b.maxRows, wholeIn(b.maxRows, 1, 100000))

LEMMA ScenarioIs ==
    ASSUME NEW b
    PROVE  scenarioSchema(b) <=>
             /\ IntervalTaken(b)
             /\ \A i \in DOMAIN b.fields : generatorSpecSchema(b.fields[i].spec)
             /\ \A table \in b.table : table.primaryKey # ""
             /\ SeedsTaken(b) /\ InsertsTaken(b) /\ LimitTaken(b)
BY DEF scenarioSchema, IntervalTaken, SeedsTaken, InsertsTaken, LimitTaken

\* What the service says of a null where the check takes the default.
LEMMA NullIsRefused ==
    ASSUME NEW s, NullPassesForDefault(s)
    PROVE  ~generatorSpecSchema(s)
<1>1. Null # Undefined /\ Null \notin Int
  BY NoValues
<1>2. CASE s.kind = "sequence" /\ s.start = Null
  BY <1>1, <1>2 DEF generatorSpecSchema, isNumber
<1>3. CASE s.kind = "sequence" /\ s.padTo = Null
  BY <1>1, <1>3 DEF generatorSpecSchema, wholeIn, isNumber
<1>4. CASE s.kind = "jitter" /\ s.precision = Null
  BY <1>1, <1>4 DEF generatorSpecSchema, wholeIn, isNumber
<1> QED
  BY <1>2, <1>3, <1>4 DEF NullPassesForDefault

SpecsTaken(f) == \A i \in DOMAIN f : generatorSpecSchema(f[i].spec)
NullSlips(d)  == \E i \in DOMAIN d.fields : NullPassesForDefault(d.fields[i].spec)

LEMMA SpecsIff ==
    ASSUME NEW d, Drafted(d), validate(d) = {}
    PROVE  SpecsTaken(d.fields) <=> ~NullSlips(d)
<1>1. ASSUME NEW i \in DOMAIN d.fields
      PROVE  generatorSpecSchema(d.fields[i].spec) <=> ~NullPassesForDefault(d.fields[i].spec)
  <2> DEFINE s == d.fields[i].spec
  <2>1. Shaped(s) /\ specErrors(s) = {}
    BY ListOf, ValidParts DEF Drafted, IsField
  <2> HIDE DEF s
  <2>2. OnWire(s) = s
    BY <2>1, CheckedIsKept
  <2>3. generatorSpecSchema(s) <=> ~NullPassesForDefault(s)
    BY <2>1, <2>2, CheckedIsTaken, NullIsRefused
  <2> QED
    BY <2>3 DEF s
<1> QED
  BY <1>1 DEF SpecsTaken, NullSlips

\* Numbers that a fill hides.
IntervalSlips(d) == fills(d) /\ isNumber(d.intervalSeconds) /\ d.intervalSeconds \notin 1 .. 3600 * One
SeedsSlip(d)     == fills(d) /\ ~wholeIn(Or(d.seedRows, 0), 0, 10000)
InsertsSlip(d)   == fills(d) /\ ~wholeIn(Or(d.insertsPerTick, One), 0, 100)

\* What the schema takes for an interval that may be left out.
IntervalFits(v) == sentOr(v, isNumber(v) /\ v > 0 /\ v <= 3600 * One)

LEMMA IntervalIff ==
    ASSUME NEW d, validate(d) = {}
    PROVE  IntervalFits(SentInterval(d)) <=> ~IntervalSlips(d)
<1> DEFINE v == d.intervalSeconds
<1>1. CASE fills(d) /\ ~isNumber(v)
  <2>1. SentInterval(d) = 10 * One
    BY <1>1 DEF SentInterval
  <2>2. ~IntervalSlips(d)
    BY <1>1 DEF IntervalSlips
  <2> HIDE DEF v
  <2> QED
    BY <2>1, <2>2 DEF IntervalFits, sentOr, isNumber, One
<1>2. CASE fills(d) /\ isNumber(v)
  <2>1. SentInterval(d) = v
    BY <1>2, NumbersPass DEF SentInterval
  <2>2. IntervalSlips(d) <=> v \notin 1 .. 3600 * One
    BY <1>2 DEF IntervalSlips
  <2>3. v \in Int /\ v # Undefined
    BY <1>2, NoValues DEF isNumber
  <2> HIDE DEF v
  <2> QED
    BY <2>1, <2>2, <2>3 DEF IntervalFits, sentOr, isNumber, One
<1>3. CASE ~fills(d)
  <2>1. ~intervalError(v)
    BY <1>3, ValidParts, Zenon
  <2>2. isNumber(v) /\ v >= One /\ v <= 3600 * One
    BY <2>1, IntervalChecked
  <2>3. SentInterval(d) = v
    BY <1>3, <2>2, NumbersPass DEF SentInterval
  <2>4. ~IntervalSlips(d)
    BY <1>3 DEF IntervalSlips
  <2> HIDE DEF v
  <2> QED
    BY <2>2, <2>3, <2>4 DEF IntervalFits, sentOr, isNumber, One
<1> QED
  BY <1>1, <1>2, <1>3

LEMMA WholeSent ==
    ASSUME NEW v, v # Undefined, NEW from, NEW to
    PROVE  sentOr(Wire(v), wholeIn(Wire(v), from, to)) <=> wholeIn(v, from, to)
<1>1. Wire(v) # Undefined
  BY NoValues DEF Wire
<1>2. CASE v = NaN
  BY <1>1, <1>2, NoValues DEF Wire, sentOr, wholeIn, isNumber
<1>3. CASE v # NaN
  BY <1>1, <1>3 DEF Wire, sentOr
<1> QED
  BY <1>2, <1>3

LEMMA RowsIff ==
    ASSUME NEW v, NEW default \in Int, NEW to \in Int, wholeIn(default, 0, to),
           NEW hidden \in BOOLEAN, ~hidden => ~rowsError(v, 0, to)
    PROVE  sentOr(Wire(Or(v, default)), wholeIn(Wire(Or(v, default)), 0, to))
             <=> ~(hidden /\ ~wholeIn(Or(v, default), 0, to))
<1>1. Or(v, default) # Undefined
  BY NoValues DEF Or
<1>2. sentOr(Wire(Or(v, default)), wholeIn(Wire(Or(v, default)), 0, to)) <=> wholeIn(Or(v, default), 0, to)
  BY <1>1, WholeSent, Zenon
<1>3. ~hidden => wholeIn(Or(v, default), 0, to)
  <2> HAVE ~hidden
  <2>1. v = Undefined \/ wholeIn(v, 0, to)
    BY RowsChecked
  <2>2. CASE v = Undefined
    BY <2>2 DEF Or
  <2>3. CASE wholeIn(v, 0, to)
    <3>1. v \notin {Undefined, Null}
      BY <2>3, NoValues DEF wholeIn, isNumber
    <3>2. Or(v, default) = v
      BY <3>1 DEF Or
    <3> QED
      BY <2>3, <3>2
  <2> QED
    BY <2>1, <2>2, <2>3
<1> QED
  BY <1>2, <1>3

KeySlips(d) == isSql(d) /\ d.primaryKey \notin Names(d.fields)
UrlSlips(d) == ~isSql(d) /\ d.transport.url \notin GoodUrls
TextSlips(d) == d.name \in TooLong \/ (d.origin # Undefined /\ ~originSchema(d.origin))

LEMMA SlipsAre ==
    ASSUME NEW d
    PROVE  SlipsThrough(d) <=> \/ TextSlips(d) \/ UrlSlips(d) \/ KeySlips(d) \/ NullSlips(d)
                               \/ SeedsSlip(d) \/ InsertsSlip(d) \/ IntervalSlips(d)
BY DEF SlipsThrough, TextSlips, UrlSlips, KeySlips, NullSlips, SeedsSlip, InsertsSlip, IntervalSlips

\* The schema, put together from its parts.
TextsTaken(b) == b.name \notin TooLong /\ sentOr(b.origin, originSchema(b.origin))

LEMMA SchemaIs ==
    ASSUME NEW b
    PROVE  simulationInputSchema(b) <=>
             TextsTaken(b) /\ transportSchema(b.transport) /\ scenarioSchema(b) /\ refined(b)
BY DEF simulationInputSchema, TextsTaken

\* Of what is valid, exactly what slips through is refused.
LEMMA ValidIsTaken ==
    ASSUME NEW d, Drafted(d), validate(d) = {}
    PROVE  simulationInputSchema(toInput(d)) <=> ~SlipsThrough(d)
<1> DEFINE b == toInput(d)
<1>0. /\ b.name = SentName(d) /\ b.origin = d.origin
      /\ b.transport = d.transport /\ b.intervalSeconds = SentInterval(d) /\ b.fields = d.fields
      /\ b.table = SentTable(d) /\ b.seedRows = SentSeeds(d) /\ b.insertsPerTick = SentInserts(d)
      /\ b.maxRows = SentLimit(d) /\ b.cadence = SentCadence(d)
  BY Sent, SentIsValid
<1>10. /\ isSql(d) => /\ b.table = {[primaryKey |-> d.primaryKey, columns |-> Columns(d.fields)]}
                       /\ b.seedRows = Wire(Or(d.seedRows, 0))
                       /\ b.insertsPerTick = Wire(Or(d.insertsPerTick, One))
                       /\ b.maxRows = Wire(d.maxRows)
       /\ ~isSql(d) => /\ b.table = {} /\ b.cadence = Undefined
                       /\ b.seedRows = Undefined /\ b.insertsPerTick = Undefined /\ b.maxRows = Undefined
  <2> HIDE DEF b
  <2> QED
    BY <1>0 DEF fills, SentTable, SentSeeds, SentInserts, SentLimit, SentCadence
<1> SUFFICES simulationInputSchema(b) <=> ~SlipsThrough(d)
  OBVIOUS
<1> HIDE DEF b
<1>1. /\ d.name # "" /\ d.fields # <<>>
      /\ isSql(d) => sqlErrors(d) = {}
      /\ ~isSql(d) => d.transport.topic # <<>>
  BY ValidParts, Zenon
<1>2. isSql(d) => /\ d.transport.table # "" /\ d.primaryKey \notin {Undefined, ""}
                  /\ ~maxRowsError(d.maxRows) /\ Names(d.fields) \cap Dotted = {}
                  /\ (~fills(d) => ~SeedsBroken(d)) /\ (~fills(d) => ~InsertsBroken(d))
  BY <1>1, ValidTable, Zenon
<1>3. transportSchema(b.transport) <=> ~UrlSlips(d)
  BY <1>0, <1>1, <1>2 DEF transportSchema, isSql, UrlSlips
<1>4. SpecsTaken(b.fields) <=> ~NullSlips(d)
  BY <1>0, SpecsIff
<1>5. IntervalTaken(b) <=> ~IntervalSlips(d)
  <2>1. IntervalFits(SentInterval(d)) <=> ~IntervalSlips(d)
    BY IntervalIff, Zenon
  <2>2. IntervalTaken(b) <=> IntervalFits(b.intervalSeconds)
    BY DEF IntervalTaken, IntervalFits, sentOr
  <2>3. b.intervalSeconds = SentInterval(d)
    BY <1>0, Zenon
  <2> QED
    BY <2>1, <2>2, <2>3, Zenon
<1>6. LimitTaken(b) /\ (SeedsTaken(b) <=> ~SeedsSlip(d)) /\ (InsertsTaken(b) <=> ~InsertsSlip(d))
  <2>1. CASE ~isSql(d)
    <3>1. ~fills(d)
      BY <2>1 DEF fills
    <3> QED
      BY <1>10, <2>1, <3>1 DEF SeedsTaken, InsertsTaken, LimitTaken, sentOr, SeedsSlip, InsertsSlip
  <2>2. CASE isSql(d)
    <3>1. LimitTaken(b)
      <4>1. ~maxRowsError(d.maxRows) /\ b.maxRows = Wire(d.maxRows)
        BY <1>10, <1>2, <2>2
      <4> QED
        BY <4>1, LimitChecked DEF LimitTaken, sentOr
    <3>2. wholeIn(0, 0, 10000) /\ wholeIn(One, 0, 100) /\ One \in Int /\ fills(d) \in BOOLEAN
      BY DEF wholeIn, isNumber, Whole, One, fills
    <3>3. SeedsTaken(b) <=> ~SeedsSlip(d)
      <4>0. ~fills(d) => ~SeedsBroken(d)
        BY <1>2, <2>2
      <4>1. ~fills(d) => ~rowsError(d.seedRows, 0, 10000)
        BY <4>0 DEF SeedsBroken
      <4>2. b.seedRows = Wire(Or(d.seedRows, 0))
        BY <1>10, <2>2
      <4> QED
        BY <3>2, <4>1, <4>2, RowsIff DEF SeedsTaken, SeedsSlip
    <3>4. InsertsTaken(b) <=> ~InsertsSlip(d)
      <4>0. ~fills(d) => ~InsertsBroken(d)
        BY <1>2, <2>2
      <4>1. ~fills(d) => ~rowsError(d.insertsPerTick, 0, 100)
        BY <4>0 DEF InsertsBroken
      <4>2. b.insertsPerTick = Wire(Or(d.insertsPerTick, One))
        BY <1>10, <2>2
      <4> QED
        BY <3>2, <4>1, <4>2, RowsIff DEF InsertsTaken, InsertsSlip
    <3> QED
      BY <3>1, <3>3, <3>4
  <2> QED
    BY <2>1, <2>2
<1>7. \A table \in b.table : table.primaryKey # ""
  <2>1. CASE ~isSql(d)
    BY <1>10, <2>1
  <2>2. CASE isSql(d)
    <3>1. b.table = {[primaryKey |-> d.primaryKey, columns |-> Columns(d.fields)]}
      BY <1>10, <2>2, Zenon
    <3>2. d.primaryKey # ""
      BY <1>2, <2>2, Zenon
    <3>3. \A table \in b.table : table.primaryKey = d.primaryKey
      BY <3>1
    <3> QED
      BY <3>2, <3>3, Zenon
  <2> QED
    BY <2>1, <2>2
<1>8. scenarioSchema(b) <=> ~(IntervalSlips(d) \/ NullSlips(d) \/ SeedsSlip(d) \/ InsertsSlip(d))
  BY <1>4, <1>5, <1>6, <1>7, ScenarioIs, Zenon DEF SpecsTaken
<1>9. refined(b) <=> ~KeySlips(d)
  <2>1. CASE ~isSql(d)
    <3>1. Undefined # "fillToLimit"
      BY NoTexts
    <3> QED
      BY <1>0, <1>10, <2>1, <3>1 DEF refined, isSql, KeySlips
  <2>2. CASE isSql(d)
    <3> DEFINE row == [primaryKey |-> d.primaryKey, columns |-> Columns(d.fields)]
    <3>1. DOMAIN Columns(d.fields) = Names(d.fields) /\ Names(d.fields) # {}
      BY <1>1, NamesIn DEF Drafted
    <3>2. b.table = {row} /\ row.columns = Columns(d.fields) /\ row.primaryKey = d.primaryKey
      BY <1>10, <2>2
    <3> HIDE DEF row
    <3>3. resolves(row) <=> ~KeySlips(d)
      BY <2>2, <3>1, <3>2 DEF resolves, KeySlips
    <3>4. b.maxRows # Undefined
      <4>1. ~maxRowsError(d.maxRows) /\ b.maxRows = Wire(d.maxRows)
        BY <1>10, <1>2, <2>2
      <4> QED
        BY <4>1, LimitChecked
    <3>5. b.table # {} /\ Names(b.fields) \cap Dotted = {} /\ b.transport.kind = "sql"
      BY <1>0, <1>2, <2>2, <3>2 DEF isSql
    <3>6. refined(b) <=> /\ resolves(row)
                         /\ Names(b.fields) \subseteq DOMAIN row.columns
                         /\ DOMAIN row.columns \ Names(b.fields) \subseteq {SIMULATED_COLUMN}
      BY <3>2, <3>4, <3>5 DEF refined
    <3> QED
      BY <1>0, <3>1, <3>2, <3>3, <3>6
  <2> QED
    BY <2>1, <2>2
<1>11. TextsTaken(b) <=> ~TextSlips(d)
  <2>1. SentName(d) = d.name
    BY <1>1 DEF SentName
  <2> QED
    BY <1>0, <2>1 DEF TextsTaken, TextSlips, sentOr
<1> QED
  BY <1>3, <1>8, <1>9, <1>11, SchemaIs, SlipsAre, Zenon

-----------------------------------------------------------------------------
(* The check, put together from its parts.                                 *)

NameMissing(d)  == d.name = ""
UrlMissing(d)   == d.transport.url = ""
TableMissing(d) == d.transport.table = ""
KeyMissing(d)   == d.primaryKey \in {Undefined, ""}
FieldUnnamed(d) == "" \in Names(d.fields)
SpecsBroken(d)  == UNION {specErrors(d.fields[i].spec) : i \in DOMAIN d.fields}
WayBroken(d)    == IF isSql(d) THEN sqlErrors(d)
                   ELSE When(UrlMissing(d), "url") \cup When(d.transport.topic = <<>>, "topic")
IntervalOff(d)  == intervalError(d.intervalSeconds)
LimitOff(d)     == maxRowsError(d.maxRows)
HasDots(d)      == Names(d.fields) \cap Dotted # {}

LEMMA ValidateIs ==
    ASSUME NEW d
    PROVE  validate(d) =
             UNION {When(NameMissing(d), "name"), WayBroken(d), When(d.fields = <<>>, "fields"),
                    When(FieldUnnamed(d), "field name"), When(~Unique(d.fields), "unique"),
                    SpecsBroken(d), When(~fills(d) /\ IntervalOff(d), "interval")}
BY DEF validate, NameMissing, WayBroken, UrlMissing, FieldUnnamed, Unique, SpecsBroken, IntervalOff

LEMMA TableErrorsAre ==
    ASSUME NEW d
    PROVE  sqlErrors(d) =
             UNION {When(TableMissing(d), "table"), When(KeyMissing(d), "primaryKey"),
                    When(LimitOff(d), "maxRows"),
                    When(~fills(d) /\ SeedsBroken(d), "seedRows"),
                    When(~fills(d) /\ InsertsBroken(d), "insertsPerTick"),
                    When(HasDots(d), "dotted")}
BY DEF sqlErrors, SeedsBroken, InsertsBroken, TableMissing, KeyMissing, LimitOff, HasDots

LEMMA ValidIff ==
    ASSUME NEW d
    PROVE  validate(d) = {} <=>
             /\ ~NameMissing(d) /\ WayBroken(d) = {} /\ d.fields # <<>> /\ ~FieldUnnamed(d)
             /\ Unique(d.fields) /\ SpecsBroken(d) = {} /\ (fills(d) \/ ~IntervalOff(d))
<1>1. validate(d) = {} <=>
        /\ When(NameMissing(d), "name") = {} /\ WayBroken(d) = {} /\ When(d.fields = <<>>, "fields") = {}
        /\ When(FieldUnnamed(d), "field name") = {} /\ When(~Unique(d.fields), "unique") = {}
        /\ SpecsBroken(d) = {} /\ When(~fills(d) /\ IntervalOff(d), "interval") = {}
  <2> DEFINE w1 == When(NameMissing(d), "name")
             w2 == When(d.fields = <<>>, "fields")
             w3 == When(FieldUnnamed(d), "field name")
             w4 == When(~Unique(d.fields), "unique")
             w5 == When(~fills(d) /\ IntervalOff(d), "interval")
  <2>1. validate(d) = UNION {w1, WayBroken(d), w2, w3, w4, SpecsBroken(d), w5}
    BY ValidateIs
  <2> HIDE DEF w1, w2, w3, w4, w5
  <2>2. validate(d) = {} <=> w1 = {} /\ WayBroken(d) = {} /\ w2 = {} /\ w3 = {} /\ w4 = {}
                             /\ SpecsBroken(d) = {} /\ w5 = {}
    BY <2>1
  <2> QED
    BY <2>2, Zenon DEF w1, w2, w3, w4, w5
<1>2. When(NameMissing(d), "name") = {} <=> ~NameMissing(d)
  BY DEF When
<1>3. When(d.fields = <<>>, "fields") = {} <=> d.fields # <<>>
  BY DEF When
<1>4. When(FieldUnnamed(d), "field name") = {} <=> ~FieldUnnamed(d)
  BY DEF When
<1>5. When(~Unique(d.fields), "unique") = {} <=> Unique(d.fields)
  BY DEF When
<1>6. When(~fills(d) /\ IntervalOff(d), "interval") = {} <=> (fills(d) \/ ~IntervalOff(d))
  BY DEF When
<1> QED
  BY <1>1, <1>2, <1>3, <1>4, <1>5, <1>6, Zenon

LEMMA TableValidIff ==
    ASSUME NEW d
    PROVE  sqlErrors(d) = {} <=>
             /\ ~TableMissing(d) /\ ~KeyMissing(d) /\ ~LimitOff(d)
             /\ fills(d) \/ ~SeedsBroken(d)
             /\ fills(d) \/ ~InsertsBroken(d)
             /\ ~HasDots(d)
<1>1. sqlErrors(d) = {} <=>
        /\ When(TableMissing(d), "table") = {} /\ When(KeyMissing(d), "primaryKey") = {}
        /\ When(LimitOff(d), "maxRows") = {}
        /\ When(~fills(d) /\ SeedsBroken(d), "seedRows") = {}
        /\ When(~fills(d) /\ InsertsBroken(d), "insertsPerTick") = {}
        /\ When(HasDots(d), "dotted") = {}
  <2> DEFINE w1 == When(TableMissing(d), "table")
             w2 == When(KeyMissing(d), "primaryKey")
             w3 == When(LimitOff(d), "maxRows")
             w4 == When(~fills(d) /\ SeedsBroken(d), "seedRows")
             w5 == When(~fills(d) /\ InsertsBroken(d), "insertsPerTick")
             w6 == When(HasDots(d), "dotted")
  <2>1. sqlErrors(d) = UNION {w1, w2, w3, w4, w5, w6}
    BY TableErrorsAre
  <2> HIDE DEF w1, w2, w3, w4, w5, w6
  <2>2. sqlErrors(d) = {} <=> w1 = {} /\ w2 = {} /\ w3 = {} /\ w4 = {} /\ w5 = {} /\ w6 = {}
    BY <2>1
  <2> QED
    BY <2>2, Zenon DEF w1, w2, w3, w4, w5, w6
<1>2. When(TableMissing(d), "table") = {} <=> ~TableMissing(d)
  BY DEF When
<1>3. When(KeyMissing(d), "primaryKey") = {} <=> ~KeyMissing(d)
  BY DEF When
<1>4. When(LimitOff(d), "maxRows") = {} <=> ~LimitOff(d)
  BY DEF When
<1>5. When(~fills(d) /\ SeedsBroken(d), "seedRows") = {} <=> (fills(d) \/ ~SeedsBroken(d))
  BY DEF When
<1>6. When(~fills(d) /\ InsertsBroken(d), "insertsPerTick") = {} <=> (fills(d) \/ ~InsertsBroken(d))
  BY DEF When
<1>7. When(HasDots(d), "dotted") = {} <=> ~HasDots(d)
  BY DEF When
<1> QED
  BY <1>1, <1>2, <1>3, <1>4, <1>5, <1>6, <1>7, Zenon

-----------------------------------------------------------------------------
(* What the JSON view shows reads back as what the form holds.             *)

\* The text of the draft, read back.
Reread(d) == fromJson(toInput(d))

NameRead(b) == Or(b.name, "")

LEMMA KeyOfOne ==
    ASSUME NEW k, NEW columns
    PROVE  keyIn({[primaryKey |-> k, columns |-> columns]}) = k
<1> DEFINE row == [primaryKey |-> k, columns |-> columns]
<1>1. row.primaryKey = k
  OBVIOUS
<1> HIDE DEF row
<1>2. {row} # {} /\ (CHOOSE t \in {row} : TRUE) = row
  OBVIOUS
<1>3. keyIn({row}) = row.primaryKey
  BY <1>2 DEF keyIn
<1> QED
  BY <1>1, <1>3 DEF row

LEMMA ParsedWay ==
    ASSUME NEW way
    PROVE  /\ parsedTransport(way).kind = "sql" <=> way.kind = "sql"
           /\ way.kind = "sql" => parsedTransport(way) = Sql(way.table) /\ Sql(way.table).table = way.table
           /\ way.kind # "sql" => parsedTransport(way) = way
BY DEF parsedTransport, Sql

LEMMA RereadIs ==
    ASSUME NEW d, Drafted(d), validate(d) = {}, ~HiddenBroken(d)
    PROVE  /\ Reread(d).name = d.name /\ Reread(d).origin = d.origin /\ Reread(d).enabled = d.enabled
           /\ Reread(d).transport = parsedTransport(d.transport) /\ Reread(d).fields = d.fields
           /\ Reread(d).intervalSeconds = SentInterval(d)
           /\ Reread(d).cadence = SentCadence(d)
           /\ Reread(d).primaryKey = IF isSql(d) THEN d.primaryKey ELSE Undefined
           /\ Reread(d).seedRows = SentSeeds(d) /\ Reread(d).insertsPerTick = SentInserts(d)
           /\ Reread(d).maxRows = SentLimit(d)
<1> DEFINE b == toInput(d)
<1>0. /\ b.name = SentName(d) /\ b.origin = d.origin /\ b.enabled = d.enabled
      /\ b.transport = d.transport /\ b.intervalSeconds = SentInterval(d) /\ b.fields = d.fields
      /\ b.table = SentTable(d) /\ b.seedRows = SentSeeds(d) /\ b.insertsPerTick = SentInserts(d)
      /\ b.maxRows = SentLimit(d) /\ b.cadence = SentCadence(d)
  BY Sent, SentIsValid
<1> HIDE DEF b
<1>1. Reread(d) = [name |-> NameRead(b), origin |-> b.origin, enabled |-> b.enabled,
                   transport |-> parsedTransport(b.transport),
                   intervalSeconds |-> Or(num(b.intervalSeconds), 10 * One),
                   cadence |-> fillIn(b), fields |-> b.fields, primaryKey |-> keyIn(b.table),
                   seedRows |-> num(b.seedRows), insertsPerTick |-> num(b.insertsPerTick),
                   maxRows |-> num(b.maxRows)]
  BY DEF Reread, fromJson, b, NameRead
<1>2. NameRead(b) = d.name
  <2>1. ~NameMissing(d) /\ d.name \notin {Undefined, Null}
    BY ValidIff, Zenon DEF Drafted
  <2>2. b.name = d.name
    BY <1>0, <2>1, Zenon DEF SentName, NameMissing
  <2> QED
    BY <2>1, <2>2, Zenon DEF Or, NameRead
<1>3. Or(num(b.intervalSeconds), 10 * One) = SentInterval(d)
  <2>1. SentInterval(d) \in Int
    BY SoundInterval
  <2> QED
    BY <1>0, <2>1, NoValues DEF Or, num, isNumber
<1>4. fillIn(b) = SentCadence(d)
  <2>1. Undefined # "fillToLimit"
    BY NoTexts
  <2> QED
    BY <1>0, <2>1, Zenon DEF fillIn, SentCadence
<1>5. keyIn(b.table) = IF isSql(d) THEN d.primaryKey ELSE Undefined
  <2>1. CASE isSql(d)
    <3>1. b.table = {[primaryKey |-> d.primaryKey, columns |-> Columns(d.fields)]}
      BY <1>0, <2>1, Zenon DEF SentTable
    <3> QED
      BY <2>1, <3>1, KeyOfOne
  <2>2. CASE ~isSql(d)
    BY <1>0, <2>2, Zenon DEF SentTable, keyIn
  <2> QED
    BY <2>1, <2>2, Zenon
<1>6. num(b.seedRows) = SentSeeds(d) /\ num(b.insertsPerTick) = SentInserts(d) /\ num(b.maxRows) = SentLimit(d)
  <2>1. CASE ~isSql(d)
    BY <1>0, <2>1, Zenon DEF SentSeeds, SentInserts, SentLimit, num
  <2>2. CASE isSql(d)
    <3>1. /\ d.seedRows = Undefined \/ d.seedRows \in Int
          /\ d.insertsPerTick = Undefined \/ d.insertsPerTick \in Int
      BY <2>2, SoundRows, WholeIsInt
    <3>2. SentSeeds(d) \in Int /\ SentInserts(d) \in Int
      BY <2>2, <3>1, RowsSent DEF SentSeeds, SentInserts, One
    <3>3. ~maxRowsError(d.maxRows)
      BY <2>2, ValidParts, ValidTable, Zenon
    <3>4. SentLimit(d) \in Int
      BY <2>2, <3>3, LimitChecked DEF SentLimit
    <3> QED
      BY <1>0, <3>2, <3>4 DEF num, isNumber
  <2> QED
    BY <2>1, <2>2
<1> QED
  BY <1>0, <1>1, <1>2, <1>3, <1>4, <1>5, <1>6

LEMMA RereadFills ==
    ASSUME NEW d, Drafted(d), validate(d) = {}, ~HiddenBroken(d)
    PROVE  (isSql(Reread(d)) <=> isSql(d)) /\ (fills(Reread(d)) <=> fills(d))
<1>1. Reread(d).transport = parsedTransport(d.transport) /\ Reread(d).cadence = SentCadence(d)
  BY RereadIs
<1>2. isSql(Reread(d)) <=> isSql(d)
  BY <1>1, ParsedWay, Zenon DEF isSql
<1>3. Undefined # "fillToLimit"
  BY NoTexts
<1>4. Reread(d).cadence = "fillToLimit" <=> fills(d)
  BY <1>1, <1>3, Zenon DEF SentCadence
<1>5. fills(d) => isSql(d)
  BY Zenon DEF fills
<1>6. fills(Reread(d)) <=> (isSql(Reread(d)) /\ Reread(d).cadence = "fillToLimit")
  BY Zenon DEF fills
<1> QED
  BY <1>2, <1>4, <1>5, <1>6, Zenon

LEMMA SentRowsTaken ==
    ASSUME NEW d, validate(d) = {}, ~HiddenBroken(d), isSql(d)
    PROVE  /\ SentSeeds(d) \in Int /\ ~rowsError(SentSeeds(d), 0, 10000)
           /\ SentInserts(d) \in Int /\ ~rowsError(SentInserts(d), 0, 100)
           /\ SentLimit(d) \in Int /\ ~maxRowsError(d.maxRows) /\ SentLimit(d) = d.maxRows
<1>1. /\ d.seedRows = Undefined \/ wholeIn(d.seedRows, 0, 10000)
      /\ d.insertsPerTick = Undefined \/ wholeIn(d.insertsPerTick, 0, 100)
  BY SoundRows
<1>2. /\ d.seedRows = Undefined \/ d.seedRows \in Int
      /\ d.insertsPerTick = Undefined \/ d.insertsPerTick \in Int
  BY <1>1, WholeIsInt
<1>3. /\ SentSeeds(d) \in Int /\ SentSeeds(d) = IF d.seedRows = Undefined THEN 0 ELSE d.seedRows
      /\ SentInserts(d) \in Int
      /\ SentInserts(d) = IF d.insertsPerTick = Undefined THEN One ELSE d.insertsPerTick
  BY <1>2, RowsSent DEF SentSeeds, SentInserts, One
<1>4. wholeIn(SentSeeds(d), 0, 10000) /\ wholeIn(SentInserts(d), 0, 100)
  BY <1>1, <1>3 DEF wholeIn, isNumber, Whole, One
<1>5. ~maxRowsError(d.maxRows)
  BY ValidParts, ValidTable, Zenon
<1>6. SentLimit(d) \in Int /\ SentLimit(d) = d.maxRows
  BY <1>5, LimitChecked DEF SentLimit
<1> QED
  BY <1>3, <1>4, <1>5, <1>6 DEF rowsError

LEMMA RereadIsValid ==
    ASSUME NEW d, Drafted(d), validate(d) = {}, ~HiddenBroken(d)
    PROVE  validate(Reread(d)) = {}
<1> DEFINE e == Reread(d)
<1>0. /\ e.name = d.name /\ e.transport = parsedTransport(d.transport) /\ e.fields = d.fields
      /\ e.intervalSeconds = SentInterval(d)
      /\ e.seedRows = SentSeeds(d) /\ e.insertsPerTick = SentInserts(d) /\ e.maxRows = SentLimit(d)
      /\ (isSql(d) => e.primaryKey = d.primaryKey)
  BY RereadIs
<1>1. (isSql(e) <=> isSql(d)) /\ (fills(e) <=> fills(d))
  BY RereadFills
<1> SUFFICES validate(e) = {}
  OBVIOUS
<1> HIDE DEF e
<1>2. /\ ~NameMissing(d) /\ WayBroken(d) = {} /\ d.fields # <<>> /\ ~FieldUnnamed(d)
      /\ Unique(d.fields) /\ SpecsBroken(d) = {}
  BY ValidIff, Zenon
<1>3. /\ ~NameMissing(e) /\ e.fields # <<>> /\ ~FieldUnnamed(e) /\ Unique(e.fields) /\ SpecsBroken(e) = {}
  BY <1>0, <1>2, Zenon DEF NameMissing, FieldUnnamed, SpecsBroken
<1>4. fills(e) \/ ~IntervalOff(e)
  <2>1. SentInterval(d) \in Int /\ SentInterval(d) >= One /\ SentInterval(d) <= 3600 * One
    BY SoundInterval
  <2>2. ~intervalError(SentInterval(d))
    BY <2>1 DEF intervalError, isNumber, One
  <2> QED
    BY <1>0, <2>2, Zenon DEF IntervalOff
<1>5. WayBroken(e) = {}
  <2>1. CASE ~isSql(d)
    BY <1>0, <1>1, <1>2, <2>1, ParsedWay, Zenon DEF WayBroken, UrlMissing, isSql
  <2>2. CASE isSql(d)
    <3>1. sqlErrors(d) = {}
      BY <1>2, <2>2, Zenon DEF WayBroken
    <3>2. ~TableMissing(d) /\ ~KeyMissing(d) /\ ~HasDots(d) /\ ~maxRowsError(d.maxRows)
      BY <3>1, TableValidIff, Zenon DEF LimitOff
    <3>3. ~TableMissing(e) /\ ~KeyMissing(e) /\ ~HasDots(e)
      <4>1. e.transport.table = d.transport.table
        BY <1>0, <2>2, ParsedWay, Zenon DEF isSql
      <4> QED
        BY <1>0, <2>2, <3>2, <4>1, Zenon DEF TableMissing, KeyMissing, HasDots
    <3>4. ~LimitOff(e)
      <4>1. e.maxRows = Wire(d.maxRows)
        BY <1>0, <2>2, Zenon DEF SentLimit
      <4>2. e.maxRows = d.maxRows
        BY <3>2, <4>1, LimitChecked
      <4> QED
        BY <3>2, <4>2, Zenon DEF LimitOff
    <3>5. ~SeedsBroken(e) /\ ~InsertsBroken(e)
      BY <1>0, <2>2, SentRowsTaken DEF SeedsBroken, InsertsBroken
    <3>6. sqlErrors(e) = {}
      BY <3>3, <3>4, <3>5, TableValidIff, Zenon
    <3> QED
      BY <1>1, <2>2, <3>6, Zenon DEF WayBroken
  <2> QED
    BY <2>1, <2>2
<1> QED
  BY <1>3, <1>4, <1>5, ValidIff, Zenon

LEMMA RereadIsSent ==
    ASSUME NEW d, Drafted(d), validate(d) = {}, ~HiddenBroken(d)
    PROVE  toInput(Reread(d)) = Unread(toInput(d))
<1> DEFINE e == Reread(d)
<1>0. /\ e.name = d.name /\ e.transport = parsedTransport(d.transport) /\ e.fields = d.fields
      /\ e.origin = d.origin /\ e.enabled = d.enabled
      /\ e.intervalSeconds = SentInterval(d)
      /\ e.seedRows = SentSeeds(d) /\ e.insertsPerTick = SentInserts(d) /\ e.maxRows = SentLimit(d)
      /\ (isSql(d) => e.primaryKey = d.primaryKey)
  BY RereadIs
<1>1. (isSql(e) <=> isSql(d)) /\ (fills(e) <=> fills(d))
  BY RereadFills
<1> SUFFICES toInput(e) = Unread(toInput(d))
  OBVIOUS
<1> HIDE DEF e
<1>2. SentName(e) = SentName(d) /\ SentFields(e) = SentFields(d) /\ SentCadence(e) = SentCadence(d)
  BY <1>0, <1>1, Zenon DEF SentName, SentFields, SentCadence
<1>3. SentTable(e) = SentTable(d)
  BY <1>0, <1>1, Zenon DEF SentTable
<1>4. SentInterval(e) = SentInterval(d)
  <2>1. SentInterval(d) \in Int
    BY SoundInterval
  <2> QED
    BY <1>0, <2>1, NumbersPass DEF SentInterval, isNumber
<1>5. SentSeeds(e) = SentSeeds(d) /\ SentInserts(e) = SentInserts(d) /\ SentLimit(e) = SentLimit(d)
  <2>1. CASE ~isSql(d)
    BY <1>1, <2>1, Zenon DEF SentSeeds, SentInserts, SentLimit
  <2>2. CASE isSql(d)
    <3>1. SentSeeds(d) \in Int /\ SentInserts(d) \in Int /\ SentLimit(d) \in Int
      BY <2>2, SentRowsTaken
    <3>2. /\ Wire(Or(SentSeeds(d), 0)) = SentSeeds(d) /\ Wire(SentLimit(d)) = SentLimit(d)
          /\ Wire(Or(SentInserts(d), One)) = SentInserts(d)
      BY <3>1, NoValues DEF Wire, Or
    <3>3. /\ SentSeeds(e) = Wire(Or(SentSeeds(d), 0)) /\ SentLimit(e) = Wire(SentLimit(d))
          /\ SentInserts(e) = Wire(Or(SentInserts(d), One))
      BY <1>0, <1>1, <2>2, Zenon DEF SentSeeds, SentInserts, SentLimit
    <3> QED
      BY <3>2, <3>3
  <2> QED
    BY <2>1, <2>2
<1> DEFINE b == toInput(d)
           body(way) == [name |-> SentName(d), origin |-> d.origin, enabled |-> d.enabled,
                         transport |-> way, intervalSeconds |-> SentInterval(d),
                         fields |-> SentFields(d), table |-> SentTable(d),
                         seedRows |-> SentSeeds(d), insertsPerTick |-> SentInserts(d),
                         maxRows |-> SentLimit(d), cadence |-> SentCadence(d), extras |-> {}]
<1>6. toInput(e) = body(parsedTransport(d.transport)) /\ b = body(d.transport)
  BY <1>0, <1>2, <1>3, <1>4, <1>5, Sent
<1>7. b.transport = d.transport /\ \A way : [b EXCEPT !.transport = way] = body(way)
  BY <1>6
<1> HIDE DEF b, body
<1>8. CASE isSql(d)
  <2>1. isSql(b) /\ parsedTransport(d.transport) = Sql(b.transport.table)
    BY <1>7, <1>8, ParsedWay, Zenon DEF isSql
  <2> QED
    BY <1>6, <1>7, <2>1 DEF Unread, b
<1>9. CASE ~isSql(d)
  <2>1. ~isSql(b) /\ parsedTransport(d.transport) = d.transport
    BY <1>7, <1>9, ParsedWay, Zenon DEF isSql
  <2> QED
    BY <1>6, <2>1 DEF Unread, b
<1> QED
  BY <1>8, <1>9

-----------------------------------------------------------------------------
(* What the service keeps of a generator it takes goes back to it as it is. *)

LEMMA TakenIsSetting ==
    ASSUME NEW s, Shaped(s), generatorSpecSchema(s)
    PROVE  Setting(s) /\ NoNaN(s)
<1>0. Null \notin Int /\ NaN \notin Int /\ Undefined # Null /\ NaN # Undefined
  BY NoValues
<1>1. CASE s.kind \in {"constant", "now", "enum"}
  <2>1. DOMAIN s \cap Numeric = {} /\ "peakHours" \notin DOMAIN s
    BY <1>1, ShapedOf DEF Numeric
  <2> QED
    BY <2>1 DEF Shaped, Setting, SettingOr, NoNaN
<1>2. CASE s.kind = "randomWalk"
  <2>1. s.min \in Int /\ s.max \in Int /\ s.step \in Int /\ (s.start = Undefined \/ s.start \in Int)
    BY <1>2 DEF generatorSpecSchema, isNumber
  <2>2. DOMAIN s = {"kind", "min", "max", "step", "start", "integer"}
    BY <1>2, ShapedOf
  <2>3. \A key \in DOMAIN s \cap Numeric : s[key] \in Int \cup {Undefined}
    BY <2>1, <2>2 DEF Numeric
  <2> QED
    BY <1>0, <2>2, <2>3 DEF Shaped, Setting, SettingOr, NoNaN, isNumber
<1>3. CASE s.kind = "dailyProfile"
  <2>1. /\ s.min \in Int /\ s.max \in Int /\ (s.noise = Undefined \/ s.noise \in 0 .. One)
        /\ \A i \in DOMAIN s.peakHours : s.peakHours[i] \in 0 .. 23 * One
    BY <1>3 DEF generatorSpecSchema, isNumber
  <2>2. DOMAIN s = {"kind", "min", "max", "peakHours", "noise", "integer"}
    BY <1>3, ShapedOf
  <2>3. s.noise \in Int \cup {Undefined} /\ \A i \in DOMAIN s.peakHours : s.peakHours[i] \in Int
    BY <2>1 DEF One
  <2>4. \A key \in DOMAIN s \cap Numeric : s[key] \in Int \cup {Undefined}
    BY <2>1, <2>2, <2>3 DEF Numeric
  <2> QED
    BY <1>0, <2>2, <2>3, <2>4 DEF Shaped, Setting, SettingOr, NoNaN, isNumber
<1>4. CASE s.kind = "sequence"
  <2>1. (s.start = Undefined \/ s.start \in Int) /\ (s.padTo = Undefined \/ s.padTo \in Int)
    BY <1>4 DEF generatorSpecSchema, isNumber, wholeIn
  <2>2. DOMAIN s = {"kind", "start", "padTo"}
    BY <1>4, ShapedOf
  <2>3. \A key \in DOMAIN s \cap Numeric : s[key] \in Int \cup {Undefined}
    BY <2>1, <2>2 DEF Numeric
  <2> QED
    BY <1>0, <2>2, <2>3 DEF Shaped, Setting, SettingOr, NoNaN, isNumber
<1>5. CASE s.kind = "jitter"
  <2>1. s.center \in Int /\ s.spread \in Int /\ (s.precision = Undefined \/ s.precision \in Int)
    BY <1>5 DEF generatorSpecSchema, isNumber, wholeIn
  <2>2. DOMAIN s = {"kind", "center", "spread", "precision"}
    BY <1>5, ShapedOf
  <2>3. \A key \in DOMAIN s \cap Numeric : s[key] \in Int \cup {Undefined}
    BY <2>1, <2>2 DEF Numeric
  <2> QED
    BY <1>0, <2>2, <2>3 DEF Shaped, Setting, SettingOr, NoNaN, isNumber
<1> QED
  BY <1>1, <1>2, <1>3, <1>4, <1>5, ShapedOf DEF Kinds

\* What the schema fills in for a setting.
Filled(s, key) ==
  CASE key \in DOMAIN SchemaDefaults -> SchemaDefaults[key]
    [] key = "start" /\ s.kind = "sequence" -> One
    [] OTHER -> Undefined

LEMMA ParsedIs ==
    ASSUME NEW s
    PROVE  /\ DOMAIN Parsed(s) = DOMAIN s /\ Parsed(s) = [key \in DOMAIN s |-> Parsed(s)[key]]
           /\ \A key \in DOMAIN s : Parsed(s)[key] = IF s[key] # Undefined THEN s[key] ELSE Filled(s, key)
BY DEF Parsed, Filled

LEMMA FilledIs ==
    ASSUME NEW s
    PROVE  /\ Filled(s, "integer") = FALSE /\ Filled(s, "noise") = 2
           /\ Filled(s, "padTo") = 0 /\ Filled(s, "precision") = 6 * One
           /\ Filled(s, "start") = IF s.kind = "sequence" THEN One ELSE Undefined
           /\ \A key \in {"min", "max", "step", "center", "spread", "peakHours"} : Filled(s, key) = Undefined
BY DEF Filled, SchemaDefaults

LEMMA FilledNumbers ==
    ASSUME NEW s, NEW key \in Numeric
    PROVE  Filled(s, key) \in Int \cup {Undefined}
<1>1. CASE key \in {"noise", "padTo", "precision"}
  BY <1>1 DEF Filled, SchemaDefaults, One
<1>2. CASE key \notin {"noise", "padTo", "precision"}
  BY <1>2 DEF Filled, SchemaDefaults, Numeric, One
<1> QED
  BY <1>1, <1>2

LEMMA ParsedIsShaped ==
    ASSUME NEW s, Shaped(s)
    PROVE  Shaped(Parsed(s)) /\ Parsed(s).kind = s.kind /\ (NoNaN(s) => NoNaN(Parsed(s)))
<1> DEFINE p == Parsed(s)
<1>1. /\ DOMAIN p = DOMAIN s /\ p = [key \in DOMAIN p |-> p[key]]
      /\ \A key \in DOMAIN s : p[key] = IF s[key] # Undefined THEN s[key] ELSE Filled(s, key)
  BY ParsedIs
<1> SUFFICES Shaped(p) /\ p.kind = s.kind /\ (NoNaN(s) => NoNaN(p))
  OBVIOUS
<1> HIDE DEF p
<1>2. p.kind = s.kind
  BY <1>1, ShapedOf, NoValues
<1>3. \A key \in DOMAIN s \cap Numeric : p[key] = s[key] \/ p[key] \in Int \cup {Undefined}
  <2>1. \A key \in Numeric : Filled(s, key) \in Int \cup {Undefined}
    BY FilledNumbers
  <2> QED
    BY <1>1, <2>1
<1>4. "integer" \in DOMAIN s => p.integer \in BOOLEAN \cup {Undefined}
  <2>1. "integer" \in DOMAIN s => s.integer \in BOOLEAN \cup {Undefined}
    BY DEF Shaped, SettingOr
  <2>2. Filled(s, "integer") = FALSE
    BY FilledIs
  <2> QED
    BY <1>1, <2>1, <2>2
<1>5. "peakHours" \in DOMAIN s => p.peakHours = s.peakHours
  <2>1. Filled(s, "peakHours") = Undefined
    BY FilledIs
  <2> QED
    BY <1>1, <2>1
<1>6. Shaped(p)
  <2>1. p.kind \in Kinds /\ DOMAIN p = DOMAIN defaultSpec(p.kind)
    BY <1>1, <1>2 DEF Shaped, SettingOr
  <2>2. \A key \in DOMAIN s \cap Numeric : s[key] \in Int \cup {Undefined, NaN, Null}
    BY DEF Shaped, SettingOr, isNumber
  <2>3. \A key \in DOMAIN p \cap Numeric : p[key] \in Int \cup {Undefined, NaN, Null}
    BY <1>1, <1>3, <2>2
  <2>4. "peakHours" \in DOMAIN p => p.peakHours = [i \in DOMAIN p.peakHours |-> p.peakHours[i]]
    BY <1>1, <1>5 DEF Shaped, SettingOr
  <2> QED
    BY <1>1, <1>4, <2>1, <2>3, <2>4 DEF Shaped, SettingOr, isNumber
<1>7. NoNaN(s) => NoNaN(p)
  BY <1>1, <1>3, <1>5, NoValues DEF NoNaN
<1> QED
  BY <1>2, <1>6, <1>7

LEMMA ParsedOnce ==
    ASSUME NEW s, Shaped(s)
    PROVE  Parsed(Parsed(s)) = Parsed(s)
<1> DEFINE p == Parsed(s)
           q == Parsed(p)
<1>1. /\ DOMAIN p = DOMAIN s /\ p = [key \in DOMAIN s |-> p[key]]
      /\ \A key \in DOMAIN s : p[key] = IF s[key] # Undefined THEN s[key] ELSE Filled(s, key)
  BY ParsedIs
<1>2. /\ DOMAIN q = DOMAIN p /\ q = [key \in DOMAIN p |-> q[key]]
      /\ \A key \in DOMAIN p : q[key] = IF p[key] # Undefined THEN p[key] ELSE Filled(p, key)
  BY ParsedIs
<1>3. p.kind = s.kind
  BY ParsedIsShaped
<1> SUFFICES q = p
  OBVIOUS
<1> HIDE DEF p, q
<1>4. \A key : Filled(p, key) = Filled(s, key)
  BY <1>3 DEF Filled
<1>5. \A key \in DOMAIN s : q[key] = p[key]
  BY <1>1, <1>2, <1>4
<1> QED
  BY <1>1, <1>2, <1>5

LEMMA ParsedIsTaken ==
    ASSUME NEW s, Shaped(s), generatorSpecSchema(s)
    PROVE  generatorSpecSchema(Parsed(s))
<1> DEFINE p == Parsed(s)
<1>1. \A key \in DOMAIN s : p[key] = IF s[key] # Undefined THEN s[key] ELSE Filled(s, key)
  BY ParsedIs
<1>2. p.kind = s.kind
  BY ParsedIsShaped
<1>3. Undefined \notin Int /\ Null # FALSE /\ Undefined # <<>>
  BY NoValues
<1> SUFFICES generatorSpecSchema(p)
  OBVIOUS
<1> HIDE DEF p
<1>4. CASE s.kind \in {"constant", "now"}
  BY <1>2, <1>4 DEF generatorSpecSchema
<1>5. CASE s.kind = "enum"
  <2>1. DOMAIN s = {"kind", "values"} /\ s.values # <<>>
    BY <1>5, ShapedOf DEF generatorSpecSchema
  <2>2. p.values = s.values \/ (s.values = Undefined /\ p.values = Filled(s, "values"))
    BY <1>1, <2>1
  <2>3. Filled(s, "values") = Undefined
    BY DEF Filled, SchemaDefaults
  <2>4. p.values # <<>>
    BY <1>3, <2>1, <2>2, <2>3
  <2> QED
    BY <1>2, <1>5, <2>4 DEF generatorSpecSchema
<1>6. CASE s.kind = "randomWalk"
  <2>1. /\ s.min \in Int /\ s.max \in Int /\ s.step \in Int /\ s.step > 0
        /\ s.start = Undefined \/ s.start \in Int
        /\ s.integer # Null /\ DOMAIN s = {"kind", "min", "max", "step", "start", "integer"}
    BY <1>6, ShapedOf DEF generatorSpecSchema, isNumber
  <2>2. p.min = s.min /\ p.max = s.max /\ p.step = s.step
    BY <1>1, <1>3, <2>1
  <2>3. p.start = Undefined \/ p.start \in Int
    <3>1. Filled(s, "start") = Undefined
      BY <1>6, FilledIs
    <3> QED
      BY <1>1, <2>1, <3>1
  <2>4. p.integer # Null
    <3>1. Filled(s, "integer") = FALSE
      BY FilledIs
    <3> QED
      BY <1>1, <1>3, <2>1, <3>1
  <2> QED
    BY <1>2, <1>6, <2>1, <2>2, <2>3, <2>4 DEF generatorSpecSchema, isNumber
<1>7. CASE s.kind = "dailyProfile"
  <2>1. /\ s.min \in Int /\ s.max \in Int
        /\ s.peakHours # <<>> /\ \A i \in DOMAIN s.peakHours : s.peakHours[i] \in 0 .. 23 * One
        /\ s.noise = Undefined \/ s.noise \in 0 .. One
        /\ s.integer # Null /\ DOMAIN s = {"kind", "min", "max", "peakHours", "noise", "integer"}
    BY <1>7, ShapedOf DEF generatorSpecSchema, isNumber
  <2>2. p.min = s.min /\ p.max = s.max
    BY <1>1, <1>3, <2>1
  <2>3. p.peakHours = s.peakHours
    <3>1. Filled(s, "peakHours") = Undefined
      BY FilledIs
    <3> QED
      BY <1>1, <2>1, <3>1
  <2>4. p.noise \in 0 .. One
    <3>1. Filled(s, "noise") = 2
      BY FilledIs
    <3> QED
      BY <1>1, <2>1, <3>1 DEF One
  <2>5. p.integer # Null
    <3>1. Filled(s, "integer") = FALSE
      BY FilledIs
    <3> QED
      BY <1>1, <1>3, <2>1, <3>1
  <2> QED
    BY <1>2, <1>7, <2>1, <2>2, <2>3, <2>4, <2>5 DEF generatorSpecSchema, isNumber
<1>8. CASE s.kind = "sequence"
  <2>1. /\ s.start = Undefined \/ (s.start \in Int /\ s.start >= 0 /\ Whole(s.start))
        /\ s.padTo = Undefined \/ wholeIn(s.padTo, 0, 12)
        /\ DOMAIN s = {"kind", "start", "padTo"}
    BY <1>8, ShapedOf DEF generatorSpecSchema, isNumber
  <2>2. p.start \in Int /\ p.start >= 0 /\ Whole(p.start)
    <3>1. Filled(s, "start") = One
      BY <1>8, FilledIs
    <3>2. One \in Int /\ One >= 0 /\ Whole(One)
      BY DEF Whole, One
    <3> QED
      BY <1>1, <2>1, <3>1, <3>2
  <2>3. wholeIn(p.padTo, 0, 12)
    <3>1. Filled(s, "padTo") = 0
      BY FilledIs
    <3>2. wholeIn(0, 0, 12)
      BY DEF wholeIn, isNumber, Whole, One
    <3> QED
      BY <1>1, <2>1, <3>1, <3>2
  <2> QED
    BY <1>2, <1>8, <2>2, <2>3 DEF generatorSpecSchema, isNumber
<1>9. CASE s.kind = "jitter"
  <2>1. /\ s.center \in Int /\ s.spread \in Int /\ s.spread > 0
        /\ s.precision = Undefined \/ wholeIn(s.precision, 0, 12)
        /\ DOMAIN s = {"kind", "center", "spread", "precision"}
    BY <1>9, ShapedOf DEF generatorSpecSchema, isNumber
  <2>2. p.center = s.center /\ p.spread = s.spread
    BY <1>1, <1>3, <2>1
  <2>3. wholeIn(p.precision, 0, 12)
    <3>1. Filled(s, "precision") = 6 * One
      BY FilledIs
    <3>2. wholeIn(6 * One, 0, 12)
      BY DEF wholeIn, isNumber, Whole, One
    <3> QED
      BY <1>1, <2>1, <3>1, <3>2
  <2> QED
    BY <1>2, <1>9, <2>1, <2>2, <2>3 DEF generatorSpecSchema, isNumber
<1> QED
  BY <1>4, <1>5, <1>6, <1>7, <1>8, <1>9, ShapedOf DEF Kinds

LEMMA ParsedHasTheColumn ==
    ASSUME NEW s, Setting(s)
    PROVE  columnTypeFor(Parsed(s)) = columnTypeFor(s)
<1> DEFINE p == Parsed(s)
<1>1. /\ p.kind = s.kind /\ s.kind \in Kinds
      /\ s.kind = "constant" => p.value = s.value
      /\ s.kind = "enum" => p.values = s.values
      /\ s.kind \in {"randomWalk", "dailyProfile"} => (p.integer = TRUE <=> s.integer = TRUE)
  BY ParsedKeeps, SettingsOf, SettingIsShaped
<1> HIDE DEF p
<1>2. CASE s.kind \in {"now", "sequence", "jitter"}
  BY <1>1, <1>2 DEF columnTypeFor, p
<1>3. CASE s.kind = "constant"
  BY <1>1, <1>3 DEF columnTypeFor, p
<1>4. CASE s.kind = "enum"
  BY <1>1, <1>4 DEF columnTypeFor, p
<1>5. CASE s.kind \in {"randomWalk", "dailyProfile"}
  BY <1>1, <1>5 DEF columnTypeFor, p
<1> QED
  BY <1>1, <1>2, <1>3, <1>4, <1>5 DEF Kinds

-----------------------------------------------------------------------------
(* What the editor saved comes back to it.                                 *)

\* A draft that was saved.
Accepted(d) == Drafted(d) /\ validate(d) = {} /\ simulationInputSchema(toInput(d))

KeptFields(f) == [i \in DOMAIN f |-> Field(f[i].name, Parsed(f[i].spec))]

LEMMA KeptFieldsAre ==
    ASSUME NEW f, FieldList(f)
    PROVE  /\ FieldList(KeptFields(f)) /\ DOMAIN KeptFields(f) = DOMAIN f /\ Len(KeptFields(f)) = Len(f)
           /\ \A i \in DOMAIN f : /\ KeptFields(f)[i].name = f[i].name
                                  /\ KeptFields(f)[i].spec = Parsed(f[i].spec)
           /\ Names(KeptFields(f)) = Names(f)
<1> DEFINE k == KeptFields(f)
<1>1. /\ Len(f) \in Nat /\ DOMAIN f = 1 .. Len(f) /\ f = [i \in 1 .. Len(f) |-> f[i]]
      /\ \A i \in DOMAIN f : IsField(f[i])
  BY ListOf
<1>2. /\ k = [i \in 1 .. Len(f) |-> k[i]] /\ DOMAIN k = DOMAIN f
      /\ \A i \in DOMAIN f : k[i] = Field(f[i].name, Parsed(f[i].spec))
  BY <1>1 DEF KeptFields
<1> SUFFICES /\ FieldList(k) /\ DOMAIN k = DOMAIN f /\ Len(k) = Len(f)
             /\ \A i \in DOMAIN f : k[i].name = f[i].name /\ k[i].spec = Parsed(f[i].spec)
             /\ Names(k) = Names(f)
  OBVIOUS
<1> HIDE DEF k
<1>3. \A i \in DOMAIN f : IsField(k[i]) /\ k[i].name = f[i].name /\ k[i].spec = Parsed(f[i].spec)
  BY <1>1, <1>2, ParsedIsShaped, FieldMade DEF IsField
<1>4. FieldList(k)
  BY <1>1, <1>2, <1>3, ListMade
<1>5. Len(k) = Len(f)
  BY <1>1, <1>2, <1>4, ListOf
<1>6. Names(k) = Names(f)
  BY <1>2, <1>3 DEF Names
<1> QED
  BY <1>2, <1>3, <1>4, <1>5, <1>6

LEMMA KeptFieldsComeBack ==
    ASSUME NEW f, FieldList(f), Unique(f), \A i \in DOMAIN f : generatorSpecSchema(f[i].spec)
    PROVE  /\ Merged(KeptFields(f)) = KeptFields(f)
           /\ \A i \in DOMAIN f :
                /\ Field(KeptFields(f)[i].name, OnWire(KeptFields(f)[i].spec)) = KeptFields(f)[i]
                /\ generatorSpecSchema(KeptFields(f)[i].spec)
           /\ Columns(KeptFields(f)) = Columns(f)
           /\ KeptFields(KeptFields(f)) = KeptFields(f)
<1> DEFINE k == KeptFields(f)
<1>1. /\ FieldList(k) /\ DOMAIN k = DOMAIN f /\ Len(k) = Len(f) /\ Names(k) = Names(f)
      /\ \A i \in DOMAIN f : k[i].name = f[i].name /\ k[i].spec = Parsed(f[i].spec)
      /\ KeptFields(k) = [i \in DOMAIN k |-> Field(k[i].name, Parsed(k[i].spec))]
  BY KeptFieldsAre DEF KeptFields
<1> SUFFICES /\ Merged(k) = k
             /\ \A i \in DOMAIN f : /\ Field(k[i].name, OnWire(k[i].spec)) = k[i]
                                    /\ generatorSpecSchema(k[i].spec)
             /\ Columns(k) = Columns(f) /\ KeptFields(k) = k
  OBVIOUS
<1> HIDE DEF k
<1>2. Unique(k)
  BY <1>1 DEF Unique
<1>3. Merged(k) = k
  BY <1>1, <1>2, UniqueIsSent
<1>4. \A i \in DOMAIN f : Shaped(f[i].spec) /\ Setting(f[i].spec) /\ NoNaN(f[i].spec)
  BY ListOf, TakenIsSetting DEF IsField
<1>5. \A i \in DOMAIN f : k[i] = Field(k[i].name, k[i].spec)
  BY <1>1, ListOf DEF IsField
<1>6. \A i \in DOMAIN f : /\ OnWire(k[i].spec) = k[i].spec
                          /\ generatorSpecSchema(k[i].spec)
                          /\ Parsed(k[i].spec) = k[i].spec
                          /\ columnTypeFor(k[i].spec) = columnTypeFor(f[i].spec)
  BY <1>1, <1>4, ParsedIsShaped, NumbersAreKept, ParsedIsTaken, ParsedOnce, ParsedHasTheColumn
<1>7. \A i \in DOMAIN f : LastNamed(k, k[i].name) = k[i] /\ LastNamed(f, f[i].name) = f[i]
  BY <1>1, <1>2, UniqueIsNamed
<1>8. Columns(k) = Columns(f)
  <2>1. \A n \in Names(f) : columnTypeFor(LastNamed(k, n).spec) = columnTypeFor(LastNamed(f, n).spec)
    <3> TAKE n \in Names(f)
    <3>1. PICK i \in DOMAIN f : n = f[i].name
      BY DEF Names
    <3>2. LastNamed(k, n) = k[i] /\ LastNamed(f, n) = f[i]
      BY <1>1, <1>7, <3>1
    <3> QED
      BY <1>6, <3>2
  <2> QED
    BY <1>1, <2>1 DEF Columns
<1>9. KeptFields(k) = k
  <2>1. k = [i \in DOMAIN k |-> k[i]]
    BY <1>1, ListOf
  <2> QED
    BY <1>1, <1>5, <1>6, <2>1
<1> QED
  BY <1>3, <1>5, <1>6, <1>8, <1>9

KeptInterval(d) == Or(SentInterval(d), 10 * One)
KeptSeeds(d)    == Or(SentSeeds(d), 0)
KeptInserts(d)  == Or(SentInserts(d), One)
KeptCadence(d)  == Or(SentCadence(d), "interval")

LEMMA AcceptedParts ==
    ASSUME NEW d, Accepted(d)
    PROVE  /\ d.name # "" /\ d.name \notin {Undefined, Null} /\ FieldList(d.fields) /\ Unique(d.fields)
           /\ SentFields(d) = d.fields /\ \A i \in DOMAIN d.fields : generatorSpecSchema(d.fields[i].spec)
           /\ TextsTaken(toInput(d)) /\ transportSchema(d.transport) /\ refined(toInput(d))
           /\ IntervalTaken(toInput(d)) /\ SeedsTaken(toInput(d)) /\ InsertsTaken(toInput(d))
           /\ LimitTaken(toInput(d)) /\ \A table \in SentTable(d) : table.primaryKey # ""
<1> DEFINE b == toInput(d)
<1>1. b.transport = d.transport /\ b.fields = SentFields(d) /\ b.table = SentTable(d)
  BY Sent
<1>2. Drafted(d) /\ validate(d) = {} /\ simulationInputSchema(b)
  BY DEF Accepted
<1> SUFFICES /\ d.name # "" /\ d.name \notin {Undefined, Null} /\ FieldList(d.fields) /\ Unique(d.fields)
             /\ SentFields(d) = d.fields /\ \A i \in DOMAIN d.fields : generatorSpecSchema(d.fields[i].spec)
             /\ TextsTaken(b) /\ transportSchema(d.transport) /\ refined(b)
             /\ IntervalTaken(b) /\ SeedsTaken(b) /\ InsertsTaken(b)
             /\ LimitTaken(b) /\ \A table \in SentTable(d) : table.primaryKey # ""
  BY Zenon
<1> HIDE DEF b
<1>3. TextsTaken(b) /\ transportSchema(b.transport) /\ scenarioSchema(b) /\ refined(b)
  BY <1>2, SchemaIs, Zenon
<1>4. SentFields(d) = d.fields
  BY <1>2, SentIsValid
<1>5. d.name # "" /\ Unique(d.fields)
  BY <1>2, ValidParts, Zenon
<1>6. d.name \notin {Undefined, Null} /\ FieldList(d.fields)
  BY <1>2, Zenon DEF Drafted
<1>7. /\ \A i \in DOMAIN b.fields : generatorSpecSchema(b.fields[i].spec)
      /\ IntervalTaken(b) /\ SeedsTaken(b) /\ InsertsTaken(b) /\ LimitTaken(b)
      /\ \A table \in b.table : table.primaryKey # ""
  BY <1>3, ScenarioIs, Zenon
<1> QED
  BY <1>1, <1>3, <1>4, <1>5, <1>6, <1>7, Zenon

LEMMA KeptNumbers ==
    ASSUME NEW d, Accepted(d)
    PROVE  /\ KeptInterval(d) \in Int /\ KeptInterval(d) > 0 /\ KeptInterval(d) <= 3600 * One
           /\ KeptSeeds(d) \in Int /\ wholeIn(KeptSeeds(d), 0, 10000)
           /\ KeptInserts(d) \in Int /\ wholeIn(KeptInserts(d), 0, 100)
           /\ isSql(d) => SentLimit(d) \in Int /\ wholeIn(SentLimit(d), 1, 100000)
<1> DEFINE b == toInput(d)
<1>1. /\ b.intervalSeconds = SentInterval(d) /\ b.seedRows = SentSeeds(d)
      /\ b.insertsPerTick = SentInserts(d) /\ b.maxRows = SentLimit(d) /\ b.transport = d.transport
  BY Sent
<1>2. IntervalTaken(b) /\ SeedsTaken(b) /\ InsertsTaken(b) /\ LimitTaken(b) /\ refined(b)
  BY AcceptedParts
<1> HIDE DEF b
<1>3. KeptInterval(d) \in Int /\ KeptInterval(d) > 0 /\ KeptInterval(d) <= 3600 * One
  BY <1>1, <1>2, NoValues DEF KeptInterval, IntervalTaken, sentOr, isNumber, Or, One
<1>4. wholeIn(0, 0, 10000) /\ wholeIn(One, 0, 100) /\ One \in Int
  BY DEF wholeIn, isNumber, Whole, One
<1>5. wholeIn(KeptSeeds(d), 0, 10000)
  <2>1. CASE SentSeeds(d) = Undefined
    BY <1>4, <2>1 DEF KeptSeeds, Or
  <2>2. CASE wholeIn(SentSeeds(d), 0, 10000)
    <3>1. KeptSeeds(d) = SentSeeds(d)
      BY <2>2, NoValues DEF wholeIn, isNumber, KeptSeeds, Or
    <3> QED
      BY <2>2, <3>1
  <2> QED
    BY <1>1, <1>2, <2>1, <2>2 DEF SeedsTaken, sentOr
<1>6. wholeIn(KeptInserts(d), 0, 100)
  <2>1. CASE SentInserts(d) = Undefined
    BY <1>4, <2>1 DEF KeptInserts, Or
  <2>2. CASE wholeIn(SentInserts(d), 0, 100)
    <3>1. KeptInserts(d) = SentInserts(d)
      BY <2>2, NoValues DEF wholeIn, isNumber, KeptInserts, Or
    <3> QED
      BY <2>2, <3>1
  <2> QED
    BY <1>1, <1>2, <2>1, <2>2 DEF InsertsTaken, sentOr
<1>7. isSql(d) => wholeIn(SentLimit(d), 1, 100000)
  <2> SUFFICES ASSUME isSql(d) PROVE wholeIn(SentLimit(d), 1, 100000)
    OBVIOUS
  <2>1. b.transport.kind = "sql"
    BY <1>1 DEF isSql
  <2>2. b.maxRows # Undefined
    BY <1>2, <2>1 DEF refined
  <2> QED
    BY <1>1, <1>2, <2>2 DEF LimitTaken, sentOr
<1> QED
  BY <1>3, <1>5, <1>6, <1>7, WholeIsInt

\* A saved draft, opened again.
Again(d) == toDraft(Kept(toInput(d)))

LEMMA KeptIs ==
    ASSUME NEW d, Accepted(d)
    PROVE  Kept(toInput(d)) =
             [name |-> d.name, origin |-> d.origin, enabled |-> d.enabled, transport |-> d.transport,
              intervalSeconds |-> KeptInterval(d), fields |-> KeptFields(d.fields),
              table |-> SentTable(d), seedRows |-> KeptSeeds(d), insertsPerTick |-> KeptInserts(d),
              maxRows |-> SentLimit(d), cadence |-> KeptCadence(d), extras |-> {}]
<1>1. SentFields(d) = d.fields /\ SentName(d) = d.name
  BY AcceptedParts, Zenon DEF SentName
<1> DEFINE b == [name |-> d.name, origin |-> d.origin, enabled |-> d.enabled,
                 transport |-> d.transport, intervalSeconds |-> SentInterval(d),
                 fields |-> d.fields, table |-> SentTable(d),
                 seedRows |-> SentSeeds(d), insertsPerTick |-> SentInserts(d), maxRows |-> SentLimit(d),
                 cadence |-> SentCadence(d), extras |-> {}]
<1>2. toInput(d) = b
  BY <1>1, Sent
<1>3. Kept(b) = [b EXCEPT !.intervalSeconds = KeptInterval(d), !.cadence = KeptCadence(d),
                          !.seedRows = KeptSeeds(d), !.insertsPerTick = KeptInserts(d),
                          !.fields = KeptFields(d.fields)]
  <2>1. /\ b.intervalSeconds = SentInterval(d) /\ b.cadence = SentCadence(d)
        /\ b.seedRows = SentSeeds(d) /\ b.insertsPerTick = SentInserts(d) /\ b.fields = d.fields
    OBVIOUS
  <2> HIDE DEF b
  <2>2. /\ Or(b.intervalSeconds, 10 * One) = KeptInterval(d) /\ Or(b.cadence, "interval") = KeptCadence(d)
        /\ Or(b.seedRows, 0) = KeptSeeds(d) /\ Or(b.insertsPerTick, One) = KeptInserts(d)
        /\ [i \in DOMAIN b.fields |-> Field(b.fields[i].name, Parsed(b.fields[i].spec))] = KeptFields(d.fields)
    BY <2>1, Zenon DEF KeptInterval, KeptSeeds, KeptInserts, KeptCadence, KeptFields
  <2>3. Kept(b) = [b EXCEPT !.intervalSeconds = Or(b.intervalSeconds, 10 * One),
                            !.cadence = Or(b.cadence, "interval"), !.seedRows = Or(b.seedRows, 0),
                            !.insertsPerTick = Or(b.insertsPerTick, One),
                            !.fields = [i \in DOMAIN b.fields |->
                                          Field(b.fields[i].name, Parsed(b.fields[i].spec))]]
    BY DEF Kept
  <2> QED
    BY <2>2, <2>3
<1> QED
  BY <1>2, <1>3

LEMMA AgainIs ==
    ASSUME NEW d, Accepted(d)
    PROVE  /\ Again(d).name = d.name /\ Again(d).origin = d.origin /\ Again(d).enabled = d.enabled
           /\ Again(d).transport = d.transport /\ Again(d).fields = KeptFields(d.fields)
           /\ Again(d).intervalSeconds = KeptInterval(d) /\ Again(d).cadence = KeptCadence(d)
           /\ isSql(d) => Again(d).primaryKey = d.primaryKey
           /\ Again(d).seedRows = KeptSeeds(d) /\ Again(d).insertsPerTick = KeptInserts(d)
           /\ Again(d).maxRows = SentLimit(d)
<1> DEFINE i == Kept(toInput(d))
<1>1. /\ i.name = d.name /\ i.origin = d.origin /\ i.enabled = d.enabled /\ i.transport = d.transport
      /\ i.intervalSeconds = KeptInterval(d) /\ i.fields = KeptFields(d.fields) /\ i.table = SentTable(d)
      /\ i.seedRows = KeptSeeds(d) /\ i.insertsPerTick = KeptInserts(d) /\ i.maxRows = SentLimit(d)
      /\ i.cadence = KeptCadence(d)
  BY KeptIs
<1>2. Again(d) = toDraft(i)
  BY DEF Again
<1> HIDE DEF i
<1>3. toDraft(i) = [name |-> NameRead(i), origin |-> i.origin, enabled |-> i.enabled,
                    transport |-> i.transport, intervalSeconds |-> i.intervalSeconds,
                    cadence |-> i.cadence, fields |-> i.fields, primaryKey |-> keyIn(i.table),
                    seedRows |-> i.seedRows, insertsPerTick |-> i.insertsPerTick, maxRows |-> i.maxRows]
  BY DEF toDraft, NameRead
<1>4. NameRead(i) = d.name
  BY <1>1, AcceptedParts, Zenon DEF NameRead, Or
<1>5. isSql(d) => keyIn(i.table) = d.primaryKey
  <2> HAVE isSql(d)
  <2>1. i.table = {[primaryKey |-> d.primaryKey, columns |-> Columns(d.fields)]}
    BY <1>1, Zenon DEF SentTable
  <2> QED
    BY <2>1, KeyOfOne
<1> QED
  BY <1>1, <1>2, <1>3, <1>4, <1>5

LEMMA AgainFills ==
    ASSUME NEW d, Accepted(d)
    PROVE  (isSql(Again(d)) <=> isSql(d)) /\ (fills(Again(d)) <=> fills(d))
<1> DEFINE e == Again(d)
<1>1. e.transport = d.transport /\ e.cadence = KeptCadence(d)
  BY AgainIs
<1> SUFFICES (isSql(e) <=> isSql(d)) /\ (fills(e) <=> fills(d))
  OBVIOUS
<1> HIDE DEF e
<1>2. isSql(e) <=> isSql(d)
  BY <1>1, Zenon DEF isSql
<1>3. e.cadence = "fillToLimit" <=> fills(d)
  <2>1. "fillToLimit" \notin {Undefined, Null}
    BY NoTexts
  <2>2. CASE fills(d)
    <3>1. SentCadence(d) = "fillToLimit"
      BY <2>2, Zenon DEF SentCadence
    <3>2. KeptCadence(d) = "fillToLimit"
      BY <2>1, <3>1, Zenon DEF KeptCadence, Or
    <3> QED
      BY <1>1, <2>2, <3>2
  <2>3. CASE ~fills(d)
    <3>1. SentCadence(d) = Undefined
      BY <2>3, Zenon DEF SentCadence
    <3>2. KeptCadence(d) = "interval"
      BY <3>1, Zenon DEF KeptCadence, Or
    <3> QED
      BY <1>1, <2>3, <3>2
  <2> QED
    BY <2>2, <2>3
<1>4. fills(d) => isSql(d)
  BY Zenon DEF fills
<1>5. fills(e) <=> (isSql(e) /\ e.cadence = "fillToLimit")
  BY Zenon DEF fills
<1> QED
  BY <1>2, <1>3, <1>4, <1>5, Zenon

LEMMA AgainIsSent ==
    ASSUME NEW d, Accepted(d)
    PROVE  toInput(Again(d)) =
             [name |-> d.name, origin |-> d.origin, enabled |-> d.enabled, transport |-> d.transport,
              intervalSeconds |-> KeptInterval(d), fields |-> KeptFields(d.fields),
              table |-> SentTable(d),
              seedRows |-> IF isSql(d) THEN KeptSeeds(d) ELSE Undefined,
              insertsPerTick |-> IF isSql(d) THEN KeptInserts(d) ELSE Undefined,
              maxRows |-> SentLimit(d), cadence |-> SentCadence(d), extras |-> {}]
<1> DEFINE e == Again(d)
           k == KeptFields(d.fields)
<1>1. /\ e.name = d.name /\ e.origin = d.origin /\ e.enabled = d.enabled
      /\ e.transport = d.transport /\ e.fields = k
      /\ e.intervalSeconds = KeptInterval(d) /\ e.cadence = KeptCadence(d)
      /\ isSql(d) => e.primaryKey = d.primaryKey
      /\ e.seedRows = KeptSeeds(d) /\ e.insertsPerTick = KeptInserts(d) /\ e.maxRows = SentLimit(d)
  BY AgainIs
<1>2. (isSql(e) <=> isSql(d)) /\ (fills(e) <=> fills(d))
  BY AgainFills
<1>3. toInput(e) =
             [name |-> SentName(e), origin |-> e.origin, enabled |-> e.enabled,
              transport |-> e.transport, intervalSeconds |-> SentInterval(e),
              fields |-> SentFields(e), table |-> SentTable(e),
              seedRows |-> SentSeeds(e), insertsPerTick |-> SentInserts(e), maxRows |-> SentLimit(e),
              cadence |-> SentCadence(e), extras |-> {}]
  BY Sent
<1>4. /\ Merged(k) = k /\ Columns(k) = Columns(d.fields)
      /\ \A i \in DOMAIN k : Field(k[i].name, OnWire(k[i].spec)) = k[i]
      /\ k = [i \in DOMAIN k |-> k[i]]
  BY AcceptedParts, KeptFieldsAre, KeptFieldsComeBack, ListOf
<1> HIDE DEF e, k
<1>5. SentName(e) = d.name
  BY <1>1, AcceptedParts, Zenon DEF SentName
<1>6. SentInterval(e) = KeptInterval(d)
  BY <1>1, KeptNumbers, NumbersPass DEF SentInterval, isNumber
<1>7. SentFields(e) = k
  <2>1. SentFields(e) = [i \in DOMAIN k |-> Field(k[i].name, OnWire(k[i].spec))]
    BY <1>1, <1>4, Zenon DEF SentFields
  <2> QED
    BY <1>4, <2>1
<1>8. SentTable(e) = SentTable(d)
  BY <1>1, <1>2, <1>4, Zenon DEF SentTable
<1>9. SentCadence(e) = SentCadence(d)
  BY <1>2, Zenon DEF SentCadence
<1>10. /\ SentSeeds(e) = IF isSql(d) THEN KeptSeeds(d) ELSE Undefined
       /\ SentInserts(e) = IF isSql(d) THEN KeptInserts(d) ELSE Undefined
       /\ SentLimit(e) = SentLimit(d)
  <2>1. CASE ~isSql(d)
    BY <1>2, <2>1, Zenon DEF SentSeeds, SentInserts, SentLimit
  <2>2. CASE isSql(d)
    <3>1. KeptSeeds(d) \in Int /\ KeptInserts(d) \in Int /\ SentLimit(d) \in Int
      BY <2>2, KeptNumbers
    <3>2. /\ Wire(Or(KeptSeeds(d), 0)) = KeptSeeds(d) /\ Wire(SentLimit(d)) = SentLimit(d)
          /\ Wire(Or(KeptInserts(d), One)) = KeptInserts(d)
      BY <3>1, NoValues DEF Wire, Or
    <3>3. /\ SentSeeds(e) = Wire(Or(KeptSeeds(d), 0)) /\ SentLimit(e) = Wire(SentLimit(d))
          /\ SentInserts(e) = Wire(Or(KeptInserts(d), One))
      BY <1>1, <1>2, <2>2, Zenon DEF SentSeeds, SentInserts, SentLimit
    <3> QED
      BY <2>2, <3>2, <3>3
  <2> QED
    BY <2>1, <2>2
<1> QED
  BY <1>1, <1>3, <1>5, <1>6, <1>7, <1>8, <1>9, <1>10 DEF e, k

LEMMA AgainIsKept ==
    ASSUME NEW d, Accepted(d)
    PROVE  Kept(toInput(Again(d))) = Kept(toInput(d))
<1> DEFINE k == KeptFields(d.fields)
           seeds == IF isSql(d) THEN KeptSeeds(d) ELSE Undefined
           inserts == IF isSql(d) THEN KeptInserts(d) ELSE Undefined
           b == [name |-> d.name, origin |-> d.origin, enabled |-> d.enabled, transport |-> d.transport,
                 intervalSeconds |-> KeptInterval(d), fields |-> k, table |-> SentTable(d),
                 seedRows |-> seeds, insertsPerTick |-> inserts,
                 maxRows |-> SentLimit(d), cadence |-> SentCadence(d), extras |-> {}]
<1>1. toInput(Again(d)) = b
  BY AgainIsSent
<1>2. Kept(toInput(d)) =
             [name |-> d.name, origin |-> d.origin, enabled |-> d.enabled, transport |-> d.transport,
              intervalSeconds |-> KeptInterval(d), fields |-> k,
              table |-> SentTable(d), seedRows |-> KeptSeeds(d), insertsPerTick |-> KeptInserts(d),
              maxRows |-> SentLimit(d), cadence |-> KeptCadence(d), extras |-> {}]
  BY KeptIs
<1>3. Or(seeds, 0) = KeptSeeds(d) /\ Or(inserts, One) = KeptInserts(d)
  <2>1. CASE isSql(d)
    <3>1. seeds = KeptSeeds(d) /\ inserts = KeptInserts(d)
      BY <2>1, Zenon
    <3>2. KeptSeeds(d) \in Int /\ KeptInserts(d) \in Int
      BY KeptNumbers
    <3> HIDE DEF seeds, inserts
    <3> QED
      BY <3>1, <3>2, NoValues DEF Or
  <2>2. CASE ~isSql(d)
    <3>1. SentSeeds(d) = Undefined /\ SentInserts(d) = Undefined
      BY <2>2, Zenon DEF SentSeeds, SentInserts
    <3>2. seeds = Undefined /\ inserts = Undefined
      BY <2>2, Zenon
    <3> HIDE DEF seeds, inserts
    <3> QED
      BY <3>1, <3>2, Zenon DEF KeptSeeds, KeptInserts, Or
  <2> QED
    BY <2>1, <2>2
<1>4. Or(KeptInterval(d), 10 * One) = KeptInterval(d)
  BY KeptNumbers, NoValues DEF Or
<1>5. Or(SentCadence(d), "interval") = KeptCadence(d)
  BY DEF KeptCadence
<1>6. [i \in DOMAIN k |-> Field(k[i].name, Parsed(k[i].spec))] = k
  BY AcceptedParts, KeptFieldsComeBack DEF KeptFields
<1> HIDE DEF k, seeds, inserts
<1>7. Kept(b) = [b EXCEPT !.intervalSeconds = KeptInterval(d), !.cadence = KeptCadence(d),
                          !.seedRows = KeptSeeds(d), !.insertsPerTick = KeptInserts(d),
                          !.fields = k]
  <2>1. /\ b.intervalSeconds = KeptInterval(d) /\ b.cadence = SentCadence(d)
        /\ b.seedRows = seeds /\ b.insertsPerTick = inserts /\ b.fields = k
    OBVIOUS
  <2> HIDE DEF b
  <2>2. /\ Or(b.intervalSeconds, 10 * One) = KeptInterval(d) /\ Or(b.cadence, "interval") = KeptCadence(d)
        /\ Or(b.seedRows, 0) = KeptSeeds(d) /\ Or(b.insertsPerTick, One) = KeptInserts(d)
        /\ [i \in DOMAIN b.fields |-> Field(b.fields[i].name, Parsed(b.fields[i].spec))] = k
    BY <1>3, <1>4, <1>5, <1>6, <2>1
  <2>3. Kept(b) = [b EXCEPT !.intervalSeconds = Or(b.intervalSeconds, 10 * One),
                            !.cadence = Or(b.cadence, "interval"), !.seedRows = Or(b.seedRows, 0),
                            !.insertsPerTick = Or(b.insertsPerTick, One),
                            !.fields = [i \in DOMAIN b.fields |->
                                          Field(b.fields[i].name, Parsed(b.fields[i].spec))]]
    BY DEF Kept
  <2> QED
    BY <2>2, <2>3
<1> QED
  BY <1>1, <1>2, <1>7

LEMMA AgainIsTaken ==
    ASSUME NEW d, Accepted(d)
    PROVE  simulationInputSchema(toInput(Again(d)))
<1> DEFINE b == toInput(Again(d))
           k == KeptFields(d.fields)
<1>1. /\ b.name = d.name /\ b.origin = d.origin
      /\ b.transport = d.transport /\ b.intervalSeconds = KeptInterval(d)
      /\ b.fields = k /\ b.table = SentTable(d)
      /\ b.seedRows = IF isSql(d) THEN KeptSeeds(d) ELSE Undefined
      /\ b.insertsPerTick = IF isSql(d) THEN KeptInserts(d) ELSE Undefined
      /\ b.maxRows = SentLimit(d) /\ b.cadence = SentCadence(d)
  BY AgainIsSent
<1> DEFINE c == toInput(d)
<1>2. /\ c.name = SentName(d) /\ c.origin = d.origin
      /\ c.transport = d.transport /\ c.table = SentTable(d) /\ c.fields = d.fields
      /\ c.maxRows = SentLimit(d) /\ c.cadence = SentCadence(d)
  BY Sent, AcceptedParts
<1>3. /\ TextsTaken(c) /\ d.name # "" /\ transportSchema(d.transport) /\ refined(c) /\ \A table \in SentTable(d) : table.primaryKey # ""
      /\ LimitTaken(c)
  BY AcceptedParts, Zenon
<1>4. /\ Names(k) = Names(d.fields) /\ DOMAIN k = DOMAIN d.fields
      /\ \A i \in DOMAIN k : generatorSpecSchema(k[i].spec)
  BY AcceptedParts, KeptFieldsAre, KeptFieldsComeBack
<1> SUFFICES simulationInputSchema(b)
  OBVIOUS
<1> HIDE DEF b, c, k
<1>5. IntervalTaken(b)
  BY <1>1, KeptNumbers DEF IntervalTaken, sentOr, isNumber
<1>6. SeedsTaken(b) /\ InsertsTaken(b) /\ LimitTaken(b)
  <2>1. LimitTaken(b)
    <3>1. b.maxRows = c.maxRows /\ LimitTaken(c)
      BY <1>1, <1>2, <1>3, Zenon
    <3> QED
      BY <3>1 DEF LimitTaken
  <2>2. wholeIn(KeptSeeds(d), 0, 10000) /\ wholeIn(KeptInserts(d), 0, 100)
    BY KeptNumbers
  <2>3. SeedsTaken(b) /\ InsertsTaken(b)
    BY <1>1, <2>2 DEF SeedsTaken, InsertsTaken, sentOr
  <2> QED
    BY <2>1, <2>3
<1>7. scenarioSchema(b)
  <2>1. \A i \in DOMAIN b.fields : generatorSpecSchema(b.fields[i].spec)
    BY <1>1, <1>4
  <2>2. \A table \in b.table : table.primaryKey # ""
    BY <1>1, <1>3, Zenon
  <2> QED
    BY <1>5, <1>6, <2>1, <2>2, ScenarioIs, Zenon
<1>8. refined(b)
  <2>1. /\ b.transport = c.transport /\ b.table = c.table /\ b.maxRows = c.maxRows /\ b.cadence = c.cadence
        /\ Names(b.fields) = Names(c.fields)
    BY <1>1, <1>2, <1>4
  <2>2. refined(c)
    BY <1>3, Zenon
  <2> QED
    BY <2>1, <2>2, Zenon DEF refined
<1>9. transportSchema(b.transport)
  BY <1>1, <1>3, Zenon
<1>10. TextsTaken(b)
  <2>1. b.name = c.name /\ b.origin = c.origin
    BY <1>1, <1>2, <1>3, Zenon DEF SentName
  <2> QED
    BY <1>3, <2>1, Zenon DEF TextsTaken
<1> QED
  BY <1>7, <1>8, <1>9, <1>10, SchemaIs, Zenon

\* What was saved of a draft comes back.
LEMMA SavedComesBack ==
    ASSUME NEW d, Accepted(d)
    PROVE  ComesBack(Kept(toInput(d)))
BY AgainIsTaken, AgainIsKept DEF ComesBack, Again

-----------------------------------------------------------------------------
(* Names that occur twice: what is sent is a list of fields all the same.  *)

LEMMA LastNamedIs ==
    ASSUME NEW f, FieldList(f), NEW i \in DOMAIN f
    PROVE  IsField(LastNamed(f, f[i].name))
<1> DEFINE S == {j \in DOMAIN f : f[j].name = f[i].name}
           IsLast(j) == f[j].name = f[i].name /\ \A l \in DOMAIN f : f[l].name = f[i].name => l <= j
<1>1. Len(f) \in Nat /\ DOMAIN f = 1 .. Len(f) /\ \A j \in DOMAIN f : IsField(f[j])
  BY ListOf
<1>2. S \in SUBSET (1 .. Len(f)) /\ S # {}
  BY <1>1
<1>3. PICK j \in S : \A l \in S : l <= j
  <2> HIDE DEF S
  <2> QED
    BY <1>1, <1>2, LastPlace
<1>4. j \in DOMAIN f /\ IsLast(j)
  BY <1>3
<1>5. (CHOOSE p \in DOMAIN f : IsLast(p)) \in DOMAIN f
  <2> HIDE DEF IsLast
  <2> QED
    BY <1>4
<1> QED
  BY <1>1, <1>5 DEF LastNamed

LEMMA WiredIsShaped ==
    ASSUME NEW s, Shaped(s)
    PROVE  Shaped(OnWire(s))
<1> DEFINE w == OnWire(s)
<1>1. /\ w.kind = s.kind /\ DOMAIN w = DOMAIN s /\ w = [key \in DOMAIN w |-> w[key]]
      /\ \A key \in DOMAIN s \cap Numeric : w[key] = Wire(s[key])
      /\ \A key \in DOMAIN s \ (Numeric \cup {"peakHours"}) : w[key] = s[key]
      /\ "peakHours" \in DOMAIN s => w.peakHours = [i \in DOMAIN s.peakHours |-> Wire(s.peakHours[i])]
  BY OnWireFields
<1> SUFFICES Shaped(w)
  OBVIOUS
<1> HIDE DEF w
<1>2. w.kind \in Kinds /\ DOMAIN w = DOMAIN defaultSpec(w.kind)
  BY <1>1 DEF Shaped, SettingOr
<1>3. \A key \in DOMAIN w \cap Numeric : w[key] \in Int \cup {Undefined, NaN, Null}
  <2>1. \A key \in DOMAIN s \cap Numeric : s[key] \in Int \cup {Undefined, NaN, Null}
    BY DEF Shaped, SettingOr, isNumber
  <2> QED
    BY <1>1, <2>1 DEF Wire
<1>4. "integer" \in DOMAIN w => w.integer \in BOOLEAN \cup {Undefined}
  <2>1. "integer" \in DOMAIN s => s.integer \in BOOLEAN \cup {Undefined}
    BY DEF Shaped, SettingOr
  <2>2. "integer" \notin Numeric \cup {"peakHours"}
    BY DEF Numeric
  <2> QED
    BY <1>1, <2>1, <2>2
<1>5. "peakHours" \in DOMAIN w => w.peakHours = [i \in DOMAIN w.peakHours |-> w.peakHours[i]]
  BY <1>1
<1> QED
  BY <1>1, <1>2, <1>3, <1>4, <1>5 DEF Shaped, SettingOr, isNumber

\* What is sent of a list of fields is a list of fields.
LEMMA SentIsList ==
    ASSUME NEW d, FieldList(d.fields)
    PROVE  FieldList(SentFields(d))
<1> DEFINE f == d.fields
           n == Cardinality(Firsts(f))
           s == SentFields(d)
<1>1. Len(f) \in Nat /\ DOMAIN f = 1 .. Len(f)
  BY ListOf
<1> HIDE DEF f
<1>2. Firsts(f) \in SUBSET (1 .. Len(f))
  BY <1>1 DEF Firsts
<1>3. n \in Nat
  <2>1. IsFiniteSet(1 .. Len(f))
    BY <1>1, FS_Interval
  <2>2. IsFiniteSet(Firsts(f))
    BY <1>2, <2>1, FS_Subset
  <2> QED
    BY <2>2, FS_CardinalityType
<1>4. \A k \in 1 .. n : IsField(LastNamed(f, f[Nth(Firsts(f), k)].name))
  <2> TAKE k \in 1 .. n
  <2>1. Nth(Firsts(f), k) \in DOMAIN f
    BY <1>1, <1>2, NthPlace
  <2>2. FieldList(f)
    BY DEF f
  <2> QED
    BY <2>1, <2>2, LastNamedIs
<1>5. /\ DOMAIN Merged(f) = 1 .. n
      /\ \A k \in 1 .. n : Merged(f)[k] = LastNamed(f, f[Nth(Firsts(f), k)].name)
  BY DEF Merged
<1>6. /\ s = [k \in 1 .. n |-> s[k]]
      /\ \A k \in 1 .. n : s[k] = Field(Merged(f)[k].name, OnWire(Merged(f)[k].spec))
  BY <1>5 DEF SentFields, f
<1> HIDE DEF n, s
<1>7. \A k \in 1 .. n : IsField(s[k])
  BY <1>4, <1>5, <1>6, WiredIsShaped, FieldMade DEF IsField
<1>8. FieldList(s)
  BY <1>3, <1>6, <1>7, ListMade
<1> QED
  BY <1>8 DEF s

-----------------------------------------------------------------------------
(* The drafts a page may hold.                                             *)

LEMMA TextIsList ==
    ASSUME NEW d, Drafted(d)
    PROVE  FieldList(toInput(d).fields)
<1>1. toInput(d).fields = SentFields(d)
  BY Sent
<1> QED
  BY <1>1, SentIsList DEF Drafted

LEMMA SameParts ==
    ASSUME NEW d, Drafted(d), NEW e, DOMAIN e = DOMAIN d, e.name = d.name, e.fields = d.fields
    PROVE  Drafted(e)
BY Zenon DEF Drafted

LEMMA NewName ==
    ASSUME NEW d, Drafted(d), NEW name, name \notin {Undefined, Null}, NEW e, DOMAIN e = DOMAIN d,
           e.name = name, e.fields = d.fields
    PROVE  Drafted(e)
BY Zenon DEF Drafted

LEMMA NewFields ==
    ASSUME NEW d, Drafted(d), NEW fields, FieldList(fields), NEW e, DOMAIN e = DOMAIN d,
           e.name = d.name, e.fields = fields
    PROVE  Drafted(e)
BY Zenon DEF Drafted

LEMMA PairIsList ==
    ASSUME NEW a, NEW b, IsField(a), IsField(b)
    PROVE  FieldList(<<a, b>>)
<1> DEFINE f == <<a, b>>
<1>1. f \in Seq({a, b}) /\ \A i \in DOMAIN f : f[i] = a \/ f[i] = b
  OBVIOUS
<1> HIDE DEF f
<1>2. FieldList(f)
  BY <1>1, ListFrom
<1> QED
  BY <1>2 DEF f

LEMMA TripleIsList ==
    ASSUME NEW a, NEW b, NEW c, IsField(a), IsField(b), IsField(c)
    PROVE  FieldList(<<a, b, c>>)
<1> DEFINE f == <<a, b, c>>
<1>1. f \in Seq({a, b, c}) /\ \A i \in DOMAIN f : f[i] = a \/ f[i] = b \/ f[i] = c
  OBVIOUS
<1> HIDE DEF f
<1>2. FieldList(f)
  BY <1>1, ListFrom
<1> QED
  BY <1>2 DEF f

LEMMA NowIsSetting == Setting([kind |-> "now"])
BY DEF Setting, SettingOr, Kinds, defaultSpec, Numeric

LEMMA ConstantIsSetting ==
    ASSUME NEW v
    PROVE  Setting([kind |-> "constant", value |-> v])
BY DEF Setting, SettingOr, Kinds, defaultSpec, Numeric

LEMMA EnumIsSetting ==
    ASSUME NEW v
    PROVE  Setting([kind |-> "enum", values |-> v])
BY DEF Setting, SettingOr, Kinds, defaultSpec, Numeric

LEMMA SequenceIsSetting ==
    ASSUME NEW n \in Int
    PROVE  Setting([kind |-> "sequence", start |-> One, padTo |-> n])
BY DEF Setting, SettingOr, Kinds, defaultSpec, Numeric, isNumber, One

LEMMA JitterIsSetting ==
    ASSUME NEW center \in Int
    PROVE  Setting([kind |-> "jitter", spread |-> 1, precision |-> 6 * One, center |-> center])
BY DEF Setting, SettingOr, Kinds, defaultSpec, Numeric, isNumber, One

LEMMA WalkIsSetting ==
    ASSUME NEW min \in Int, NEW max \in Int, NEW step \in Int, NEW start \in Int, NEW integer \in BOOLEAN
    PROVE  Setting([kind |-> "randomWalk", min |-> min, max |-> max, step |-> step, start |-> start,
                   integer |-> integer])
BY DEF Setting, SettingOr, Kinds, defaultSpec, Numeric, isNumber

LEMMA CurveIsSetting ==
    ASSUME NEW min \in Int, NEW max \in Int, NEW integer \in BOOLEAN
    PROVE  Setting([kind |-> "dailyProfile", min |-> min, max |-> max,
                   peakHours |-> <<8 * One, 17 * One>>, noise |-> 3, integer |-> integer])
<1> DEFINE s == [kind |-> "dailyProfile", min |-> min, max |-> max,
                 peakHours |-> <<8 * One, 17 * One>>, noise |-> 3, integer |-> integer]
<1>1. /\ s.kind = "dailyProfile" /\ s = [key \in DOMAIN s |-> s[key]]
      /\ DOMAIN s = {"kind", "min", "max", "peakHours", "noise", "integer"}
      /\ s.min \in Int /\ s.max \in Int /\ s.noise \in Int /\ s.integer \in BOOLEAN
      /\ s.peakHours = [i \in DOMAIN s.peakHours |-> s.peakHours[i]]
  OBVIOUS
<1> SUFFICES Setting(s)
  OBVIOUS
<1> HIDE DEF s
<1>2. DOMAIN s = DOMAIN defaultSpec(s.kind)
  BY <1>1 DEF defaultSpec
<1> QED
  BY <1>1, <1>2 DEF Setting, SettingOr, Kinds, Numeric, isNumber

LEMMA StartingFields == FieldList(MQTT_FIELDS) /\ FieldList(SQL_FIELDS) /\ IsField(SQL_FIELDS[1])
<1>1. FieldList(MQTT_FIELDS)
  BY NowIsSetting, ConstantIsSetting, SettingIsShaped, FieldMade, PairIsList DEF MQTT_FIELDS
<1>2. IsField(Field("id", [kind |-> "sequence", start |-> One, padTo |-> 5 * One]))
  <2>1. 5 * One \in Int
    BY DEF One
  <2> QED
    BY <2>1, SequenceIsSetting, SettingIsShaped, FieldMade
<1>3. IsField(Field("erfasst_am", [kind |-> "now"]))
  BY NowIsSetting, SettingIsShaped, FieldMade
<1>4. IsField(Field("messwert", defaultSpec("randomWalk")))
  <2>1. Setting(defaultSpec("randomWalk"))
    BY DefaultIsSetting DEF Kinds
  <2> QED
    BY <2>1, SettingIsShaped, FieldMade
<1>5. FieldList(SQL_FIELDS)
  BY <1>2, <1>3, <1>4, TripleIsList DEF SQL_FIELDS
<1>6. IsField(SQL_FIELDS[1])
  <2>1. SQL_FIELDS[1] = Field("id", [kind |-> "sequence", start |-> One, padTo |-> 5 * One])
    BY DEF SQL_FIELDS
  <2> QED
    BY <1>2, <2>1
<1> QED
  BY <1>1, <1>5, <1>6

\* The generator suggested for a property whose bounds are numbers, if it has any.
LEMMA SuggestionIsSetting ==
    ASSUME NEW p, p.minimum \in Int \cup {Undefined}, p.maximum \in Int \cup {Undefined}
    PROVE  Setting(suggestSpec(p))
<1> DEFINE min == Or(p.minimum, 0)
           max == Or(p.maximum, 100 * One)
           integer == p.type = "integer"
           daily == dailyMax(max)
           step == Larger((max - min) \div 40, IF integer THEN One ELSE 2)
           start == min + (max - min) \div 2
<1>1. min \in Int /\ max \in Int /\ integer \in BOOLEAN
  BY NoValues DEF Or, One
<1> HIDE DEF min, max
<1>2. daily \in Int
  <2>1. (max * 2) \div 5 \in Int
    BY <1>1
  <2> QED
    BY <2>1, RoundStays DEF dailyMax
<1>3. step \in Int /\ start \in Int
  <2>1. (max - min) \div 40 \in Int /\ (max - min) \div 2 \in Int
    BY <1>1
  <2> QED
    BY <1>1, <2>1 DEF Larger, One
<1> HIDE DEF integer, daily, step, start
<1>4. Setting(suggestNumber(p))
  <2>1. suggestNumber(p) = IF p.name \in CountLike
          THEN [kind |-> "dailyProfile", min |-> min, max |-> daily,
                peakHours |-> <<8 * One, 17 * One>>, noise |-> 3, integer |-> integer]
          ELSE [kind |-> "randomWalk", min |-> min, max |-> max, step |-> step, start |-> start,
                integer |-> integer]
    BY Zenon DEF suggestNumber, min, max, integer, daily, step, start
  <2> QED
    BY <1>1, <1>2, <1>3, <2>1, WalkIsSetting, CurveIsSetting
<1>5. 4 * One \in Int /\ MUSTERHAUSEN.lat \in Int /\ MUSTERHAUSEN.lon \in Int
  BY DEF One, MUSTERHAUSEN
<1>6. \/ suggestSpec(p) = [kind |-> "sequence", start |-> One, padTo |-> 4 * One]
      \/ suggestSpec(p) = [kind |-> "now"]
      \/ \E values : suggestSpec(p) = [kind |-> "enum", values |-> values]
      \/ \E center \in {MUSTERHAUSEN.lat, MUSTERHAUSEN.lon} :
           suggestSpec(p) = [kind |-> "jitter", spread |-> 1, precision |-> 6 * One, center |-> center]
      \/ \E value : suggestSpec(p) = [kind |-> "constant", value |-> value]
      \/ suggestSpec(p) = suggestNumber(p)
  BY Zenon DEF suggestSpec
<1> QED
  BY <1>4, <1>5, <1>6, SequenceIsSetting, NowIsSetting, EnumIsSetting, JitterIsSetting, ConstantIsSetting

\* The name of an empty draft is a text.
LEMMA NoNameIsText == "" \notin {Undefined, Null}
BY NoTexts, Zenon

LEMMA EmptyIsDrafted ==
    ASSUME NEW broker
    PROVE  Drafted(emptyDraft(broker))
<1> DEFINE blank(name) ==
             [name |-> name, origin |-> Undefined, enabled |-> FALSE, transport |-> Mqtt(broker, <<>>),
              intervalSeconds |-> 10 * One, cadence |-> Undefined, fields |-> MQTT_FIELDS,
              primaryKey |-> Undefined, seedRows |-> Undefined, insertsPerTick |-> Undefined,
              maxRows |-> Undefined]
<1>1. emptyDraft(broker) = blank("")
  BY Zenon DEF emptyDraft
<1>2. \A name : name \notin {Undefined, Null} => Drafted(blank(name))
  BY StartingFields DEF Drafted
<1> HIDE DEF blank
<1> QED
  BY <1>1, <1>2, NoNameIsText, Zenon

\* Names that may be missing from a body become texts.
LEMMA NameReadIsText ==
    ASSUME NEW b
    PROVE  NameRead(b) \notin {Undefined, Null}
BY NoNameIsText, Zenon DEF NameRead, Or

LEMMA JsonIsDrafted ==
    ASSUME NEW body, FieldList(body.fields)
    PROVE  Drafted(fromJson(body))
<1> DEFINE b(name) ==
             [name |-> name, origin |-> body.origin, enabled |-> body.enabled,
              transport |-> parsedTransport(body.transport),
              intervalSeconds |-> Or(num(body.intervalSeconds), 10 * One),
              cadence |-> fillIn(body), fields |-> body.fields, primaryKey |-> keyIn(body.table),
              seedRows |-> num(body.seedRows), insertsPerTick |-> num(body.insertsPerTick),
              maxRows |-> num(body.maxRows)]
<1>1. fromJson(body) = b(NameRead(body))
  BY Zenon DEF fromJson, NameRead
<1>2. \A name : name \notin {Undefined, Null} => Drafted(b(name))
  BY DEF Drafted
<1> HIDE DEF b
<1> QED
  BY <1>1, <1>2, NameReadIsText, Zenon

LEMMA StoredIsDrafted ==
    ASSUME NEW input, FieldList(input.fields)
    PROVE  Drafted(toDraft(input))
<1> DEFINE b(name) ==
             [name |-> name, origin |-> input.origin, enabled |-> input.enabled,
              transport |-> input.transport, intervalSeconds |-> input.intervalSeconds,
              cadence |-> input.cadence, fields |-> input.fields, primaryKey |-> keyIn(input.table),
              seedRows |-> input.seedRows, insertsPerTick |-> input.insertsPerTick,
              maxRows |-> input.maxRows]
<1>1. toDraft(input) = b(NameRead(input))
  BY Zenon DEF toDraft, NameRead
<1>2. \A name : name \notin {Undefined, Null} => Drafted(b(name))
  BY DEF Drafted
<1> HIDE DEF b
<1> QED
  BY <1>1, <1>2, NameReadIsText, Zenon

SuggestedFields(ds) == [i \in DOMAIN supported(ds) |-> Field(supported(ds)[i].name, suggestSpec(supported(ds)[i]))]

\* The properties that make fields, in their order.
LEMMA SupportedIs ==
    ASSUME NEW ds, Readings(ds)
    PROVE  /\ Len(supported(ds)) \in Nat /\ DOMAIN supported(ds) = 1 .. Len(supported(ds))
           /\ \A k \in DOMAIN supported(ds) : \E i \in DOMAIN ds.properties :
                supported(ds)[k] = ds.properties[i] /\ ~ds.properties[i].unsupported
           /\ \A i \in DOMAIN ds.properties :
                ~ds.properties[i].unsupported => \E k \in DOMAIN supported(ds) : supported(ds)[k] = ds.properties[i]
<1> DEFINE all == ds.properties
           S == {i \in DOMAIN all : ~all[i].unsupported}
           n == Len(all)
<1>1. n \in Nat /\ DOMAIN all = 1 .. n
  <2>1. all \in Seq({all[i] : i \in DOMAIN all})
    BY DEF Readings
  <2> HIDE DEF all
  <2> QED
    BY <2>1
<1>2. supported(ds) = Listed(all, S)
  BY DEF supported
<1>3. S \in SUBSET (1 .. n) /\ \A i \in DOMAIN all : i \in S <=> ~all[i].unsupported
  BY <1>1
<1> HIDE DEF all, S, n
<1>4. /\ Cardinality(S) \in Nat /\ DOMAIN Listed(all, S) = 1 .. Cardinality(S)
      /\ Listed(all, S) = [k \in 1 .. Cardinality(S) |-> Listed(all, S)[k]]
      /\ \A k \in 1 .. Cardinality(S) : Listed(all, S)[k] = all[Nth(S, k)] /\ Nth(S, k) \in S
      /\ \A i \in S : \E k \in 1 .. Cardinality(S) : Nth(S, k) = i
  BY <1>1, <1>3, ListedIs
<1>5. Len(Listed(all, S)) = Cardinality(S)
  <2> DEFINE list == Listed(all, S)
             m == Cardinality(S)
  <2>1. m \in Nat /\ list = [k \in 1 .. m |-> list[k]]
    BY <1>4
  <2> HIDE DEF list, m
  <2>2. list \in Seq({list[k] : k \in 1 .. m}) /\ DOMAIN list = 1 .. m
    BY <2>1, SeqMade
  <2>3. Len(list) = m
    BY <2>1, <2>2
  <2> QED
    BY <2>3 DEF list, m
<1>6. \A k \in DOMAIN supported(ds) : \E i \in DOMAIN all : supported(ds)[k] = all[i] /\ ~all[i].unsupported
  BY <1>1, <1>2, <1>3, <1>4
<1>7. \A i \in DOMAIN all : ~all[i].unsupported => \E k \in DOMAIN supported(ds) : supported(ds)[k] = all[i]
  BY <1>2, <1>3, <1>4
<1> QED
  BY <1>2, <1>4, <1>5, <1>6, <1>7 DEF all

LEMMA SuggestedIsList ==
    ASSUME NEW ds, Readings(ds)
    PROVE  /\ FieldList(SuggestedFields(ds))
           /\ \A i \in DOMAIN SuggestedFields(ds) : Setting(SuggestedFields(ds)[i].spec)
<1> DEFINE kept == supported(ds)
           f == SuggestedFields(ds)
<1>1. /\ Len(kept) \in Nat /\ DOMAIN kept = 1 .. Len(kept)
      /\ \A i \in DOMAIN kept : kept[i].minimum \in Int \cup {Undefined} /\ kept[i].maximum \in Int \cup {Undefined}
  <2>1. \A i \in DOMAIN ds.properties : ds.properties[i].minimum \in Int \cup {Undefined} /\ ds.properties[i].maximum \in Int \cup {Undefined}
    BY DEF Readings
  <2>2. /\ Len(kept) \in Nat /\ DOMAIN kept = 1 .. Len(kept)
        /\ \A k \in DOMAIN kept : \E i \in DOMAIN ds.properties : kept[k] = ds.properties[i]
    BY SupportedIs
  <2> HIDE DEF kept
  <2> QED
    BY <2>1, <2>2
<1>2. /\ DOMAIN f = DOMAIN kept /\ f = [i \in DOMAIN kept |-> f[i]]
      /\ \A i \in DOMAIN kept : f[i] = Field(kept[i].name, suggestSpec(kept[i]))
  BY DEF SuggestedFields
<1> HIDE DEF kept, f
<1>3. \A i \in DOMAIN kept : Setting(suggestSpec(kept[i]))
  BY <1>1, SuggestionIsSetting
<1>4. \A i \in DOMAIN kept : IsField(f[i]) /\ f[i].spec = suggestSpec(kept[i])
  BY <1>2, <1>3, SettingIsShaped, FieldMade
<1>5. FieldList(f)
  BY <1>1, <1>2, <1>4, ListMade
<1> QED
  BY <1>2, <1>3, <1>4, <1>5 DEF f

\* The table suggested for a structure with a key.
SuggestedRows(d, ds) ==
  /\ d.transport = Sql(ds.name) /\ d.primaryKey = keyOf(ds) /\ d.intervalSeconds = 60 * One
  /\ d.seedRows = 100 * One /\ d.insertsPerTick = One /\ d.maxRows = 5000 * One

\* A suggested draft belongs to the structure, which is named and not too long.
SuggestedOrigin(ds) == [dataStructure |-> ArtifactRef(ds.name, ds.urn, Undefined), dataSource |-> Undefined]
Referable(ds) == {ds.name, ds.urn} \cap (TooLong \cup {""}) = {}

LEMMA SuggestedOriginIsTaken ==
    ASSUME NEW ds, Readings(ds), Referable(ds)
    PROVE  originSchema(SuggestedOrigin(ds))
<1> DEFINE ref == ArtifactRef(ds.name, ds.urn, Undefined)
<1>1. ref.name = ds.name /\ ref.urn = ds.urn /\ ref.id = Undefined
  BY DEF ArtifactRef
<1>2. ds.name \notin TooLong \cup {"", Undefined} /\ ds.urn \notin TooLong \cup {""}
  BY DEF Readings, Referable
<1>3. Undefined \notin TooLong \cup {""}
  BY LongTexts, NoTexts
<1> HIDE DEF ref
<1>4. artifactRefSchema(ref)
  BY <1>1, <1>2, <1>3 DEF artifactRefSchema
<1>5. SuggestedOrigin(ds).dataStructure = ref /\ SuggestedOrigin(ds).dataSource = Undefined
  BY DEF SuggestedOrigin, ref
<1> QED
  BY <1>4, <1>5 DEF originSchema, sentOr

LEMMA SuggestedIs ==
    ASSUME NEW ds, NEW broker
    PROVE  /\ draftFromDataStructure(ds, broker).cadence = Undefined
           /\ keyOf(ds) # Undefined => SuggestedRows(draftFromDataStructure(ds, broker), ds)
           /\ keyOf(ds) = Undefined =>
                /\ draftFromDataStructure(ds, broker).transport = Mqtt(broker, topicFor(ds.name))
                /\ draftFromDataStructure(ds, broker).intervalSeconds = 10 * One
           /\ DOMAIN draftFromDataStructure(ds, broker) =
                {"name", "origin", "enabled", "transport", "intervalSeconds", "cadence", "fields",
                 "primaryKey", "seedRows", "insertsPerTick", "maxRows"}
           /\ draftFromDataStructure(ds, broker).name = ds.name
           /\ draftFromDataStructure(ds, broker).origin = SuggestedOrigin(ds)
           /\ draftFromDataStructure(ds, broker).fields = SuggestedFields(ds)
<1> DEFINE table == keyOf(ds) # Undefined
           rows(n) == IF table THEN n * One ELSE Undefined
           way == IF table THEN Sql(ds.name) ELSE Mqtt(broker, topicFor(ds.name))
           interval == IF table THEN 60 * One ELSE 10 * One
           made(w, i, a, b, c) ==
             [name |-> ds.name, origin |-> SuggestedOrigin(ds), enabled |-> FALSE,
              transport |-> w, intervalSeconds |-> i, cadence |-> Undefined,
              fields |-> SuggestedFields(ds), primaryKey |-> keyOf(ds),
              seedRows |-> a, insertsPerTick |-> b, maxRows |-> c]
<1>1. draftFromDataStructure(ds, broker) = made(way, interval, rows(100), rows(1), rows(5000))
  BY Zenon DEF draftFromDataStructure, SuggestedFields, SuggestedOrigin
<1> DEFINE seeds == rows(100)
           inserts == rows(1)
           limit == rows(5000)
           result == made(way, interval, seeds, inserts, limit)
<1> HIDE DEF way, interval, seeds, inserts, limit
<1>2. /\ DOMAIN result =
           {"name", "origin", "enabled", "transport", "intervalSeconds", "cadence", "fields",
            "primaryKey", "seedRows", "insertsPerTick", "maxRows"}
      /\ result.name = ds.name /\ result.fields = SuggestedFields(ds) /\ result.origin = SuggestedOrigin(ds)
      /\ result.cadence = Undefined /\ result.primaryKey = keyOf(ds)
      /\ result.transport = way /\ result.intervalSeconds = interval
      /\ result.seedRows = seeds /\ result.insertsPerTick = inserts /\ result.maxRows = limit
  OBVIOUS
<1>3. draftFromDataStructure(ds, broker) = result
  BY <1>1, Zenon DEF seeds, inserts, limit
<1>4. table => /\ way = Sql(ds.name) /\ interval = 60 * One
               /\ seeds = 100 * One /\ inserts = One /\ limit = 5000 * One
  <2>1. 1 * One = One
    BY DEF One
  <2>2. table => seeds = 100 * One
    BY Zenon DEF seeds
  <2>3. table => inserts = 1 * One
    BY Zenon DEF inserts
  <2>4. table => limit = 5000 * One
    BY DEF limit
  <2>5. table => way = Sql(ds.name) /\ interval = 60 * One
    BY Zenon DEF way, interval
  <2> HIDE DEF table
  <2> QED
    BY <2>1, <2>2, <2>3, <2>4, <2>5
<1>5. ~table => way = Mqtt(broker, topicFor(ds.name)) /\ interval = 10 * One
  BY DEF way, interval
<1> HIDE DEF result, table
<1>6. table => SuggestedRows(result, ds)
  BY <1>2, <1>4 DEF SuggestedRows
<1>7. ~table => result.transport = Mqtt(broker, topicFor(ds.name)) /\ result.intervalSeconds = 10 * One
  BY <1>2, <1>5, Zenon
<1> QED
  BY <1>2, <1>3, <1>6, <1>7, Zenon DEF table

LEMMA SuggestedIsDrafted ==
    ASSUME NEW ds, Readings(ds), NEW broker
    PROVE  Drafted(draftFromDataStructure(ds, broker))
<1>1. ds.name \notin {Undefined, Null}
  BY Zenon DEF Readings
<1> QED
  BY <1>1, SuggestedIs, SuggestedIsList DEF Drafted

LEMMA BoundIsDrafted ==
    ASSUME NEW d, Drafted(d), NEW source, Feeds(source)
    PROVE  Drafted(bindToDataSource(d, source))
<1> DEFINE bound == [d EXCEPT !.origin.dataSource = ArtifactRef(source.name, source.urn, source.id)]
           table == [bound EXCEPT !.name = source.name, !.transport = Sql(source.table),
                         !.seedRows = Or(@, 100 * One), !.insertsPerTick = Or(@, One),
                         !.maxRows = Or(@, 5000 * One),
                         !.intervalSeconds = IF @ \in {0, NaN} THEN 60 * One ELSE @]
           topic == [bound EXCEPT !.name = source.name,
                         !.transport = Mqtt(IF isSql(d) THEN "" ELSE d.transport.url,
                                            topicUnder(source))]
<1>1. bindToDataSource(d, source) \in {table, topic, bound}
  BY Zenon DEF bindToDataSource
<1>2. source.name \notin {Undefined, Null}
  BY DEF Feeds
<1>3. DOMAIN bound = DOMAIN d /\ bound.name = d.name /\ bound.fields = d.fields
  BY DEF Drafted
<1> HIDE DEF bound
<1>4. Drafted(bound)
  BY <1>3, SameParts
<1>5. DOMAIN table = DOMAIN bound /\ table.name = source.name /\ table.fields = bound.fields
  BY <1>4 DEF Drafted
<1>6. DOMAIN topic = DOMAIN bound /\ topic.name = source.name /\ topic.fields = bound.fields
  <2> DEFINE way == Mqtt(IF isSql(d) THEN "" ELSE d.transport.url, topicUnder(source))
  <2> HIDE DEF way
  <2>1. topic = [bound EXCEPT !.name = source.name, !.transport = way]
    BY Zenon DEF way
  <2>2. DOMAIN [bound EXCEPT !.name = source.name, !.transport = way] = DOMAIN bound
    OBVIOUS
  <2> HIDE DEF topic
  <2> QED
    BY <1>4, <2>1 DEF Drafted
<1> HIDE DEF table, topic
<1>7. Drafted(table) /\ Drafted(topic)
  BY <1>2, <1>4, <1>5, <1>6, NewName
<1> QED
  BY <1>1, <1>4, <1>7

-----------------------------------------------------------------------------
(* The invariant: what the form, the text, the service and the requests    *)
(* hold.                                                                   *)

StoreFits(stored) == /\ DOMAIN stored = Ids
                     /\ \A id \in Ids : stored[id] # None => FieldList(stored[id].fields)

\* A request carries what was sent of a draft that passed the check.
RequestFits(r) == /\ "body" \in DOMAIN r
                  /\ \E d : Drafted(d) /\ validate(d) = {} /\ r.body = toInput(d)
RequestsFit(q) == /\ q \in Seq({q[i] : i \in DOMAIN q})
                  /\ \A i \in DOMAIN q : RequestFits(q[i])

FormInv == /\ Drafted(draft) /\ TextFits(jsonText)
           /\ StoreFits(sims) /\ RequestsFit(requests)

\* Every configuration the editor can have saved comes back to it.
StoreReturns(stored) == \A id \in Ids : (stored[id] # None /\ stored[id].extras = {}) => ComesBack(stored[id])

\* What the service holds at first: without settings that only other callers send
\* it was saved from the editor.
StoredByEditor ==
  \A stored \in FirstStored, id \in Ids :
    (stored[id] # None /\ stored[id].extras = {}) => \E d : Accepted(d) /\ stored[id] = Kept(toInput(d))

LEMMA TextFitsDraft ==
    ASSUME NEW d, Drafted(d)
    PROVE  TextFits(toInput(d))
<1>1. "fields" \in DOMAIN toInput(d)
  BY Sent
<1> QED
  BY <1>1, TextIsList DEF TextFits

LEMMA NoTextFits == TextFits(NoText)
BY EmptyIsDrafted, TextFitsDraft DEF NoText

LEMMA FormStarts ==
    ASSUME Init
    PROVE  FormInv
<1>1. Drafted(draft) /\ TextFits(jsonText)
  BY EmptyIsDrafted, NoTextFits, Zenon DEF Init
<1>2. StoreFits(sims)
  BY EditorAssumption, Zenon DEF Init, StoreFits
<1>3. RequestsFit(requests)
  <2>1. requests = <<>>
    BY Zenon DEF Init
  <2> QED
    BY <2>1 DEF RequestsFit
<1> QED
  BY <1>1, <1>2, <1>3 DEF FormInv

\* The form and the text in a step that leaves the service and the requests alone.
LEMMA FormOnly ==
    ASSUME FormInv, Drafted(draft'), TextFits(jsonText'), UNCHANGED <<sims, requests>>
    PROVE  FormInv'
BY Zenon DEF FormInv

LEMMA OpenedFits ==
    ASSUME FormInv, NEW id, NEW initial, initial = None \/ Drafted(initial), NEW from, NEW broker, NEW first,
           Opened(id, initial, from, broker, first)
    PROVE  FormInv'
<1> DEFINE d == IF initial = None THEN emptyDraft(broker) ELSE initial
<1>1. Drafted(d)
  BY EmptyIsDrafted, Zenon
<1>2. draft' = d /\ (jsonText' = toInput(d) \/ jsonText' = NoText) /\ UNCHANGED <<sims, requests>>
  BY Zenon DEF Opened
<1> HIDE DEF d
<1>3. Drafted(draft') /\ TextFits(jsonText')
  BY <1>1, <1>2, TextFitsDraft, NoTextFits, Zenon
<1> QED
  BY <1>2, <1>3, FormOnly

LEMMA OpenFits ==
    ASSUME FormInv, Open
    PROVE  FormInv'
<1>1. PICK first \in {"fields", "json"} :
        OpenNew(BrokerUrl, first) \/ \E id \in Ids : OpenEdit(id, first)
  BY Zenon DEF Open
<1>2. CASE OpenNew(BrokerUrl, first)
  BY <1>2, OpenedFits, Zenon DEF OpenNew
<1>3. CASE \E id \in Ids : OpenEdit(id, first)
  <2>1. PICK id \in Ids : OpenEdit(id, first)
    BY <1>3
  <2>2. sims[id] # None /\ Opened(id, toDraft(sims[id]), None, "", first)
    BY <2>1, Zenon DEF OpenEdit
  <2>3. Drafted(toDraft(sims[id]))
    BY <2>2, StoredIsDrafted, Zenon DEF FormInv, StoreFits
  <2> QED
    BY <2>2, <2>3, OpenedFits, Zenon
<1> QED
  BY <1>1, <1>2, <1>3

LEMMA OpenSuggestedFits ==
    ASSUME FormInv, OpenSuggested
    PROVE  FormInv'
<1>1. PICK readable \in BOOLEAN : \E ds \in getDataStructures(Page, readable, Examples) :
        \/ OpenFrom(ds, BrokerUrl, "fields")
        \/ \E source \in Sources : OpenBound(ds, source, BrokerUrl)
  BY Zenon DEF OpenSuggested
<1>2. PICK ds \in getDataStructures(Page, readable, Examples) :
        \/ OpenFrom(ds, BrokerUrl, "fields")
        \/ \E source \in Sources : OpenBound(ds, source, BrokerUrl)
  BY <1>1
<1>3. Drafted(draftFromDataStructure(ds, BrokerUrl))
  BY EditorAssumption, SuggestedIsDrafted, Zenon
<1>4. CASE OpenFrom(ds, BrokerUrl, "fields")
  BY <1>3, <1>4, OpenedFits, Zenon DEF OpenFrom
<1>5. ASSUME NEW source \in Sources, OpenBound(ds, source, BrokerUrl) PROVE FormInv'
  <2>1. Drafted(bindToDataSource(draftFromDataStructure(ds, BrokerUrl), source))
    BY <1>3, EditorAssumption, BoundIsDrafted, Zenon
  <2> QED
    BY <1>5, <2>1, OpenedFits, Zenon DEF OpenBound
<1> QED
  BY <1>2, <1>4, <1>5

LEMMA LeftFits ==
    ASSUME Left
    PROVE  Drafted(draft') /\ TextFits(jsonText')
BY EmptyIsDrafted, NoTextFits, Zenon DEF Left

LEMMA CancelFits ==
    ASSUME FormInv, Cancel
    PROVE  FormInv'
<1>1. Left /\ UNCHANGED <<sims, requests>>
  BY Zenon DEF Cancel
<1> QED
  BY <1>1, LeftFits, FormOnly

LEMMA EditFits ==
    ASSUME FormInv, NEW next, Drafted(next), Edit(next)
    PROVE  FormInv'
<1>1. draft' = next /\ jsonText' = jsonText /\ UNCHANGED <<sims, requests>>
  BY Zenon DEF Edit
<1>2. Drafted(draft') /\ TextFits(jsonText')
  BY <1>1, Zenon DEF FormInv
<1> QED
  BY <1>1, <1>2, FormOnly

LEMMA EditOnlyFits ==
    ASSUME FormInv, NEW next, Drafted(next), EditOnly(next)
    PROVE  FormInv'
BY EditFits, Zenon DEF EditOnly

\* An edit of anything but the name and the fields.
LEMMA PlainEdits ==
    ASSUME NEW d, Drafted(d), NEW v
    PROVE  /\ Drafted([d EXCEPT !.transport = v]) /\ Drafted([d EXCEPT !.enabled = v])
           /\ Drafted([d EXCEPT !.primaryKey = v]) /\ Drafted([d EXCEPT !.maxRows = v])
           /\ Drafted([d EXCEPT !.cadence = v]) /\ Drafted([d EXCEPT !.seedRows = v])
           /\ Drafted([d EXCEPT !.insertsPerTick = v]) /\ Drafted([d EXCEPT !.intervalSeconds = v])
BY DEF Drafted

LEMMA RenamedIsDrafted ==
    ASSUME NEW d, Drafted(d), NEW name, name \notin {Undefined, Null}, NEW way
    PROVE  Drafted([d EXCEPT !.name = name]) /\ Drafted([d EXCEPT !.name = name, !.transport = way])
BY DEF Drafted

LEMMA setNameFits ==
    ASSUME FormInv, NEW name \in Typed.names, setName(name)
    PROVE  FormInv'
<1> DEFINE way == [draft.transport EXCEPT !.topic = topicFor(name)]
           named == [draft EXCEPT !.name = name]
           both == [draft EXCEPT !.name = name, !.transport = way]
           next == IF ~topicTouched /\ ~isSql(draft)
                   THEN [draft EXCEPT !.name = name, !.transport.topic = topicFor(name)]
                   ELSE [draft EXCEPT !.name = name]
<1>1. EditOnly(next)
  BY DEF setName
<1>2. [draft EXCEPT !.name = name, !.transport.topic = topicFor(name)] = both
  OBVIOUS
<1>3. name \notin {Undefined, Null} /\ Drafted(draft)
  BY EditorAssumption DEF FormInv
<1> HIDE DEF way
<1>4. Drafted(named) /\ Drafted(both)
  BY <1>3, RenamedIsDrafted
<1>5. next = named \/ next = both
  BY <1>2
<1> HIDE DEF next, named, both
<1> QED
  BY <1>1, <1>4, <1>5, EditOnlyFits, Zenon

\* The settings of the way and of the table, the switch and the interval.
LEMMA SettingsFit ==
    ASSUME FormInv, NEW v,
           \/ SetTopic(v) \/ SetUrl(v) \/ SetTable(v) \/ SetEnabled \/ SetPrimaryKey(v) \/ SetSeedRows(v)
           \/ SetInsertsPerTick(v) \/ SetMaxRows(v) \/ SetCadence(v) \/ SetInterval(v)
    PROVE  FormInv'
<1>1. Drafted(draft)
  BY DEF FormInv
<1>2. CASE SetTopic(v)
  <2> DEFINE way == [draft.transport EXCEPT !.topic = v]
  <2>1. [draft EXCEPT !.transport.topic = v] = [draft EXCEPT !.transport = way]
    OBVIOUS
  <2>2. Edit([draft EXCEPT !.transport.topic = v])
    BY <1>2 DEF SetTopic
  <2> HIDE DEF way
  <2> QED
    BY <1>1, <2>1, <2>2, PlainEdits, EditFits
<1>3. CASE SetUrl(v)
  <2> DEFINE way == [draft.transport EXCEPT !.url = v]
  <2>1. [draft EXCEPT !.transport.url = v] = [draft EXCEPT !.transport = way]
    OBVIOUS
  <2>2. EditOnly([draft EXCEPT !.transport.url = v])
    BY <1>3 DEF SetUrl
  <2> HIDE DEF way
  <2> QED
    BY <1>1, <2>1, <2>2, PlainEdits, EditOnlyFits
<1>4. CASE SetTable(v)
  <2>1. EditOnly([draft EXCEPT !.transport = Sql(v)])
    BY <1>4 DEF SetTable
  <2> QED
    BY <1>1, <2>1, PlainEdits, EditOnlyFits
<1>5. CASE SetEnabled
  <2>1. EditOnly([draft EXCEPT !.enabled = ~draft.enabled])
    BY <1>5 DEF SetEnabled
  <2>2. Drafted([draft EXCEPT !.enabled = ~draft.enabled])
    BY <1>1, PlainEdits
  <2> QED
    BY <2>1, <2>2, EditOnlyFits
<1>6. CASE SetPrimaryKey(v)
  BY <1>1, <1>6, PlainEdits, EditOnlyFits, Zenon DEF SetPrimaryKey
<1>7. CASE SetSeedRows(v)
  BY <1>1, <1>7, PlainEdits, EditOnlyFits, Zenon DEF SetSeedRows
<1>8. CASE SetInsertsPerTick(v)
  BY <1>1, <1>8, PlainEdits, EditOnlyFits, Zenon DEF SetInsertsPerTick
<1>9. CASE SetMaxRows(v)
  BY <1>1, <1>9, PlainEdits, EditOnlyFits, Zenon DEF SetMaxRows
<1>10. CASE SetCadence(v)
  BY <1>1, <1>10, PlainEdits, EditOnlyFits, Zenon DEF SetCadence
<1>11. CASE SetInterval(v)
  BY <1>1, <1>11, PlainEdits, EditOnlyFits, Zenon DEF SetInterval
<1> QED
  BY <1>2, <1>3, <1>4, <1>5, <1>6, <1>7, <1>8, <1>9, <1>10, <1>11

LEMMA setFieldsFits ==
    ASSUME FormInv, NEW fields, FieldList(fields), setFields(fields)
    PROVE  FormInv'
<1>1. Drafted(draft)
  BY DEF FormInv
<1>2. Drafted([draft EXCEPT !.fields = fields])
  BY <1>1 DEF Drafted
<1>3. EditOnly([draft EXCEPT !.fields = fields])
  BY DEF setFields
<1> QED
  BY <1>2, <1>3, EditOnlyFits

LEMMA FieldEdited ==
    ASSUME NEW f, IsField(f)
    PROVE  /\ \A name : IsField([f EXCEPT !.name = name])
           /\ \A spec : Shaped(spec) => IsField([f EXCEPT !.spec = spec])
<1>1. PICK a, b : f = Field(a, b) /\ Shaped(b)
  BY DEF IsField
<1>2. \A name : [f EXCEPT !.name = name] = Field(name, b)
  BY <1>1 DEF Field
<1>3. \A spec : [f EXCEPT !.spec = spec] = Field(a, spec)
  BY <1>1 DEF Field
<1> QED
  BY <1>1, <1>2, <1>3, FieldMade

LEMMA FieldsFit ==
    ASSUME FormInv,
           \/ AddField
           \/ \E i \in EditedFields \cap DOMAIN draft.fields :
                \/ \E name \in Typed.fieldNames : ChangeField(i, [draft.fields[i] EXCEPT !.name = name])
                \/ \E spec \in Typed.specs : ChangeField(i, [draft.fields[i] EXCEPT !.spec = spec])
                \/ RemoveField(i)
    PROVE  FormInv'
<1>1. FieldList(draft.fields) /\ \A i \in DOMAIN draft.fields : IsField(draft.fields[i])
  BY ListOf DEF FormInv, Drafted
<1>2. CASE AddField
  <2> DEFINE new(name) == Field(name, defaultSpec("randomWalk"))
  <2>1. Shaped(defaultSpec("randomWalk"))
    BY DefaultIsSetting, SettingIsShaped DEF Kinds
  <2>2. \A name : IsField(new(name))
    BY <2>1, FieldMade
  <2>3. \A name : FieldList(Append(draft.fields, new(name)))
    <3> HIDE DEF new
    <3> QED
      BY <1>1, <2>2, ListExtended
  <2>4. setFields(Append(draft.fields, new("")))
    BY <1>2, Zenon DEF AddField
  <2> QED
    BY <2>3, <2>4, setFieldsFits, Zenon
<1>3. ASSUME NEW i \in EditedFields \cap DOMAIN draft.fields, NEW name \in Typed.fieldNames,
             ChangeField(i, [draft.fields[i] EXCEPT !.name = name])
      PROVE  FormInv'
  <2> DEFINE g == [draft.fields[i] EXCEPT !.name = name]
  <2>1. IsField(g)
    BY <1>1, FieldEdited
  <2>2. setFields([draft.fields EXCEPT ![i] = g])
    BY <1>3 DEF ChangeField
  <2> HIDE DEF g
  <2>3. FieldList([draft.fields EXCEPT ![i] = g])
    BY <1>1, <2>1, ListChanged
  <2> QED
    BY <2>2, <2>3, setFieldsFits
<1>4. ASSUME NEW i \in EditedFields \cap DOMAIN draft.fields, NEW spec \in Typed.specs,
             ChangeField(i, [draft.fields[i] EXCEPT !.spec = spec])
      PROVE  FormInv'
  <2> DEFINE g == [draft.fields[i] EXCEPT !.spec = spec]
  <2>1. Shaped(spec)
    BY EditorAssumption, SettingIsShaped
  <2>2. IsField(g)
    BY <1>1, <2>1, FieldEdited
  <2>3. setFields([draft.fields EXCEPT ![i] = g])
    BY <1>4 DEF ChangeField
  <2> HIDE DEF g
  <2>4. FieldList([draft.fields EXCEPT ![i] = g])
    BY <1>1, <2>2, ListChanged
  <2> QED
    BY <2>3, <2>4, setFieldsFits
<1>5. ASSUME NEW i \in EditedFields \cap DOMAIN draft.fields, RemoveField(i)
      PROVE  FormInv'
  BY <1>1, <1>5, ListShortened, setFieldsFits, Zenon DEF RemoveField
<1> QED
  BY <1>2, <1>3, <1>4, <1>5, Zenon

LEMMA SwitchFits ==
    ASSUME FormInv, switchTransport
    PROVE  FormInv'
<1>1. Drafted(draft) /\ FieldList(draft.fields)
  BY DEF FormInv, Drafted
<1>2. CASE toMqtt
  <2> DEFINE way == IF page.id # None /\ ~isSql(page.initial) THEN page.initial.transport
                    ELSE Mqtt(page.broker, topicFor(draft.name))
             fields == IF draft.fields = SQL_FIELDS THEN MQTT_FIELDS ELSE draft.fields
             next == [draft EXCEPT !.transport = way, !.primaryKey = Undefined, !.cadence = Undefined,
                                   !.fields = fields]
  <2>1. Edit(next)
    BY <1>2 DEF toMqtt
  <2>2. FieldList(fields)
    BY <1>1, StartingFields
  <2> HIDE DEF way, fields
  <2>3. DOMAIN next = DOMAIN draft /\ next.name = draft.name /\ next.fields = fields
    BY <1>1 DEF Drafted
  <2> HIDE DEF next
  <2>4. Drafted(next)
    BY <1>1, <2>2, <2>3, NewFields
  <2> QED
    BY <2>1, <2>4, EditFits
<1>3. CASE toSql
  <2> DEFINE chosen == IF draft.fields = MQTT_FIELDS THEN SQL_FIELDS ELSE draft.fields
             keyed(fs) == SelectSeq(fs, LAMBDA f : f.spec.kind = "sequence")
             fields == IF keyed(chosen) = <<>> THEN <<SQL_FIELDS[1]>> \o chosen ELSE chosen
             key == keyed(fields)[1].name
             seeds == Or(draft.seedRows, 100 * One)
             inserts == Or(draft.insertsPerTick, One)
             limit == Or(draft.maxRows, 5000 * One)
             next(way) == [draft EXCEPT !.transport = way, !.fields = fields, !.primaryKey = key,
                                        !.seedRows = seeds, !.insertsPerTick = inserts, !.maxRows = limit]
  <2>1. Edit(next(Sql("")))
    BY <1>3, Zenon DEF toSql
  <2>2. FieldList(fields)
    <3>1. FieldList(chosen)
      BY <1>1, StartingFields
    <3>2. FieldList(<<SQL_FIELDS[1]>>)
      <4> DEFINE f == <<SQL_FIELDS[1]>>
      <4>1. f \in Seq({SQL_FIELDS[1]}) /\ \A i \in DOMAIN f : f[i] = SQL_FIELDS[1]
        OBVIOUS
      <4> HIDE DEF f
      <4>2. FieldList(f)
        BY <4>1, StartingFields, ListFrom
      <4> QED
        BY <4>2 DEF f
    <3> HIDE DEF chosen, keyed
    <3> QED
      BY <3>1, <3>2, ListJoined, Zenon
  <2> HIDE DEF fields, key, seeds, inserts, limit
  <2>3. \A way : /\ DOMAIN next(way) = DOMAIN draft /\ next(way).name = draft.name
                 /\ next(way).fields = fields
    BY <1>1 DEF Drafted
  <2> HIDE DEF next
  <2>4. \A way : Drafted(next(way))
    BY <1>1, <2>2, <2>3, NewFields
  <2> QED
    BY <2>1, <2>4, EditFits, Zenon
<1> QED
  BY <1>2, <1>3, Zenon DEF switchTransport

LEMMA EditFormFits ==
    ASSUME FormInv, EditForm
    PROVE  FormInv'
<1>1. CASE \E name \in Typed.names : setName(name)
  BY <1>1, setNameFits
<1>2. CASE \/ \E topic \in Typed.topics : SetTopic(topic)
           \/ \E url \in Typed.urls : SetUrl(url)
           \/ \E table \in Typed.tables : SetTable(table)
           \/ SetEnabled
           \/ \E key \in Names(draft.fields) \cup {Undefined} : SetPrimaryKey(key)
           \/ \E v \in Typed.seeds : SetSeedRows(v)
           \/ \E v \in Typed.inserts : SetInsertsPerTick(v)
           \/ \E v \in Typed.limits : SetMaxRows(v)
           \/ \E cadence \in {"interval", "fillToLimit"} : SetCadence(cadence)
           \/ \E v \in Typed.intervals : SetInterval(v)
  BY <1>2, SettingsFit, Zenon
<1>3. CASE \/ AddField
           \/ \E i \in EditedFields \cap DOMAIN draft.fields :
                \/ \E name \in Typed.fieldNames : ChangeField(i, [draft.fields[i] EXCEPT !.name = name])
                \/ \E spec \in Typed.specs : ChangeField(i, [draft.fields[i] EXCEPT !.spec = spec])
                \/ RemoveField(i)
  BY <1>3, FieldsFit
<1>4. CASE switchTransport
  BY <1>4, SwitchFits
<1> QED
  BY <1>1, <1>2, <1>3, <1>4, Zenon DEF EditForm

LEMMA JsonFits ==
    ASSUME JsonKeeps, FormInv, Json
    PROVE  FormInv'
<1>1. Drafted(draft) /\ TextFits(jsonText)
  BY DEF FormInv
<1>2. ASSUME NEW next, switchMode(next) PROVE FormInv'
  <2>1. draft' = draft /\ (jsonText' = toInput(draft) \/ jsonText' = NoText) /\ UNCHANGED <<sims, requests>>
    BY <1>2, Zenon DEF switchMode
  <2>2. Drafted(draft') /\ TextFits(jsonText')
    BY <1>1, <2>1, TextFitsDraft, NoTextFits, Zenon
  <2> QED
    BY <2>1, <2>2, FormOnly
<1>3. ASSUME NEW body \in JsonTexts(jsonText), TypeJson(body) PROVE FormInv'
  <2>1. draft' = draft /\ jsonText' = body /\ UNCHANGED <<sims, requests>>
    BY <1>3, Zenon DEF TypeJson
  <2>2. TextFits(body)
    BY <1>1, <1>3, Zenon DEF JsonKeeps, TextFits
  <2> QED
    BY <1>1, <2>1, <2>2, FormOnly, Zenon
<1>4. CASE applyJson
  <2>1. draft' = fromJson(jsonText) /\ jsonText' = jsonText /\ Readable(jsonText) /\ UNCHANGED <<sims, requests>>
    BY <1>4, Zenon DEF applyJson
  <2>2. Drafted(fromJson(jsonText))
    BY <1>1, <2>1, JsonIsDrafted, Zenon DEF TextFits
  <2> QED
    BY <1>1, <2>1, <2>2, FormOnly, Zenon
<1> QED
  BY <1>2, <1>3, <1>4, Zenon DEF Json

LEMMA AppendedFits ==
    ASSUME NEW q, RequestsFit(q), NEW r, RequestFits(r)
    PROVE  RequestsFit(Append(q, r))
<1> DEFINE p == Append(q, r)
           n == Len(q) + 1
           S == {q[i] : i \in DOMAIN q} \cup {r}
<1>1. q \in Seq(S) /\ r \in S
  BY SeqGrows DEF RequestsFit
<1> HIDE DEF S
<1>2. n \in Nat /\ p = [i \in 1 .. n |-> p[i]] /\ DOMAIN p = 1 .. n
  <2>1. p \in Seq(S) /\ Len(p) = n /\ n \in Nat
    BY <1>1
  <2> HIDE DEF p, n
  <2> QED
    BY <2>1, SeqParts
<1>3. DOMAIN q = 1 .. Len(q) /\ \A i \in 1 .. n : i = n \/ i \in 1 .. Len(q)
  BY <1>1
<1>4. (\A i \in 1 .. Len(q) : p[i] = q[i]) /\ p[n] = r
  BY <1>1
<1> HIDE DEF p, n
<1>5. \A i \in DOMAIN p : RequestFits(p[i])
  BY <1>2, <1>3, <1>4 DEF RequestsFit
<1>6. p \in Seq({p[i] : i \in DOMAIN p})
  BY <1>2, SeqMade
<1>7. RequestsFit(p)
  BY <1>5, <1>6 DEF RequestsFit
<1> QED
  BY <1>7 DEF p

LEMMA RemovedFits ==
    ASSUME NEW q, RequestsFit(q), NEW i \in DOMAIN q
    PROVE  RequestsFit(RemoveAt(q, i))
<1> DEFINE p == RemoveAt(q, i)
           S == {q[j] : j \in DOMAIN q}
<1>1. q \in Seq(S)
  BY DEF RequestsFit
<1> HIDE DEF S
<1>2. p \in Seq(S) /\ \A k \in DOMAIN p : \E j \in DOMAIN q : p[k] = q[j]
  BY <1>1, SeqRemoved
<1> HIDE DEF p
<1>3. \A k \in DOMAIN p : RequestFits(p[k])
  BY <1>2 DEF RequestsFit
<1>4. Len(p) \in Nat /\ DOMAIN p = 1 .. Len(p) /\ p = [k \in 1 .. Len(p) |-> p[k]]
  BY <1>2, SeqParts
<1>5. p \in Seq({p[k] : k \in DOMAIN p})
  BY <1>4, SeqMade
<1>6. RequestsFit(p)
  BY <1>3, <1>5 DEF RequestsFit
<1> QED
  BY <1>6 DEF p

LEMMA GivenFits ==
    ASSUME NEW q, RequestsFit(q), NEW i \in DOMAIN q
    PROVE  RequestsFit([q EXCEPT ![i].given = TRUE])
<1> DEFINE g == [q[i] EXCEPT !.given = TRUE]
           p == [q EXCEPT ![i] = g]
<1>1. [q EXCEPT ![i].given = TRUE] = p
  OBVIOUS
<1>2. RequestFits(q[i])
  BY DEF RequestsFit
<1>3. g.body = q[i].body /\ DOMAIN g = DOMAIN q[i]
  BY <1>2 DEF RequestFits
<1> HIDE DEF g
<1>4. RequestFits(g)
  BY <1>2, <1>3, Zenon DEF RequestFits
<1>5. /\ Len(q) \in Nat /\ DOMAIN q = 1 .. Len(q) /\ DOMAIN p = DOMAIN q
      /\ p = [j \in 1 .. Len(q) |-> p[j]] /\ \A j \in DOMAIN q : p[j] = g \/ p[j] = q[j]
  BY SeqParts DEF RequestsFit
<1> HIDE DEF p
<1>6. \A j \in DOMAIN p : RequestFits(p[j])
  BY <1>4, <1>5 DEF RequestsFit
<1>7. p \in Seq({p[j] : j \in DOMAIN p})
  BY <1>5, SeqMade
<1>8. RequestsFit(p)
  BY <1>6, <1>7 DEF RequestsFit
<1> QED
  BY <1>1, <1>8

LEMMA saveFits ==
    ASSUME FormInv, save
    PROVE  FormInv'
<1>1. Drafted(draft) /\ TextFits(jsonText) /\ RequestsFit(requests)
  BY DEF FormInv
<1>2. /\ mode = "json" => Readable(jsonText)
      /\ draft' = IF mode = "json" THEN fromJson(jsonText) ELSE draft
      /\ jsonText' = jsonText /\ sims' = sims
      /\ \/ validate(draft') = {} /\ requests' = Append(requests, Request)
         \/ requests' = requests
  BY Zenon DEF save
<1>3. Drafted(draft')
  BY <1>1, <1>2, JsonIsDrafted, Zenon DEF TextFits
<1>4. RequestsFit(requests')
  <2> DEFINE r == Request
  <2>1. CASE requests' = requests
    BY <1>1, <2>1, Zenon
  <2>2. CASE validate(draft') = {} /\ requests' = Append(requests, r)
    <3>1. r.body = toInput(draft') /\ "body" \in DOMAIN r
      BY DEF Request
    <3> HIDE DEF r
    <3>2. RequestFits(r)
      BY <1>3, <2>2, <3>1, Zenon DEF RequestFits
    <3> QED
      BY <1>1, <2>2, <3>2, AppendedFits, Zenon
  <2> QED
    BY <1>2, <2>1, <2>2
<1> QED
  BY <1>1, <1>2, <1>3, <1>4, Zenon DEF FormInv

\* What the service registers was saved of a draft.
LEMMA RegisteredIs ==
    ASSUME FormInv, NEW i \in DOMAIN requests, Registered(i)
    PROVE  /\ requests' = RemoveAt(requests, i)
           /\ \E d, id : Accepted(d) /\ sims' = [sims EXCEPT ![id] = Kept(toInput(d))]
<1>1. PICK d : Drafted(d) /\ validate(d) = {} /\ requests[i].body = toInput(d)
  BY Zenon DEF FormInv, RequestsFit, RequestFits
<1>2. /\ simulationInputSchema(requests[i].body) /\ requests' = RemoveAt(requests, i)
      /\ \E id : sims' = [sims EXCEPT ![id] = Kept(requests[i].body)]
  BY Zenon DEF Registered
<1> QED
  BY <1>1, <1>2, Zenon DEF Accepted

LEMMA RegisteredFits ==
    ASSUME FormInv, NEW i \in DOMAIN requests, Registered(i)
    PROVE  StoreFits(sims') /\ RequestsFit(requests') /\ (StoreReturns(sims) => StoreReturns(sims'))
<1>1. PICK d, id : Accepted(d) /\ sims' = [sims EXCEPT ![id] = Kept(toInput(d))]
  BY RegisteredIs
<1> DEFINE kept == Kept(toInput(d))
<1>2. FieldList(kept.fields) /\ ComesBack(kept)
  <2>1. kept.fields = KeptFields(d.fields)
    BY <1>1, KeptIs
  <2>2. FieldList(d.fields)
    BY <1>1, AcceptedParts
  <2> HIDE DEF kept
  <2>3. FieldList(kept.fields)
    BY <2>1, <2>2, KeptFieldsAre
  <2> QED
    BY <1>1, <2>3, SavedComesBack DEF kept
<1>3. StoreFits(sims)
  BY DEF FormInv
<1> HIDE DEF kept
<1>4. DOMAIN sims' = Ids /\ \A other \in Ids : sims'[other] \in {kept, sims[other]}
  BY <1>1, <1>3 DEF StoreFits, kept
<1>5. StoreFits(sims')
  BY <1>2, <1>3, <1>4, Zenon DEF StoreFits
<1>6. ASSUME StoreReturns(sims) PROVE StoreReturns(sims')
  BY <1>2, <1>4, <1>6, Zenon DEF StoreReturns
<1>7. RequestsFit(requests')
  BY RegisteredIs, RemovedFits, Zenon DEF FormInv
<1> QED
  BY <1>5, <1>6, <1>7

LEMMA AnswerFits ==
    ASSUME FormInv, NEW i \in DOMAIN requests,
           Saved(i) \/ Refused(i) \/ GivenUp(i) \/ Late(i) \/ Lost(i)
    PROVE  FormInv'
<1>1. Drafted(draft) /\ TextFits(jsonText) /\ StoreFits(sims) /\ RequestsFit(requests)
  BY DEF FormInv
<1>2. CASE Saved(i)
  <2>1. Registered(i) /\ Left
    BY <1>2, Zenon DEF Saved
  <2> QED
    BY <2>1, RegisteredFits, LeftFits, Zenon DEF FormInv
<1>3. CASE Late(i)
  <2>1. Registered(i) /\ draft' = draft /\ jsonText' = jsonText
    BY <1>3, Zenon DEF Late, form
  <2> QED
    BY <1>1, <2>1, RegisteredFits, Zenon DEF FormInv
<1>4. CASE Refused(i) \/ Lost(i)
  <2>1. requests' = RemoveAt(requests, i) /\ draft' = draft /\ jsonText' = jsonText /\ sims' = sims
    BY <1>4, Zenon DEF Refused, Lost, form
  <2> QED
    BY <1>1, <2>1, RemovedFits, Zenon DEF FormInv
<1>5. CASE GivenUp(i)
  <2>1. requests' = [requests EXCEPT ![i].given = TRUE] /\ draft' = draft /\ jsonText' = jsonText /\ sims' = sims
    BY <1>5, Zenon DEF GivenUp, form
  <2>2. RequestsFit([requests EXCEPT ![i].given = TRUE])
    BY <1>1, GivenFits
  <2> QED
    BY <1>1, <2>1, <2>2, Zenon DEF FormInv
<1> QED
  BY <1>2, <1>3, <1>4, <1>5

LEMMA FormStutters ==
    ASSUME FormInv, UNCHANGED vars
    PROVE  FormInv'
BY Zenon DEF FormInv, vars

LEMMA FormStays ==
    ASSUME JsonKeeps, FormInv, [Next]_vars
    PROVE  FormInv'
<1>1. CASE Open
  BY <1>1, OpenFits
<1>2. CASE OpenSuggested
  BY <1>2, OpenSuggestedFits
<1>3. CASE Cancel
  BY <1>3, CancelFits
<1>4. CASE EditForm
  BY <1>4, EditFormFits
<1>5. CASE Json
  BY <1>5, JsonFits
<1>6. CASE save
  BY <1>6, saveFits
<1>7. CASE Answer \/ \E i \in DOMAIN requests : Late(i) \/ Lost(i)
  BY <1>7, AnswerFits, Zenon DEF Answer
<1>8. CASE UNCHANGED vars
  BY <1>8, FormStutters
<1> QED
  BY <1>1, <1>2, <1>3, <1>4, <1>5, <1>6, <1>7, <1>8, Zenon DEF Next

-----------------------------------------------------------------------------
(* The steps that change what the service keeps.                           *)

LEMMA StoreStays ==
    ASSUME FormInv, StoreReturns(sims), [Next]_vars
    PROVE  StoreReturns(sims')
<1>1. ASSUME NEW i \in DOMAIN requests, Registered(i) PROVE StoreReturns(sims')
  BY <1>1, RegisteredFits
<1>2. CASE \E i \in DOMAIN requests : Saved(i) \/ Late(i)
  BY <1>1, <1>2, Zenon DEF Saved, Late
<1>3. CASE \E i \in DOMAIN requests : Refused(i) \/ GivenUp(i) \/ Lost(i)
  BY <1>3, Zenon DEF Refused, GivenUp, Lost
<1>4. ASSUME sims' = sims PROVE StoreReturns(sims')
  BY <1>4, Zenon
<1>5. CASE Open
  BY <1>5, <1>4, Zenon DEF Open, OpenNew, OpenEdit, Opened
<1>6. CASE OpenSuggested
  BY <1>6, <1>4, Zenon DEF OpenSuggested, OpenFrom, OpenBound, Opened
<1>7. CASE Cancel
  BY <1>7, <1>4, Zenon DEF Cancel
<1>8. CASE EditForm
  BY <1>8, <1>4, Zenon DEF EditForm, setName, SetTopic, SetUrl, SetTable, SetEnabled, SetPrimaryKey,
                           SetSeedRows, SetInsertsPerTick, SetMaxRows, SetCadence, SetInterval, AddField,
                           ChangeField, RemoveField, setFields, switchTransport, toMqtt, toSql, EditOnly, Edit
<1>9. CASE Json
  BY <1>9, <1>4, Zenon DEF Json, switchMode, TypeJson, applyJson
<1>10. CASE save
  BY <1>10, <1>4, Zenon DEF save
<1>11. CASE UNCHANGED vars
  BY <1>11, <1>4, Zenon DEF vars
<1> QED
  BY <1>2, <1>3, <1>5, <1>6, <1>7, <1>8, <1>9, <1>10, <1>11, Zenon DEF Next, Answer

LEMMA StoreStarts ==
    ASSUME StoredByEditor, Init
    PROVE  StoreReturns(sims)
<1>1. sims \in FirstStored
  BY Zenon DEF Init
<1> QED
  BY <1>1, SavedComesBack, Zenon DEF StoredByEditor, StoreReturns

-----------------------------------------------------------------------------
(* A bound draft publishes where its source listens.                       *)

BoundInv ==
  (page # None /\ page.from # None /\ page.from.source # None)
  => /\ page.initial = bindToDataSource(draftFromDataStructure(page.from.ds, page.broker), page.from.source)
     /\ page.from.source \in Sources

LEMMA TopicIsBound ==
    ASSUME NEW ds, NEW broker, NEW source, source.kind = "mqtt", source.topics # <<>>
    PROVE  bindToDataSource(draftFromDataStructure(ds, broker), source).transport.topic = topicUnder(source)
<1> DEFINE d == draftFromDataStructure(ds, broker)
           bound == [d EXCEPT !.origin.dataSource = ArtifactRef(source.name, source.urn, source.id)]
           url == IF isSql(d) THEN "" ELSE d.transport.url
           way(u) == Mqtt(u, topicUnder(source))
<1>1. "transport" \in DOMAIN d
  BY SuggestedIs
<1> HIDE DEF d
<1>2. "transport" \in DOMAIN bound
  BY <1>1
<1>3. source.kind # "sql"
  OBVIOUS
<1>4. bindToDataSource(d, source) = [bound EXCEPT !.name = source.name, !.transport = way(url)]
  BY <1>3, Zenon DEF bindToDataSource
<1> HIDE DEF bound, url
<1>5. [bound EXCEPT !.name = source.name, !.transport = way(url)].transport = way(url)
  BY <1>2
<1>6. way(url).topic = topicUnder(source)
  BY DEF Mqtt
<1> QED
  BY <1>4, <1>5, <1>6 DEF d

LEMMA LastOrBefore == \A n \in Nat : \A i \in 1 .. n : i = n \/ i \in 1 .. n - 1
OBVIOUS

LEMMA FrontOf ==
    ASSUME NEW S, NEW s \in Seq(S), Len(s) > 1
    PROVE  /\ Front(s) \in Seq(S) /\ Len(Front(s)) = Len(s) - 1
           /\ \A i \in 1 .. Len(s) - 1 : Front(s)[i] = s[i]
BY DEF Front

\* The topic under a subscription is one it delivers, and no wildcard is left in it.
LEMMA TopicIsHeard ==
    ASSUME NEW source, Feeds(source), source.topics # <<>>,
           Publishable(IF Len(source.topics[1]) > 1 THEN Front(source.topics[1]) ELSE source.topics[1])
    PROVE  Delivers(source.topics[1], topicUnder(source)) /\ Publishable(topicUnder(source))
<1> DEFINE s == source.topics[1]
           S == {s[j] : j \in DOMAIN s}
           name == source.name
           topic == topicUnder(source)
<1>1. s \in Seq(S) /\ name \notin {"+", "#"}
  <2>1. source.topics \in Seq({source.topics[i] : i \in DOMAIN source.topics})
    BY DEF Feeds
  <2>2. 1 \in DOMAIN source.topics
    BY <2>1
  <2> QED
    BY <2>2 DEF Feeds
<1>2. Publishable(IF Len(s) > 1 THEN Front(s) ELSE s)
  OBVIOUS
<1>3. topic = IF Len(s) > 1 /\ s[Len(s)] \in {"+", "#"} THEN Append(Front(s), name) ELSE s
  BY DEF topicUnder
<1> HIDE DEF S, s, name, topic
<1>4. Len(s) \in Nat /\ DOMAIN s = 1 .. Len(s) /\ s # <<>> /\ Len(s) > 0
  <2>1. CASE Len(s) > 1
    BY <1>1, <2>1
  <2>2. CASE ~ Len(s) > 1
    BY <1>1, <1>2, <2>2 DEF Publishable
  <2> QED
    BY <2>1, <2>2
<1>5. CASE Len(s) > 1 /\ s[Len(s)] \in {"+", "#"}
  <2>1. /\ Front(s) \in Seq(S) /\ Len(Front(s)) = Len(s) - 1 /\ DOMAIN Front(s) = 1 .. Len(s) - 1
        /\ \A i \in 1 .. Len(s) - 1 : Front(s)[i] = s[i]
    BY <1>1, <1>5, FrontOf
  <2>2. topic = Append(Front(s), name)
    BY <1>3, <1>5
  <2>3. /\ Len(topic) = Len(s) /\ DOMAIN topic = 1 .. Len(s) /\ topic[Len(s)] = name
        /\ \A i \in 1 .. Len(s) - 1 : topic[i] = s[i]
    <3> DEFINE f == Front(s)
               T == S \cup {name}
    <3>1. f \in Seq(T) /\ name \in T
      BY <2>1, SeqGrows
    <3> HIDE DEF f, T
    <3>2. /\ Len(Append(f, name)) = Len(f) + 1 /\ DOMAIN Append(f, name) = 1 .. Len(f) + 1
          /\ Append(f, name)[Len(f) + 1] = name /\ \A i \in 1 .. Len(f) : Append(f, name)[i] = f[i]
          /\ Len(f) \in Nat
      BY <3>1
    <3>3. Len(f) = Len(s) - 1 /\ topic = Append(f, name) /\ Len(f) + 1 = Len(s)
      BY <1>4, <2>1, <2>2 DEF f
    <3>4. \A i \in 1 .. Len(s) - 1 : f[i] = s[i]
      BY <2>1 DEF f
    <3> QED
      BY <3>2, <3>3, <3>4
  <2>4. \A i \in 1 .. Len(s) - 1 : s[i] \notin {"+", "#"}
    BY <1>2, <1>5, <2>1 DEF Publishable
  <2>5. Publishable(topic)
    <3>1. \A i \in 1 .. Len(s) : i = Len(s) \/ i \in 1 .. Len(s) - 1
      BY <1>4, LastOrBefore, Zenon
    <3>2. \A i \in DOMAIN topic : topic[i] \notin {"+", "#"}
      BY <1>1, <2>3, <2>4, <3>1
    <3>3. topic # <<>>
      BY <1>4, <2>3
    <3> QED
      BY <3>2, <3>3 DEF Publishable
  <2>6. Delivers(s, topic)
    <3>1. CASE s[Len(s)] = "#"
      BY <1>4, <1>5, <2>1, <2>3, <3>1 DEF Delivers
    <3>2. CASE s[Len(s)] = "+"
      <4>1. \A i \in DOMAIN s : s[i] \in {"+", topic[i]}
        BY <1>4, <2>3, <3>2
      <4>2. "+" # "#"
        OBVIOUS
      <4> QED
        BY <2>3, <3>2, <4>1, <4>2 DEF Delivers
    <3> QED
      BY <1>5, <3>1, <3>2
  <2> QED
    BY <2>5, <2>6 DEF s, topic
<1>6. CASE ~(Len(s) > 1 /\ s[Len(s)] \in {"+", "#"})
  <2>1. topic = s
    BY <1>3, <1>6
  <2>2. \A i \in DOMAIN s : s[i] \notin {"+", "#"}
    <3>1. CASE Len(s) > 1
      <4>1. /\ Front(s) \in Seq(S) /\ Len(Front(s)) = Len(s) - 1 /\ DOMAIN Front(s) = 1 .. Len(s) - 1
            /\ \A i \in 1 .. Len(s) - 1 : Front(s)[i] = s[i]
        BY <1>1, <3>1, FrontOf
      <4>2. \A i \in 1 .. Len(s) - 1 : s[i] \notin {"+", "#"}
        BY <1>2, <3>1, <4>1 DEF Publishable
      <4>3. \A i \in 1 .. Len(s) : i = Len(s) \/ i \in 1 .. Len(s) - 1
        BY <1>4, LastOrBefore, Zenon
      <4> QED
        BY <1>4, <1>6, <3>1, <4>2, <4>3
    <3>2. CASE ~ Len(s) > 1
      BY <1>2, <3>2 DEF Publishable
    <3> QED
      BY <3>1, <3>2
  <2>3. Publishable(s)
    BY <1>4, <2>2 DEF Publishable
  <2>4. s[Len(s)] # "#"
    BY <1>4, <2>2
  <2>5. Delivers(s, s)
    BY <2>4 DEF Delivers
  <2> QED
    BY <2>1, <2>3, <2>5 DEF s, topic
<1> QED
  BY <1>5, <1>6

LEMMA OpenedIsBound ==
    ASSUME NEW id, NEW initial, NEW from, NEW broker, NEW first,
           Opened(id, initial, from, broker, first),
           \/ from = None
           \/ from.source = None
           \/ initial = bindToDataSource(draftFromDataStructure(from.ds, broker), from.source)
              /\ from.source \in Sources
    PROVE  BoundInv'
<1>1. page' = [id |-> id, initial |-> initial, from |-> from, broker |-> broker]
  BY Zenon DEF Opened
<1>2. page'.initial = initial /\ page'.from = from /\ page'.broker = broker
  BY <1>1
<1> QED
  BY <1>2, Zenon DEF BoundInv

\* A page changes only when it is opened or left.
LEMMA PageMoves ==
    ASSUME [Next]_vars
    PROVE  page' = page \/ page' = None \/ Open \/ OpenSuggested
<1>1. CASE Cancel
  BY <1>1, Zenon DEF Cancel, Left
<1>2. CASE EditForm
  BY <1>2, Zenon DEF EditForm, setName, SetTopic, SetUrl, SetTable, SetEnabled, SetPrimaryKey,
                           SetSeedRows, SetInsertsPerTick, SetMaxRows, SetCadence, SetInterval, AddField,
                           ChangeField, RemoveField, setFields, switchTransport, toMqtt, toSql, EditOnly, Edit
<1>3. CASE Json
  BY <1>3, Zenon DEF Json, switchMode, TypeJson, applyJson
<1>4. CASE save
  BY <1>4, Zenon DEF save
<1>5. CASE Answer
  BY <1>5, Zenon DEF Answer, Saved, Refused, GivenUp, Left, form
<1>6. CASE \E i \in DOMAIN requests : Late(i) \/ Lost(i)
  BY <1>6, Zenon DEF Late, Lost, form
<1>7. CASE UNCHANGED vars
  BY <1>7, Zenon DEF vars
<1> QED
  BY <1>1, <1>2, <1>3, <1>4, <1>5, <1>6, <1>7, Zenon DEF Next

LEMMA BoundStays ==
    ASSUME BoundInv, [Next]_vars
    PROVE  BoundInv'
<1>1. CASE page' = page
  BY <1>1, Zenon DEF BoundInv
<1>2. CASE page' = None
  BY <1>2, Zenon DEF BoundInv
<1>3. CASE Open
  BY <1>3, OpenedIsBound, Zenon DEF Open, OpenNew, OpenEdit
<1>4. CASE OpenSuggested
  <2>1. ASSUME NEW ds, OpenFrom(ds, BrokerUrl, "fields") PROVE BoundInv'
    <3> DEFINE from == [ds |-> ds, source |-> None]
    <3>1. from.source = None
      OBVIOUS
    <3>2. Opened(None, draftFromDataStructure(ds, BrokerUrl), from, BrokerUrl, "fields")
      BY <2>1 DEF OpenFrom
    <3> HIDE DEF from
    <3> QED
      BY <3>1, <3>2, OpenedIsBound, Zenon
  <2>2. ASSUME NEW ds, NEW source \in Sources, OpenBound(ds, source, BrokerUrl) PROVE BoundInv'
    <3> DEFINE from == [ds |-> ds, source |-> source]
    <3>1. from.source = source /\ from.ds = ds
      OBVIOUS
    <3>2. Opened(None, bindToDataSource(draftFromDataStructure(ds, BrokerUrl), source), from, BrokerUrl, "fields")
      BY <2>2 DEF OpenBound
    <3> HIDE DEF from
    <3> QED
      BY <3>1, <3>2, OpenedIsBound, Zenon
  <2> QED
    BY <1>4, <2>1, <2>2, Zenon DEF OpenSuggested
<1> QED
  BY <1>1, <1>2, <1>3, <1>4, PageMoves, Zenon

-----------------------------------------------------------------------------
(* A suggested draft can be saved as it is.                                *)

\* The premise: the portal names its structures and their properties, no name is
\* empty and none of a structure's properties has the name of another.
NoWord(text) == text = ""
WellNamed(ds) ==
  /\ ~NoWord(ds.name)
  /\ \A i \in DOMAIN supported(ds) : ~NoWord(supported(ds)[i].name)
  /\ \A i, j \in DOMAIN supported(ds) : supported(ds)[i].name = supported(ds)[j].name => i = j
Suggestable == \A readable \in BOOLEAN : \A ds \in getDataStructures(Page, readable, Examples) : WellNamed(ds)

\* Where a suggested draft comes from.
SuggestInv ==
  (page # None /\ page.from # None /\ page.from.source = None) =>
    /\ \E readable \in BOOLEAN : page.from.ds \in getDataStructures(Page, readable, Examples)
    /\ page.broker = BrokerUrl
    /\ page.initial = draftFromDataStructure(page.from.ds, BrokerUrl)

LEMMA OpenedIsSuggested ==
    ASSUME NEW id, NEW initial, NEW from, NEW broker, NEW first,
           Opened(id, initial, from, broker, first),
           \/ from = None
           \/ from.source # None
           \/ /\ \E readable \in BOOLEAN : from.ds \in getDataStructures(Page, readable, Examples)
              /\ broker = BrokerUrl
              /\ initial = draftFromDataStructure(from.ds, BrokerUrl)
    PROVE  SuggestInv'
<1>1. page' = [id |-> id, initial |-> initial, from |-> from, broker |-> broker]
  BY Zenon DEF Opened
<1>2. page'.initial = initial /\ page'.from = from /\ page'.broker = broker
  BY <1>1
<1> QED
  BY <1>2, Zenon DEF SuggestInv

LEMMA SuggestStays ==
    ASSUME SuggestInv, [Next]_vars
    PROVE  SuggestInv'
<1>1. CASE page' = page
  BY <1>1, Zenon DEF SuggestInv
<1>2. CASE page' = None
  BY <1>2, Zenon DEF SuggestInv
<1>3. CASE Open
  BY <1>3, OpenedIsSuggested, Zenon DEF Open, OpenNew, OpenEdit
<1>4. CASE OpenSuggested
  <2>1. PICK readable \in BOOLEAN : \E ds \in getDataStructures(Page, readable, Examples) :
          \/ OpenFrom(ds, BrokerUrl, "fields")
          \/ \E source \in Sources : OpenBound(ds, source, BrokerUrl)
    BY <1>4, Zenon DEF OpenSuggested
  <2>2. PICK ds \in getDataStructures(Page, readable, Examples) :
          \/ OpenFrom(ds, BrokerUrl, "fields")
          \/ \E source \in Sources : OpenBound(ds, source, BrokerUrl)
    BY <2>1
  <2>3. CASE OpenFrom(ds, BrokerUrl, "fields")
    <3> DEFINE from == [ds |-> ds, source |-> None]
    <3>1. from.ds = ds
      OBVIOUS
    <3>2. Opened(None, draftFromDataStructure(ds, BrokerUrl), from, BrokerUrl, "fields")
      BY <2>3 DEF OpenFrom
    <3> HIDE DEF from
    <3> QED
      BY <3>1, <3>2, OpenedIsSuggested, Zenon
  <2>4. ASSUME NEW source \in Sources, OpenBound(ds, source, BrokerUrl) PROVE SuggestInv'
    <3> DEFINE from == [ds |-> ds, source |-> source]
    <3>1. from.source # None
      <4>1. from.source = source
        OBVIOUS
      <4> QED
        BY <4>1, EditorAssumption, Zenon DEF Feeds
    <3>2. Opened(None, bindToDataSource(draftFromDataStructure(ds, BrokerUrl), source), from, BrokerUrl, "fields")
      BY <2>4 DEF OpenBound
    <3> HIDE DEF from
    <3> QED
      BY <3>1, <3>2, OpenedIsSuggested, Zenon
  <2> QED
    BY <2>2, <2>3, <2>4, Zenon
<1> QED
  BY <1>1, <1>2, <1>3, <1>4, PageMoves, Zenon

\* The settings suggested for a property whose bounds leave room have no error.
LEMMA SuggestedWalkIsSound ==
    ASSUME NEW min \in Int, NEW max \in Int, min <= max, NEW step \in Int, step > 0, NEW start \in Int,
           NEW integer \in BOOLEAN, integer => Whole(min) /\ Whole(max) /\ Whole(start)
    PROVE  specErrors([kind |-> "randomWalk", min |-> min, max |-> max, step |-> step, start |-> start,
                       integer |-> integer]) = {}
<1> DEFINE s == [kind |-> "randomWalk", min |-> min, max |-> max, step |-> step, start |-> start,
                 integer |-> integer]
<1>1. /\ s.kind = "randomWalk" /\ s["min"] = min /\ s["max"] = max /\ s.min = min /\ s.max = max
      /\ s.step = step /\ s.start = start /\ s.integer = integer
  OBVIOUS
<1> SUFFICES specErrors(s) = {}
  OBVIOUS
<1> HIDE DEF s
<1>2. range(s) = {}
  BY <1>1 DEF range, isNumber, When
<1>3. When(~isNumber(s.step) \/ s.step <= 0, "step") = {}
  BY <1>1 DEF isNumber, When
<1>4. When(/\ s.start # Undefined
           /\ ~isNumber(s.start) \/ (s.integer = TRUE /\ ~Whole(s.start)), "start") = {}
  BY <1>1 DEF isNumber, When
<1>5. \A A, B, C : A = {} /\ B = {} /\ C = {} => UNION {A, B, C} = {}
  OBVIOUS
<1>6. walkErrors(s) = {}
  BY <1>2, <1>3, <1>4, <1>5, Zenon DEF walkErrors
<1> QED
  BY <1>1, <1>6 DEF specErrors

LEMMA SuggestedCurveIsSound ==
    ASSUME NEW min \in Int, NEW max \in Int, min <= max, NEW integer \in BOOLEAN,
           integer => Whole(min) /\ Whole(max)
    PROVE  specErrors([kind |-> "dailyProfile", min |-> min, max |-> max,
                       peakHours |-> <<8 * One, 17 * One>>, noise |-> 3, integer |-> integer]) = {}
<1> DEFINE s == [kind |-> "dailyProfile", min |-> min, max |-> max,
                 peakHours |-> <<8 * One, 17 * One>>, noise |-> 3, integer |-> integer]
<1>1. /\ s.kind = "dailyProfile" /\ s["min"] = min /\ s["max"] = max /\ s.min = min /\ s.max = max
      /\ s.peakHours = <<8 * One, 17 * One>> /\ s.noise = 3 /\ s.integer = integer
  OBVIOUS
<1> SUFFICES specErrors(s) = {}
  OBVIOUS
<1> HIDE DEF s
<1>2. range(s) = {}
  BY <1>1 DEF range, isNumber, When
<1>3. When(\/ s.peakHours = <<>>
           \/ \E i \in DOMAIN s.peakHours : ~wholeIn(s.peakHours[i], 0, 23), "peakHours") = {}
  <2>1. s.peakHours # <<>> /\ \A i \in DOMAIN s.peakHours : s.peakHours[i] \in {160, 340}
    BY <1>1 DEF One
  <2>2. wholeIn(160, 0, 23) /\ wholeIn(340, 0, 23)
    BY DEF wholeIn, isNumber, Whole, One
  <2> QED
    BY <2>1, <2>2 DEF When
<1>4. When(/\ s.noise # Undefined
           /\ ~isNumber(s.noise) \/ s.noise < 0 \/ s.noise > One, "noise") = {}
  BY <1>1 DEF isNumber, When, One
<1>5. profileErrors(s) = {}
  BY <1>2, <1>3, <1>4 DEF profileErrors
<1> QED
  BY <1>1, <1>5 DEF specErrors

LEMMA SuggestedSequenceIsSound ==
    specErrors([kind |-> "sequence", start |-> One, padTo |-> 4 * One]) = {}
<1> DEFINE s == [kind |-> "sequence", start |-> One, padTo |-> 4 * One]
<1>1. s.kind = "sequence" /\ s.start = 20 /\ s.padTo = 80
  BY DEF One
<1> HIDE DEF s
<1>2. Or(s.start, One) = 20 /\ Or(s.padTo, 0) = 80
  BY <1>1, NoValues DEF Or
<1>3. wholeIn(20, 0, MAX_SAFE_INTEGER) /\ wholeIn(80, 0, 12)
  BY DEF wholeIn, isNumber, Whole, One, MAX_SAFE_INTEGER
<1>4. specErrors(s) = When(~wholeIn(Or(s.start, One), 0, MAX_SAFE_INTEGER), "start")
                      \cup When(~wholeIn(Or(s.padTo, 0), 0, 12), "padTo")
  BY <1>1 DEF specErrors
<1>5. specErrors(s) = {}
  BY <1>2, <1>3, <1>4 DEF When
<1> QED
  BY <1>5 DEF s

LEMMA SuggestedJitterIsSound ==
    ASSUME NEW center \in Int
    PROVE  specErrors([kind |-> "jitter", spread |-> 1, precision |-> 6 * One, center |-> center]) = {}
<1> DEFINE s == [kind |-> "jitter", spread |-> 1, precision |-> 6 * One, center |-> center]
<1>1. s.kind = "jitter" /\ s.spread = 1 /\ s.precision = 120 /\ s.center = center
  BY DEF One
<1> SUFFICES specErrors(s) = {}
  OBVIOUS
<1> HIDE DEF s
<1>2. Or(s.precision, 6 * One) = 120
  BY <1>1, NoValues DEF Or
<1>3. wholeIn(120, 0, 12)
  BY DEF wholeIn, isNumber, Whole, One
<1>4. When(~isNumber(s.center), "center") = {} /\ When(~isNumber(s.spread) \/ s.spread <= 0, "spread") = {}
      /\ When(~wholeIn(Or(s.precision, 6 * One), 0, 12), "precision") = {}
  BY <1>1, <1>2, <1>3 DEF isNumber, When
<1>5. specErrors(s) = UNION {When(~isNumber(s.center), "center"),
                When(~isNumber(s.spread) \/ s.spread <= 0, "spread"),
                When(~wholeIn(Or(s.precision, 6 * One), 0, 12), "precision")}
  BY <1>1 DEF specErrors
<1> QED
  BY <1>4, <1>5

LEMMA SuggestionIsSound ==
    ASSUME NEW p, p.minimum \in Int \cup {Undefined}, p.maximum \in Int \cup {Undefined}, Even(p)
    PROVE  specErrors(suggestSpec(p)) = {}
<1> DEFINE min == Or(p.minimum, 0)
           max == Or(p.maximum, 100 * One)
           integer == p.type = "integer"
           daily == dailyMax(max)
           step == Larger((max - min) \div 40, IF integer THEN One ELSE 2)
           start == min + (max - min) \div 2
<1>1. min \in Int /\ max \in Int /\ integer \in BOOLEAN
  BY NoValues DEF Or, One
<1>2. /\ min <= max
      /\ integer => Whole(min) /\ Whole(max) /\ Whole((max - min) \div 2)
      /\ p.name \in CountLike => min <= daily
  BY Zenon DEF Even
<1> HIDE DEF min, max
<1>3. daily \in Int /\ Whole(daily)
  <2>1. (max * 2) \div 5 \in Int
    BY <1>1
  <2> QED
    BY <2>1, RoundStays DEF dailyMax
<1>4. step \in Int /\ step > 0
  <2>1. (max - min) \div 40 \in Int
    BY <1>1
  <2> QED
    BY <2>1 DEF Larger, One
<1>5. start \in Int /\ (integer => Whole(start))
  <2> DEFINE half == (max - min) \div 2
  <2>1. half \in Int
    BY <1>1
  <2> HIDE DEF half
  <2>2. Whole(min) /\ Whole(half) => Whole(min + half)
    BY <1>1, <2>1 DEF Whole, One
  <2> QED
    BY <1>1, <1>2, <2>1, <2>2 DEF half
<1> HIDE DEF integer, daily, step, start
<1>6. specErrors(suggestNumber(p)) = {}
  <2>1. suggestNumber(p) = IF p.name \in CountLike
          THEN [kind |-> "dailyProfile", min |-> min, max |-> daily,
                peakHours |-> <<8 * One, 17 * One>>, noise |-> 3, integer |-> integer]
          ELSE [kind |-> "randomWalk", min |-> min, max |-> max, step |-> step, start |-> start,
                integer |-> integer]
    BY Zenon DEF suggestNumber, min, max, integer, daily, step, start
  <2>2. CASE p.name \in CountLike
    BY <1>1, <1>2, <1>3, <2>1, <2>2, SuggestedCurveIsSound
  <2>3. CASE p.name \notin CountLike
    BY <1>1, <1>2, <1>4, <1>5, <2>1, <2>3, SuggestedWalkIsSound
  <2> QED
    BY <2>2, <2>3
<1>7. MUSTERHAUSEN.lat \in Int /\ MUSTERHAUSEN.lon \in Int
  BY DEF MUSTERHAUSEN
<1>8. specErrors([kind |-> "now"]) = {}
  BY DEF specErrors
<1>9. \A value : specErrors([kind |-> "constant", value |-> value]) = {}
  BY DEF specErrors
<1>10. ASSUME NEW values, values # <<>> PROVE specErrors([kind |-> "enum", values |-> values]) = {}
  BY <1>10 DEF specErrors, When
<1>11. \/ suggestSpec(p) = [kind |-> "sequence", start |-> One, padTo |-> 4 * One]
       \/ suggestSpec(p) = [kind |-> "now"]
       \/ \E values : values # <<>> /\ suggestSpec(p) = [kind |-> "enum", values |-> values]
       \/ \E center \in {MUSTERHAUSEN.lat, MUSTERHAUSEN.lon} :
            suggestSpec(p) = [kind |-> "jitter", spread |-> 1, precision |-> 6 * One, center |-> center]
       \/ \E value : suggestSpec(p) = [kind |-> "constant", value |-> value]
       \/ suggestSpec(p) = suggestNumber(p)
  <2> DEFINE booleans == <<Scalar("boolean", 1), Scalar("boolean", 0)>>
  <2>1. booleans # <<>>
    OBVIOUS
  <2>2. suggestSpec(p) =
          IF p.primaryKey THEN [kind |-> "sequence", start |-> One, padTo |-> 4 * One]
          ELSE IF p.date THEN [kind |-> "now"]
          ELSE IF p.enum \notin {Undefined, <<>>} THEN [kind |-> "enum", values |-> p.enum]
          ELSE IF p.type = "boolean" THEN [kind |-> "enum", values |-> booleans]
          ELSE IF p.name \in LatLike \cup LonLike
            THEN [kind |-> "jitter", spread |-> 1, precision |-> 6 * One,
                  center |-> IF p.name \in LatLike THEN MUSTERHAUSEN.lat ELSE MUSTERHAUSEN.lon]
          ELSE IF p.type = "string" THEN [kind |-> "constant", value |-> Scalar("string", 5)]
          ELSE suggestNumber(p)
    BY Zenon DEF suggestSpec
  <2> HIDE DEF booleans
  <2> QED
    BY <2>1, <2>2, Zenon
<1> QED
  BY <1>6, <1>7, <1>8, <1>9, <1>10, <1>11, SuggestedSequenceIsSound, SuggestedJitterIsSound

\* The fields suggested for a structure have names of their own and no errors.
LEMMA SuggestedFieldsAreFine ==
    ASSUME NEW ds, Readings(ds), WellNamed(ds), \A i \in DOMAIN ds.properties : Even(ds.properties[i])
    PROVE  /\ Unique(SuggestedFields(ds)) /\ \A name \in Names(SuggestedFields(ds)) : ~NoWord(name)
           /\ \A i \in DOMAIN SuggestedFields(ds) : specErrors(SuggestedFields(ds)[i].spec) = {}
           /\ Names(SuggestedFields(ds)) \in SUBSET Names(ds.properties)
           /\ keyOf(ds) # Undefined => keyOf(ds) \in Names(SuggestedFields(ds))
<1> DEFINE kept == supported(ds)
           f == SuggestedFields(ds)
           n == Len(kept)
<1>1. /\ n \in Nat /\ DOMAIN kept = 1 .. n
      /\ \A k \in DOMAIN kept : \E i \in DOMAIN ds.properties : kept[k] = ds.properties[i]
      /\ \A i \in DOMAIN ds.properties :
           ~ds.properties[i].unsupported => \E k \in DOMAIN kept : kept[k] = ds.properties[i]
  BY SupportedIs
<1>2. /\ \A i \in DOMAIN kept : ~NoWord(kept[i].name)
      /\ \A i, j \in DOMAIN kept : kept[i].name = kept[j].name => i = j
  BY DEF WellNamed
<1>3. /\ DOMAIN f = 1 .. n /\ f = [i \in 1 .. n |-> f[i]]
      /\ \A i \in 1 .. n : f[i].name = kept[i].name /\ f[i].spec = suggestSpec(kept[i])
  BY <1>1 DEF SuggestedFields, Field
<1>4. \A i \in DOMAIN kept : specErrors(suggestSpec(kept[i])) = {}
  <2> SUFFICES ASSUME NEW k \in DOMAIN kept
               PROVE  specErrors(suggestSpec(kept[k])) = {}
    OBVIOUS
  <2>1. PICK i \in DOMAIN ds.properties : kept[k] = ds.properties[i]
    BY <1>1
  <2> DEFINE p == ds.properties[i]
  <2>2. p.minimum \in Int \cup {Undefined} /\ p.maximum \in Int \cup {Undefined} /\ Even(p)
    BY DEF Readings
  <2> HIDE DEF p
  <2>3. specErrors(suggestSpec(p)) = {}
    BY <2>2, SuggestionIsSound
  <2> QED
    BY <2>1, <2>3 DEF p
<1>5. keyOf(ds) # Undefined => \E i \in DOMAIN ds.properties :
        ds.properties[i].primaryKey /\ keyOf(ds) = ds.properties[i].name
  <2> DEFINE all == ds.properties
             keys == {i \in DOMAIN all : all[i].primaryKey}
             m == Len(all)
  <2>1. m \in Nat /\ DOMAIN all = 1 .. m
    <3>1. all \in Seq({all[i] : i \in DOMAIN all})
      BY DEF Readings
    <3> HIDE DEF all
    <3> QED
      BY <3>1
  <2>2. keyOf(ds) # Undefined => keys # {} /\ keyOf(ds) = all[Nth(keys, 1)].name
    BY DEF keyOf
  <2>3. keys \in SUBSET (1 .. m)
    BY <2>1
  <2>4. keys # {} => Nth(keys, 1) \in keys
    <3> HIDE DEF keys, m, all
    <3>1. IsFiniteSet(keys) /\ Cardinality(keys) \in Nat
      BY <2>1, <2>3, UpToIs
    <3>2. keys # {} => 1 \in 1 .. Cardinality(keys)
      BY <3>1, FS_EmptySet
    <3> QED
      BY <2>1, <2>3, <3>2, NthPlace
  <2>5. \A i \in keys : i \in DOMAIN all /\ all[i].primaryKey
    OBVIOUS
  <2> HIDE DEF keys
  <2> QED
    BY <2>2, <2>4, <2>5
<1>6. keyOf(ds) # Undefined => \E k \in 1 .. n : keyOf(ds) = kept[k].name
  <2>1. \A i \in DOMAIN ds.properties : ds.properties[i].primaryKey => ~ds.properties[i].unsupported
    BY DEF Readings
  <2> QED
    BY <1>1, <1>5, <2>1
<1>7. FieldList(f)
  BY SuggestedIsList
<1> HIDE DEF kept, f, n
<1>8. Unique(f)
  BY <1>1, <1>2, <1>3, <1>7, DifferentNames
<1>9. Names(f) = {kept[i].name : i \in 1 .. n}
  BY <1>3 DEF Names
<1>10. (\A name \in Names(f) : ~NoWord(name)) /\ Names(f) \in SUBSET Names(ds.properties)
  <2>1. \A name \in Names(f) : ~NoWord(name)
    BY <1>1, <1>2, <1>9
  <2>2. \A k \in 1 .. n : kept[k].name \in Names(ds.properties)
    BY <1>1 DEF Names
  <2> QED
    BY <1>9, <2>1, <2>2
<1>11. keyOf(ds) # Undefined => keyOf(ds) \in Names(f)
  BY <1>6, <1>9
<1>12. \A i \in DOMAIN f : specErrors(f[i].spec) = {}
  BY <1>1, <1>3, <1>4
<1> QED
  BY <1>8, <1>10, <1>11, <1>12 DEF f

\* Nothing is wrong with a suggested table.
LEMMA SuggestedTableIsValid ==
    ASSUME NEW d, NEW ds, SuggestedRows(d, ds), d.cadence = Undefined, ~NoWord(ds.name),
           keyOf(ds) # Undefined, ~NoWord(keyOf(ds)), Names(d.fields) \cap Dotted = {}
    PROVE  isSql(d) /\ ~fills(d) /\ sqlErrors(d) = {} /\ ~IntervalOff(d)
<1>1. /\ d.transport = [kind |-> "sql", table |-> ds.name, readDsn |-> Undefined]
      /\ d.primaryKey = keyOf(ds) /\ d.intervalSeconds = 1200
      /\ d.seedRows = 2000 /\ d.insertsPerTick = 20 /\ d.maxRows = 100000
  BY DEF SuggestedRows, Sql, One
<1>2. isSql(d) /\ ~TableMissing(d) /\ ~KeyMissing(d) /\ ~HasDots(d)
  <2>1. isSql(d) /\ d.transport.table = ds.name
    BY <1>1 DEF isSql
  <2> QED
    <3>1. ~TableMissing(d)
      BY <2>1, Zenon DEF TableMissing, NoWord
    <3>2. ~KeyMissing(d)
      <4>1. d.primaryKey = keyOf(ds)
        BY <1>1
      <4> QED
        BY <4>1, Zenon DEF KeyMissing, NoWord
    <3>3. ~HasDots(d)
      BY DEF HasDots
    <3> QED
      BY <2>1, <3>1, <3>2, <3>3
<1>3. ~fills(d)
  BY NoTexts DEF fills
<1>4. wholeIn(2000, 0, 10000) /\ wholeIn(20, 0, 100) /\ wholeIn(100000, 1, 100000)
  BY DEF wholeIn, isNumber, Whole, One
<1>5. ~SeedsBroken(d) /\ ~InsertsBroken(d)
  BY <1>1, <1>4 DEF SeedsBroken, InsertsBroken, rowsError
<1>6. ~LimitOff(d)
  BY <1>1, <1>4, NoValues DEF LimitOff, maxRowsError, rowsError
<1>7. ~IntervalOff(d)
  BY <1>1 DEF IntervalOff, intervalError, isNumber, One
<1> QED
  BY <1>2, <1>3, <1>5, <1>6, <1>7, TableValidIff

LEMMA SettingIsKnown ==
    ASSUME NEW s, Setting(s)
    PROVE  ~NullPassesForDefault(s)
<1>1. Null \notin Int \cup {Undefined, NaN}
  BY NoValues
<1>2. /\ s.kind = "sequence" => DOMAIN s = {"kind", "start", "padTo"}
      /\ s.kind = "jitter" => DOMAIN s = {"kind", "center", "spread", "precision"}
  BY SettingsOf
<1>3. \A key \in DOMAIN s \cap Numeric : s[key] \in Int \cup {Undefined, NaN}
  BY DEF Setting, SettingOr, isNumber
<1> QED
  BY <1>1, <1>2, <1>3 DEF NullPassesForDefault, Numeric

LEMMA SuggestedIsValid ==
    ASSUME NEW ds, Readings(ds), WellNamed(ds), Referable(ds), \A i \in DOMAIN ds.properties : Even(ds.properties[i]),
           keyOf(ds) # Undefined => Names(ds.properties) \cap Dotted = {},
           SuggestedFields(ds) # <<>>, NEW broker, broker \in GoodUrls \/ NoWord(broker), NEW d,
           d = draftFromDataStructure(ds, broker), isSql(d) \/ ~NoWord(broker)
    PROVE  validate(d) = {} /\ simulationInputSchema(toInput(d))
<1> DEFINE f == SuggestedFields(ds)
<1>1. /\ Drafted(d) /\ d.name = ds.name /\ d.fields = f /\ d.cadence = Undefined
      /\ d.origin = SuggestedOrigin(ds)
      /\ keyOf(ds) # Undefined => SuggestedRows(d, ds)
      /\ keyOf(ds) = Undefined => d.transport = Mqtt(broker, topicFor(ds.name)) /\ d.intervalSeconds = 10 * One
  BY SuggestedIs, SuggestedIsDrafted, Zenon
<1>2. /\ Unique(f) /\ \A name \in Names(f) : ~NoWord(name)
      /\ \A i \in DOMAIN f : specErrors(f[i].spec) = {}
      /\ Names(f) \in SUBSET Names(ds.properties)
      /\ keyOf(ds) # Undefined => keyOf(ds) \in Names(f)
  BY SuggestedFieldsAreFine
<1>3. \A i \in DOMAIN f : Setting(f[i].spec)
  BY SuggestedIsList
<1>8. ~TextSlips(d) /\ ~NullSlips(d)
  <2>1. ~TextSlips(d)
    <3>1. ds.name \notin TooLong /\ originSchema(d.origin)
      BY <1>1, SuggestedOriginIsTaken DEF Referable
    <3> QED
      BY <1>1, <3>1, Zenon DEF TextSlips
  <2>2. ~NullSlips(d)
    BY <1>1, <1>3, SettingIsKnown DEF NullSlips
  <2> QED
    BY <2>1, <2>2
<1>4. ~NoWord(ds.name) /\ f # <<>>
  BY DEF WellNamed
<1> HIDE DEF f
<1>5. ~NameMissing(d) /\ ~FieldUnnamed(d) /\ d.fields # <<>> /\ SpecsBroken(d) = {} /\ Unique(d.fields)
  <2>1. ~NameMissing(d) /\ ~FieldUnnamed(d)
    BY <1>1, <1>2, <1>4, Zenon DEF NameMissing, FieldUnnamed, NoWord
  <2> QED
    <3>1. \A i \in DOMAIN d.fields : specErrors(d.fields[i].spec) = {}
      BY <1>1, <1>2, Zenon
    <3>2. SpecsBroken(d) = {}
      BY <3>1 DEF SpecsBroken
    <3>3. Unique(d.fields) /\ d.fields # <<>>
      BY <1>1, <1>2, <1>4, Zenon
    <3> QED
      BY <2>1, <3>2, <3>3
<1>6. CASE keyOf(ds) # Undefined
  <2>1. Names(d.fields) \cap Dotted = {}
    BY <1>1, <1>2, <1>6
  <2>2. isSql(d) /\ ~fills(d) /\ sqlErrors(d) = {} /\ ~IntervalOff(d)
    BY <1>1, <1>2, <1>4, <1>6, <2>1, SuggestedTableIsValid
  <2>3. validate(d) = {}
    BY <1>5, <2>2, ValidIff DEF WayBroken
  <2>4. d.primaryKey \in Names(d.fields)
    BY <1>1, <1>2, <1>6 DEF SuggestedRows
  <2>5. ~SlipsThrough(d)
    BY <1>8, <2>2, <2>4, SlipsAre DEF UrlSlips, KeySlips, SeedsSlip, InsertsSlip, IntervalSlips
  <2> QED
    BY <1>1, <2>3, <2>5, ValidIsTaken
<1>7. CASE keyOf(ds) = Undefined
  <2>1. d.transport = [kind |-> "mqtt", url |-> broker, topic |-> topicFor(ds.name)] /\ d.intervalSeconds = 200
    BY <1>1, <1>7 DEF Mqtt, One
  <2>2. ~isSql(d) /\ ~fills(d)
    BY <2>1 DEF isSql, fills
  <2>3. topicFor(ds.name) # <<>>
    <3>1. <<"civitas", ds.name>> # <<>>
      OBVIOUS
    <3> QED
      BY <1>4, <3>1, Zenon DEF topicFor, NoWord
  <2>4. ~UrlMissing(d) /\ d.transport.topic # <<>> /\ d.transport.url \in GoodUrls
    <3>1. d.transport.url = broker /\ d.transport.topic = topicFor(ds.name)
      BY <2>1
    <3> QED
      BY <2>2, <2>3, <3>1, Zenon DEF UrlMissing, NoWord
  <2>5. WayBroken(d) = {}
    BY <2>2, <2>4 DEF WayBroken, When
  <2>6. ~IntervalOff(d)
    BY <2>1 DEF IntervalOff, intervalError, isNumber, One
  <2>7. validate(d) = {}
    BY <1>5, <2>5, <2>6, ValidIff
  <2>8. ~SlipsThrough(d)
    BY <1>8, <2>2, <2>4, SlipsAre DEF UrlSlips, KeySlips, SeedsSlip, InsertsSlip, IntervalSlips
  <2> QED
    BY <1>1, <2>7, <2>8, ValidIsTaken
<1> QED
  BY <1>6, <1>7

-----------------------------------------------------------------------------
(* The theorems.                                                           *)

\* Of the drafts the form calls valid the service refuses those that slip through its
\* check, and no others, whatever was edited, pasted or loaded before (validate,
\* toInput, simulationInputSchema).
THEOREM ValidDraftsAreTaken ==
    ASSUME JsonKeeps
    PROVE  Spec => []ValidIsAccepted
<1>1. Init => FormInv
  BY FormStarts
<1>2. FormInv /\ [Next]_vars => FormInv'
  BY FormStays
<1>3. FormInv => ValidIsAccepted
  BY ValidIsTaken, Zenon DEF FormInv, ValidIsAccepted
<1> QED
  BY <1>1, <1>2, <1>3, PTL DEF Spec

\* The text of a valid draft reads back as a valid draft that sends the same body, but
\* for the address the platform reads a table at (toInput, fromJson).
THEOREM JsonIsTheForm ==
    ASSUME JsonKeeps
    PROVE  Spec => []JsonSavesTheSame
<1>1. Init => FormInv
  BY FormStarts
<1>2. FormInv /\ [Next]_vars => FormInv'
  BY FormStays
<1>3. FormInv => JsonSavesTheSame
  BY RereadIsValid, RereadIsSent, Zenon DEF FormInv, JsonSavesTheSame, Reread
<1> QED
  BY <1>1, <1>2, <1>3, PTL DEF Spec

\* A simulation that was saved from the editor, opened and saved unchanged stays
\* what it was (toInput, the schema's defaults, toDraft).
THEOREM SavedIsKept ==
    ASSUME JsonKeeps, StoredByEditor
    PROVE  Spec => []ReopenKeeps
<1>1. Init => FormInv /\ StoreReturns(sims)
  BY FormStarts, StoreStarts
<1>2. FormInv /\ StoreReturns(sims) /\ [Next]_vars => (FormInv /\ StoreReturns(sims))'
  BY FormStays, StoreStays
<1>3. FormInv /\ StoreReturns(sims) => ReopenKeeps
  BY Zenon DEF StoreReturns, ReopenKeeps
<1> QED
  BY <1>1, <1>2, <1>3, PTL DEF Spec

\* A draft suggested from a structure passes the form's check and the service's as
\* it is, for every portal whose names are usable, if the structure's numbers, dots
\* and lengths are those SuggestionsPass asks for (draftFromDataStructure,
\* suggestSpec, validate, simulationInputSchema).
THEOREM SuggestionsCanBeSaved ==
    ASSUME Suggestable, BrokerUrl \in GoodUrls \/ NoWord(BrokerUrl)
    PROVE  Spec => []SuggestionsPass
<1>1. Init => SuggestInv
  BY Zenon DEF Init, SuggestInv
<1>2. SuggestInv /\ [Next]_vars => SuggestInv'
  BY SuggestStays
<1>3. SuggestInv => SuggestionsPass
  <2> SUFFICES ASSUME SuggestInv, page # None, draft = page.initial, page.from # None, page.from.source = None,
                      Referable(page.from.ds),
                      \A i \in DOMAIN page.from.ds.properties : Even(page.from.ds.properties[i]),
                      keyOf(page.from.ds) # Undefined => Names(page.from.ds.properties) \cap Dotted = {},
                      draft.fields # <<>>, isSql(draft) \/ ~NoWord(page.broker)
               PROVE  validate(draft) = {} /\ simulationInputSchema(toInput(draft))
    BY Zenon DEF SuggestionsPass, NoWord, Referable
  <2>1. PICK readable \in BOOLEAN : page.from.ds \in getDataStructures(Page, readable, Examples)
    BY Zenon DEF SuggestInv
  <2> DEFINE ds == page.from.ds
  <2>2. page.broker = BrokerUrl /\ draft = draftFromDataStructure(ds, BrokerUrl)
    BY Zenon DEF SuggestInv
  <2>3. Readings(ds) /\ WellNamed(ds)
    BY <2>1, EditorAssumption, Zenon DEF Suggestable
  <2>4. SuggestedFields(ds) # <<>>
    <3>1. draftFromDataStructure(ds, BrokerUrl).fields = SuggestedFields(ds)
      BY SuggestedIs
    <3> HIDE DEF ds
    <3> QED
      BY <2>2, <3>1, Zenon
  <2> QED
    BY <2>2, <2>3, <2>4, SuggestedIsValid, Zenon
<1> QED
  BY <1>1, <1>2, <1>3, PTL DEF Spec

\* A bound draft, as it was opened, publishes where the source listens, on a topic
\* without wildcards, for every portal and every list of sources whose subscription
\* has no wildcard but a last one (bindToDataSource, topicUnder).
THEOREM BoundDraftsAreHeard == Spec => []PublishesWhereTheSourceListens
<1>1. Init => BoundInv
  BY Zenon DEF Init, BoundInv
<1>2. BoundInv /\ [Next]_vars => BoundInv'
  BY BoundStays
<1>3. BoundInv => PublishesWhereTheSourceListens
  <2> SUFFICES ASSUME BoundInv, page # None, page.from # None, page.from.source # None,
                      draft = page.initial, page.from.source.kind = "mqtt", page.from.source.topics # <<>>,
                      Publishable(IF Len(page.from.source.topics[1]) > 1 THEN Front(page.from.source.topics[1])
                                  ELSE page.from.source.topics[1])
               PROVE  /\ Delivers(page.from.source.topics[1], draft.transport.topic)
                      /\ Publishable(draft.transport.topic)
    BY Zenon DEF PublishesWhereTheSourceListens
  <2> DEFINE source == page.from.source
  <2>1. /\ draft = bindToDataSource(draftFromDataStructure(page.from.ds, page.broker), source)
        /\ source \in Sources
    BY Zenon DEF BoundInv
  <2>2. Feeds(source)
    BY <2>1, EditorAssumption, Zenon
  <2>3. draft.transport.topic = topicUnder(source)
    <3> DEFINE bound == bindToDataSource(draftFromDataStructure(page.from.ds, page.broker), source)
    <3>1. bound.transport.topic = topicUnder(source)
      <4>1. source.kind = "mqtt" /\ source.topics # <<>>
        OBVIOUS
      <4> HIDE DEF source
      <4> QED
        BY <4>1, TopicIsBound
    <3>2. draft = bound
      BY <2>1
    <3> HIDE DEF bound
    <3> QED
      BY <3>1, <3>2
  <2> QED
    BY <2>2, <2>3, TopicIsHeard, Zenon
<1> QED
  BY <1>1, <1>2, <1>3, PTL DEF Spec

=============================================================================
