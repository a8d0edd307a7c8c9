----------------------------- MODULE Generators -----------------------------
(***************************************************************************)
(* The settings of one field's generator: what the service's schema takes, *)
(* what the editor's check names, which column a table gets for it and     *)
(* which values it produces.                                               *)
(*                                                                         *)
(* Numbers are whole multiples of a twentieth (One is the number 1); a     *)
(* positive number below a twentieth counts as one.  A scalar setting is a *)
(* record: its type and which number, truth value or word it is.  A        *)
(* setting that is not sent is Undefined, one that is not a number is NaN, *)
(* which JSON turns into Null.                                             *)
(***************************************************************************)
EXTENDS Integers, Sequences, FiniteSets

CONSTANTS Undefined, NaN, Null,
          MaxInteger     \* the largest number an integer column takes: 2^31 - 1 in Postgres

Kinds == {"constant", "now", "enum", "randomWalk", "dailyProfile", "sequence", "jitter"}

ASSUME NoValues == /\ \A v \in {Undefined, NaN, Null} :
                        v \notin Int /\ v \notin BOOLEAN /\ v \notin Kinds /\ v # <<>>
                   /\ Undefined # NaN /\ Undefined # Null /\ NaN # Null
                   /\ MaxInteger \in Nat

One == 20
Whole(v) == v % One = 0
isNumber(v) == v \in Int
When(found, key) == IF found THEN {key} ELSE {}
Or(value, default) == IF value \in {Undefined, Null} THEN default ELSE value

\* The settings that are numbers.
Numeric == {"min", "max", "step", "start", "noise", "padTo", "center", "spread", "precision"}

Scalar(type, is) == [type |-> type, is |-> is]

\* The k-th of some places of a list, and a list's elements at some of its places.
Nth(places, k) == CHOOSE i \in places : Cardinality({j \in places : j <= i}) = k
Listed(list, places) == [k \in 1 .. Cardinality(places) |-> list[Nth(places, k)]]

-----------------------------------------------------------------------------
(* The editor's checks: the settings that an error is shown for.           *)

wholeIn(v, from, to) == isNumber(v) /\ Whole(v) /\ v >= from * One /\ v <= to * One

\* A slip: min and max need not be whole although the values are rounded.
RangeOfAnyNumbers(spec) ==
  LET bad == {key \in {"min", "max"} : ~isNumber(spec[key])}
  IN  bad \cup When(bad = {} /\ spec.min > spec.max, "max")

range(spec) ==
  LET bad == {key \in {"min", "max"} :
                \/ ~isNumber(spec[key])
                \/ spec.integer = TRUE /\ ~Whole(spec[key])}
  IN  bad \cup When(bad = {} /\ spec.min > spec.max, "max")

\* A slip: a walk that never moves passes the check.
StandingWalk(spec) ==
  range(spec) \cup When(~isNumber(spec.step), "step")
  \cup When(spec.start # Undefined /\ ~isNumber(spec.start), "start")

walkErrors(spec) ==
  UNION {range(spec),
         When(~isNumber(spec.step) \/ spec.step <= 0, "step"),
         When(/\ spec.start # Undefined
              /\ ~isNumber(spec.start) \/ (spec.integer = TRUE /\ ~Whole(spec.start)), "start")}

profileErrors(spec) ==
  UNION {range(spec),
         When(\/ spec.peakHours = <<>>
              \/ \E i \in DOMAIN spec.peakHours : ~wholeIn(spec.peakHours[i], 0, 23), "peakHours"),
         When(/\ spec.noise # Undefined
              /\ ~isNumber(spec.noise) \/ spec.noise < 0 \/ spec.noise > One, "noise")}

MAX_SAFE_INTEGER == 1000000

specErrors(spec) ==
  CASE spec.kind \in {"constant", "now"} -> {}
    [] spec.kind = "enum"         -> When(spec.values = <<>>, "values")
    [] spec.kind = "randomWalk"   -> walkErrors(spec)
    [] spec.kind = "dailyProfile" -> profileErrors(spec)
    [] spec.kind = "sequence"     ->
         When(~wholeIn(Or(spec.start, One), 0, MAX_SAFE_INTEGER), "start")
         \cup When(~wholeIn(Or(spec.padTo, 0), 0, 12), "padTo")
    [] spec.kind = "jitter"       ->
         UNION {When(~isNumber(spec.center), "center"),
                When(~isNumber(spec.spread) \/ spec.spread <= 0, "spread"),
                When(~wholeIn(Or(spec.precision, 6 * One), 0, 12), "precision")}

-----------------------------------------------------------------------------
(* On the way to the service, and what its schema takes.                   *)

\* JSON.stringify: NaN is null; what is undefined is not sent.
Wire(v) == IF v = NaN THEN Null ELSE v
OnWire(spec) ==
  [s \in DOMAIN spec |-> IF s = "peakHours" THEN [i \in DOMAIN spec[s] |-> Wire(spec[s][i])]
                        ELSE IF s \in Numeric THEN Wire(spec[s]) ELSE spec[s]]

generatorSpecSchema(spec) ==
  CASE spec.kind \in {"constant", "now"} -> TRUE
    [] spec.kind = "enum"         -> spec.values # <<>>
    [] spec.kind = "randomWalk"   ->
         /\ isNumber(spec.min) /\ isNumber(spec.max)
         /\ isNumber(spec.step) /\ spec.step > 0
         /\ spec.start = Undefined \/ isNumber(spec.start)
         /\ spec.integer # Null
    [] spec.kind = "dailyProfile" ->
         /\ isNumber(spec.min) /\ isNumber(spec.max)
         /\ spec.peakHours # <<>>
         /\ \A i \in DOMAIN spec.peakHours : spec.peakHours[i] \in 0 .. 23 * One
         /\ spec.noise = Undefined \/ spec.noise \in 0 .. One
         /\ spec.integer # Null
    [] spec.kind = "sequence"     ->
         /\ spec.start = Undefined \/ (isNumber(spec.start) /\ spec.start >= 0 /\ Whole(spec.start))
         /\ spec.padTo = Undefined \/ wholeIn(spec.padTo, 0, 12)
    [] spec.kind = "jitter"       ->
         /\ isNumber(spec.center) /\ isNumber(spec.spread) /\ spec.spread > 0
         /\ spec.precision = Undefined \/ wholeIn(spec.precision, 0, 12)

\* What the schema fills in for a setting that was not sent.
SchemaDefaults == [integer |-> FALSE, noise |-> 2, padTo |-> 0, precision |-> 6 * One]
Parsed(spec) ==
  [s \in DOMAIN spec |->
     IF spec[s] # Undefined THEN spec[s]
     ELSE CASE s \in DOMAIN SchemaDefaults -> SchemaDefaults[s]
            [] s = "start" /\ spec.kind = "sequence" -> One
            [] OTHER -> Undefined]

defaultSpec(kind) ==
  CASE kind = "constant"     -> [kind |-> kind, value |-> Scalar("string", 0)]
    [] kind = "now"          -> [kind |-> kind]
    [] kind = "enum"         -> [kind |-> kind, values |-> <<Scalar("string", 3), Scalar("string", 4)>>]
    [] kind = "randomWalk"   -> [kind |-> kind, min |-> 0, max |-> 100 * One, step |-> 5 * One,
                                 start |-> Undefined, integer |-> FALSE]
    [] kind = "dailyProfile" -> [kind |-> kind, min |-> 0, max |-> 100 * One,
                                 peakHours |-> <<8 * One, 17 * One>>, noise |-> 2, integer |-> FALSE]
    [] kind = "sequence"     -> [kind |-> kind, start |-> One, padTo |-> 0]
    [] kind = "jitter"       -> [kind |-> kind, center |-> 0, spread |-> 1, precision |-> 6 * One]

\* What a field may hold: the settings of its kind, as in its default, and each
\* number may be missing or broken; from the JSON view it may also be null.
SettingOr(s, marks) ==
  /\ s.kind \in Kinds /\ DOMAIN s = DOMAIN defaultSpec(s.kind)
  /\ s = [key \in DOMAIN s |-> s[key]]
  /\ \A key \in DOMAIN s :
       /\ key \in Numeric => isNumber(s[key]) \/ s[key] \in marks
       /\ key = "integer" => s[key] \in BOOLEAN \cup {Undefined}
       /\ key = "peakHours" => s[key] = [i \in DOMAIN s[key] |-> s[key][i]]
Setting(s) == SettingOr(s, {Undefined, NaN})
Shaped(s)  == SettingOr(s, {Undefined, NaN, Null})

\* A slip: the columns of numbers forget that values may be fractions.
WholeColumns(spec) ==
  CASE spec.kind = "now" -> "timestamptz"
    [] spec.kind \in {"randomWalk", "dailyProfile"} -> "integer"
    [] OTHER -> "text"

\* The service takes columns as given when no schema is sent.
columnTypeFor(spec) ==
  CASE spec.kind = "now" -> "timestamptz"
    [] spec.kind = "sequence" -> "text"
    [] spec.kind = "jitter" -> "double"
    [] spec.kind \in {"randomWalk", "dailyProfile"} ->
         IF spec.integer = TRUE THEN "integer" ELSE "double"
    [] spec.kind = "constant" ->
         (CASE spec.value.type = "number" -> IF Whole(spec.value.is) THEN "integer" ELSE "double"
            [] spec.value.type = "boolean" -> "boolean"
            [] OTHER -> "text")
    [] spec.kind = "enum" ->
         IF spec.values = <<>> THEN "text"
         ELSE CASE spec.values[1].type = "number" -> "double"
                [] spec.values[1].type = "boolean" -> "boolean"
                [] OTHER -> "text"

-----------------------------------------------------------------------------
(* The values a generator produces.                                        *)

Smaller(a, b) == IF a < b THEN a ELSE b
Larger(a, b)  == IF a > b THEN a ELSE b
clamp(v, min, max) == Smaller(max, Larger(min, v))

\* Math.round: to the nearest multiple of unit, halves up.
Round(v, unit) == ((2 * v + unit) \div (2 * unit)) * unit
Rounded(spec, v) == IF spec.integer = TRUE THEN Round(v, One) ELSE v

\* Where a walk begins.
StartOf(spec) == Or(spec.start, (spec.min + spec.max) \div 2)

\* A step of the walk from `current`; the generator keeps the unrounded value.
WalkStep(spec, current) ==
  {clamp(current + offset, spec.min, spec.max) : offset \in {-spec.step, -(spec.step \div 3), 0, spec.step}}

\* The daily curve lies between min and max; noise and rounding follow.
\* Taken at its ends, in the middle and beyond both ends.
ProfileShape(spec) == {spec.min, spec.max, (spec.min + spec.max) \div 2, spec.min - One, spec.max + One}

JitterUnit(spec) == IF spec.precision \in {0} THEN One ELSE IF spec.precision = One THEN 2 ELSE 1

\* createGenerator: the scalars one record may carry for the field; `at` are
\* the positions a walk may have reached.
Values(spec, at) ==
  CASE spec.kind = "constant" -> {spec.value}
    [] spec.kind = "now" -> {Scalar("instant", 0)}
    [] spec.kind = "enum" -> {spec.values[i] : i \in DOMAIN spec.values}
    [] spec.kind = "randomWalk" ->
         {Scalar("number", Rounded(spec, v)) : v \in UNION {WalkStep(spec, current) : current \in at}}
    [] spec.kind = "dailyProfile" ->
         {Scalar("number", Rounded(spec, clamp(v, spec.min, spec.max))) : v \in ProfileShape(spec)}
    [] spec.kind = "sequence" -> {Scalar("string", n) : n \in {Or(spec.start, One)}}
    [] spec.kind = "jitter" ->
         {Scalar("number", Round(spec.center + offset, JitterUnit(spec))) :
            offset \in {-spec.spread, 0, spec.spread}}

\* An integer column is Postgres's four-byte integer.
int4 == -MaxInteger - One .. MaxInteger

\* What a column of the derived type takes.
Fits(type, value) ==
  CASE type = "text" -> TRUE
    [] type = "integer" -> value.type = "number" /\ Whole(value.is) /\ value.is \in int4
    [] type = "double" -> value.type = "number"
    [] type = "boolean" -> value.type = "boolean"
    [] type = "timestamptz" -> value.type = "instant"

-----------------------------------------------------------------------------
(* What gets past the editor's check.                                      *)

\* A null where the check falls back on a default, as it does for a setting that is
\* not sent; the schema refuses it.  Only an applied JSON text leaves one.
NullPassesForDefault(spec) ==
  \/ spec.kind = "sequence" /\ Null \in {spec.start, spec.padTo}
  \/ spec.kind = "jitter" /\ spec.precision = Null

\* The check does not look at the size of whole numbers: these fit their column.
WithinColumn(spec) ==
  columnTypeFor(spec) = "integer" =>
    IF spec.kind = "constant" THEN spec.value.is \in int4 ELSE {spec.min, spec.max} \subseteq int4
=============================================================================
