----------------------------- MODULE FieldEditor -----------------------------
(***************************************************************************)
(* One field of the editor's form: the generator setting it edits and the  *)
(* inputs on screen.  An input keeps the text as typed; the setting gets   *)
(* what the text says.  The text is rebuilt only when the setting changed  *)
(* from outside.  React keeps an input's state when the next render has an *)
(* input of the same type in the same place, whatever setting it shows.    *)
(*                                                                         *)
(* A text is what it reads as: empty, a lone minus, broken (not a number), *)
(* a number, a number on its way ("8,"), or a truth value.  A list's text  *)
(* is its items, and whether a separator follows the last one.             *)
(***************************************************************************)
EXTENDS Generators

CONSTANTS NumberTexts,   \* what is typed into a number input
          ScalarTexts,   \* what is typed into the input of a constant
          ListTexts,     \* what is typed into a list input
          Neighbours     \* settings of the other fields: one of them moves into
                         \* this place when a field above is removed

Text(form, says) == [form |-> form, says |-> says]
Empty == Text("empty", 0)

\* A number's text says a number; a word is one that reads as nothing else.
Legible(text) ==
  /\ text.form \in {"empty", "minus", "broken", "number", "partial", "boolean", "word"}
  /\ text.form \in {"number", "partial"} => isNumber(text.says)
  /\ text.form = "word" => text.says \in Nat /\ text.says > 2

ASSUME FieldAssumption ==
  /\ \A text \in NumberTexts \cup ScalarTexts : Legible(text)
  /\ \A text \in ListTexts : /\ text.items \in Seq({text.items[i] : i \in DOMAIN text.items})
                              /\ \A i \in DOMAIN text.items : Legible(text.items[i])
  /\ \A next \in Neighbours : Shaped(next)

VARIABLES spec,      \* the field's setting
          inputs,    \* place -> the input's text and the value it last saw
          carried    \* places whose broken text outlived the setting it was typed for

vars == <<spec, inputs, carried>>

-----------------------------------------------------------------------------
(* Reading and showing values.                                             *)

\* A slip: what is not a number hides behind a 0.
BrokenIsZero(text) ==
  CASE text.form \in {"number", "partial"} -> text.says
    [] text.form \in {"empty", "minus"} -> Undefined
    [] OTHER -> 0

parseNumber(text) ==
  CASE text.form \in {"number", "partial"} -> text.says
    [] text.form \in {"empty", "minus"} -> Undefined
    [] OTHER -> NaN

\* null is neither undefined nor NaN: it is shown as 0 and taken for a number.
Present(v) == v # Undefined /\ v # NaN
formatDecimal(v) == IF Present(v) THEN Text("number", Or(v, 0)) ELSE Empty

\* A slip: empty and broken are told apart.
strictlySame(a, b) == a = b

sameNumber(a, b) == IF Present(a) /\ Present(b) THEN a = b ELSE Present(a) = Present(b)

\* A string is known by its number: "" is 0, "-" is 1, the broken text is 2, a
\* word is more than 2, and -n is the string whose characters are the number n.
Words == <<"empty", "minus", "broken">>
parseScalar(text) ==
  CASE text.form \in {"number", "partial"} -> Scalar("number", text.says)
    [] text.form = "boolean" -> Scalar("boolean", text.says)
    [] OTHER -> Scalar("string", IF text.form = "word" THEN text.says
                                 ELSE (CHOOSE w \in DOMAIN Words : Words[w] = text.form) - 1)
formatScalar(value) ==
  CASE value.type = "number" -> Text("number", value.is)
    [] value.type = "boolean" -> Text("boolean", value.is)
    [] value.type = "string" /\ value.is < 0 -> Text("number", -value.is)
    [] value.type = "string" /\ value.is \in 0 .. 2 -> Text(Words[value.is + 1], 0)
    [] OTHER -> Text("word", value.is)

splitList(text) == Listed(text.items, {i \in DOMAIN text.items : text.items[i].form # "empty"})
parseHour(item) == IF parseNumber(item) = Undefined THEN NaN ELSE parseNumber(item)
formatHour(v) == IF v = NaN THEN Empty ELSE IF v = Null THEN Text("broken", 0) ELSE Text("number", v)
Each(Op(_), list) == [i \in DOMAIN list |-> Op(list[i])]

Parse(type, text) ==
  CASE type = "NumberInput" -> parseNumber(text)
    [] type = "ScalarInput" -> parseScalar(text)
    [] type = "HourList"    -> Each(parseHour, splitList(text))
    [] type = "ListInput"   -> Each(parseScalar, splitList(text))
Format(type, value) ==
  CASE type = "NumberInput" -> formatDecimal(value)
    [] type = "ScalarInput" -> formatScalar(value)
    [] type = "HourList"    -> [items |-> Each(formatHour, value), open |-> FALSE]
    [] type = "ListInput"   -> [items |-> Each(formatScalar, value), open |-> FALSE]

\* Lists are the same when they are sent alike.
Same(type, a, b) ==
  CASE type = "NumberInput" -> sameNumber(a, b)
    [] type = "HourList"    -> Each(Wire, a) = Each(Wire, b)
    [] OTHER                -> a = b

-----------------------------------------------------------------------------
(* The form of each kind: the setting and the type of input in each place. *)

Place(key, type) == [key |-> key, type |-> type]
SpecParams(kind) ==
  CASE kind = "now" -> <<>>
    [] kind = "constant" -> <<Place("value", "ScalarInput")>>
    [] kind = "enum" -> <<Place("values", "ListInput")>>
    [] kind = "randomWalk" ->
         <<Place("min", "NumberInput"), Place("max", "NumberInput"),
           Place("step", "NumberInput"), Place("start", "NumberInput")>>
    [] kind = "dailyProfile" ->
         <<Place("min", "NumberInput"), Place("max", "NumberInput"),
           Place("peakHours", "HourList"), Place("noise", "NumberInput")>>
    [] kind = "sequence" ->   \* the prefix comes first, a plain text input
         <<Place("prefix", "Input"), Place("start", "NumberInput"), Place("padTo", "NumberInput")>>
    [] kind = "jitter" ->
         <<Place("center", "NumberInput"), Place("spread", "NumberInput"), Place("precision", "NumberInput")>>

Places(kind) == {p \in DOMAIN SpecParams(kind) : SpecParams(kind)[p].type # "Input"}
Kept(before, after) ==
  {p \in Places(before) \cap Places(after) : SpecParams(before)[p].type = SpecParams(after)[p].type}

\* A setting the generator cannot do without is NaN when it is emptied.
required(key, value) ==
  IF key \in {"min", "max", "step", "center", "spread"} /\ value = Undefined THEN NaN ELSE value

Mounted(type, value) == [text |-> Format(type, value), seen |-> value]

\* A slip: the text belongs to the person typing, whatever happens to the value.
NeverRebuilt(input, type, value) == input

\* ParsedInput's render: the text is rebuilt when the value is not the one last
\* seen and not what the text says.
Rendered(input, type, value) ==
  IF Same(type, value, input.seen) THEN input
  ELSE [text |-> IF Same(type, Parse(type, input.text), value) THEN input.text
                                                               ELSE Format(type, value),
        seen |-> value]

\* The inputs after a render with the setting `next`.
Render(shown, next) ==
  [p \in Places(next.kind) |->
     LET place == SpecParams(next.kind)[p]
     IN  IF p \in Kept(spec.kind, next.kind) THEN Rendered(shown[p], place.type, next[place.key])
                                             ELSE Mounted(place.type, next[place.key])]

Broken(input) == "form" \in DOMAIN input.text /\ input.text.form = "broken"
NumberPlaces == {p \in DOMAIN inputs : SpecParams(spec.kind)[p].type = "NumberInput"}

-----------------------------------------------------------------------------
Init == /\ \E kind \in Kinds : spec = defaultSpec(kind)
        /\ inputs = [p \in Places(spec.kind) |->
                       Mounted(SpecParams(spec.kind)[p].type, spec[SpecParams(spec.kind)[p].key])]
        /\ carried = {}

TextsFor(type) == CASE type = "NumberInput" -> NumberTexts
                    [] type = "ScalarInput" -> ScalarTexts
                    [] OTHER -> ListTexts

\* A keystroke: the text as typed, what it says to the setting, one render.
Type(p, text) ==
  LET place == SpecParams(spec.kind)[p]
      says  == Parse(place.type, text)
      next  == [spec EXCEPT ![place.key] = required(place.key, says)]
  IN  /\ spec' = next
      /\ inputs' = Render([inputs EXCEPT ![p] = [text |-> text, seen |-> says]], next)
      /\ carried' = carried \ {p}

\* Another setting takes the place of this one.
Become(next) ==
  /\ spec' = next
  /\ inputs' = Render(inputs, next)
  /\ carried' = {p \in Kept(spec.kind, next.kind) : Broken(inputs'[p])}

SwitchKind(kind) == kind # spec.kind /\ Become(defaultSpec(kind))
Replaced(next)   == Become(next)

ToggleInteger ==
  /\ spec.kind \in {"randomWalk", "dailyProfile"}
  /\ spec' = [spec EXCEPT !.integer = (@ # TRUE)]
  /\ inputs' = Render(inputs, spec')
  /\ UNCHANGED carried

\* To the JSON view and back: the form is built anew from the settings.  A text
\* that is applied there brings them back as they are sent, NaN as null.
Reopened(applied) ==
  /\ spec' = IF applied THEN OnWire(spec) ELSE spec
  /\ inputs' = [p \in DOMAIN inputs |->
                  Mounted(SpecParams(spec.kind)[p].type, spec'[SpecParams(spec.kind)[p].key])]
  /\ carried' = {}

Next == \/ \E p \in DOMAIN inputs : \E text \in TextsFor(SpecParams(spec.kind)[p].type) : Type(p, text)
        \/ \E kind \in Kinds : SwitchKind(kind)
        \/ \E next \in Neighbours : Replaced(next)
        \/ ToggleInteger
        \/ \E applied \in BOOLEAN : Reopened(applied)

Spec == Init /\ [][Next]_vars

-----------------------------------------------------------------------------
\* Every place of the kind's form has an input and no other place has one.
TypeOK == /\ spec.kind \in Kinds
          /\ DOMAIN inputs = Places(spec.kind)
          /\ carried \subseteq Places(spec.kind)

\* Typing never rewrites a text: not the one being typed (a comma or a minus on
\* the way to a number stays) and not that of another input (parsed-input.tsx:18-23).
TypedTextStays ==
  [][spec'.kind = spec.kind =>
       \A p \in {q \in DOMAIN inputs : inputs'[q] # inputs[q]} :
         \A text \in TextsFor(SpecParams(spec.kind)[p].type) :
           Type(p, text) => /\ inputs'[p].text = text
                            /\ \A q \in DOMAIN inputs \ {p} : inputs'[q].text = inputs[q].text]_vars

\* What the text of an input can say: an hour that is a number, a string that does
\* not read as a number, and no empty string in a list.  Other values come from the
\* JSON view, a structure or the service, never from typing.
Sayable(type, v) ==
  LET plain(scalar) == scalar.type = "string" => scalar.is >= 0
  IN  CASE type = "NumberInput" -> TRUE
        [] type = "ScalarInput" -> plain(v)
        [] type = "HourList"    -> \A i \in DOMAIN v : isNumber(v[i])
        [] type = "ListInput"   -> \A i \in DOMAIN v : plain(v[i]) /\ v[i] # Scalar("string", 0)

\* What an input shows reads as the setting that would be saved, also after the
\* kind was switched, a field above was removed or the JSON view was visited.  A
\* null, which an applied JSON text leaves of a broken number, shows as 0.
ShowsWhatItHolds ==
  \A p \in DOMAIN inputs :
    LET place == SpecParams(spec.kind)[p]
        value == spec[place.key]
    IN  Sayable(place.type, value) =>
          Same(place.type, Parse(place.type, inputs[p].text),
               IF place.type = "NumberInput" /\ value = Null THEN 0 ELSE value)

\* A text that is no number is named by the check (numbers.ts:8-9), unless it was
\* typed for another setting and stayed on screen when this one took the place.
BrokenIsNamed ==
  \A p \in NumberPlaces : Broken(inputs[p]) => p \in carried \/ SpecParams(spec.kind)[p].key \in specErrors(spec)

\* The service takes every setting the editor finds nothing wrong with, broken
\* numbers that the JSON view made null included, those three settings apart.
AcceptedByService ==
  specErrors(spec) = {} /\ ~NullPassesForDefault(spec) => generatorSpecSchema(OnWire(spec))

\* A walk or a daily profile without an error stays between min and max from any
\* position it can have reached, rounding included.
ValuesInRange ==
  (specErrors(spec) = {} /\ spec.kind \in {"randomWalk", "dailyProfile"}) =>
    LET at == IF spec.kind = "randomWalk" THEN {StartOf(spec), spec.min, spec.max} ELSE {}
    IN  \A value \in Values(spec, at) : value.is \in spec.min .. spec.max

\* A column of the type the editor derives takes every value of the generator, if
\* the constant or the range of an integer column fits in four bytes.  A list of
\* different types is left out: the first value decides the column.
ColumnHolds ==
  (/\ specErrors(spec) = {} /\ WithinColumn(spec)
   /\ spec.kind = "enum" => \A i \in DOMAIN spec.values : spec.values[i].type = spec.values[1].type) =>
    LET at == IF spec.kind = "randomWalk" THEN {StartOf(spec), spec.min, spec.max} ELSE {}
    IN  \A value \in Values(Parsed(spec), at) : Fits(columnTypeFor(spec), value)
=============================================================================
