------------------------- MODULE FieldEditorProofs -------------------------
(***************************************************************************)
(* What the editor promises of a field's setting, for everything that can  *)
(* be typed and for every setting a neighbour may bring along.             *)
(***************************************************************************)
EXTENDS FieldEditor, GeneratorsProofs

-----------------------------------------------------------------------------
(* The inputs and the setting they edit.                                   *)

KeyAt(kind, p)  == SpecParams(kind)[p].key
TypeAt(kind, p) == SpecParams(kind)[p].type

\* Every input last saw the value its place of the setting has.
Current == \A p \in Places(spec.kind) : Same(TypeAt(spec.kind, p), spec[KeyAt(spec.kind, p)], inputs[p].seen)

\* A broken text has left NaN in the setting, or was typed for another one.
Named == \A p \in Places(spec.kind) :
           TypeAt(spec.kind, p) = "NumberInput" /\ Broken(inputs[p])
             => p \in carried \/ spec[KeyAt(spec.kind, p)] = NaN

FieldInv == TypeOK /\ Shaped(spec) /\ Current /\ Named

LEMMA DefaultIsShaped ==
    ASSUME NEW kind \in Kinds
    PROVE  Shaped(defaultSpec(kind)) /\ defaultSpec(kind).kind = kind
BY DefaultIsSetting, SettingIsShaped

\* A place of a form: where its type and its setting come from.
LEMMA PlaceOf ==
    ASSUME NEW s, Shaped(s), NEW p \in Places(s.kind)
    PROVE  /\ TypeAt(s.kind, p) \in {"NumberInput", "ScalarInput", "ListInput", "HourList"}
           /\ KeyAt(s.kind, p) \in DOMAIN s \ {"kind", "integer"}
           /\ TypeAt(s.kind, p) = "NumberInput" => KeyAt(s.kind, p) \in Numeric
           /\ TypeAt(s.kind, p) # "NumberInput" => KeyAt(s.kind, p) \in {"value", "values", "peakHours"}
           /\ KeyAt(s.kind, p) = "peakHours" => TypeAt(s.kind, p) = "HourList"
           /\ \A q \in Places(s.kind) : KeyAt(s.kind, q) = KeyAt(s.kind, p) => q = p
<1>1. s.kind \in Kinds
  BY ShapedOf
<1>2. CASE s.kind = "now"
  BY <1>2 DEF Places, SpecParams
<1>3. CASE s.kind = "constant"
  BY <1>3, ShapedOf DEF Places, SpecParams, Place, KeyAt, TypeAt, Numeric
<1>4. CASE s.kind = "enum"
  BY <1>4, ShapedOf DEF Places, SpecParams, Place, KeyAt, TypeAt, Numeric
<1>5. CASE s.kind = "randomWalk"
  BY <1>5, ShapedOf DEF Places, SpecParams, Place, KeyAt, TypeAt, Numeric
<1>6. CASE s.kind = "dailyProfile"
  BY <1>6, ShapedOf DEF Places, SpecParams, Place, KeyAt, TypeAt, Numeric
<1>7. CASE s.kind = "sequence"
  BY <1>7, ShapedOf DEF Places, SpecParams, Place, KeyAt, TypeAt, Numeric
<1>8. CASE s.kind = "jitter"
  BY <1>8, ShapedOf DEF Places, SpecParams, Place, KeyAt, TypeAt, Numeric
<1> QED
  BY <1>1, <1>2, <1>3, <1>4, <1>5, <1>6, <1>7, <1>8 DEF Kinds

\* A number that is no number is named by the check.
LEMMA NaNIsNamed ==
    ASSUME NEW s, Shaped(s), NEW p \in Places(s.kind), TypeAt(s.kind, p) = "NumberInput",
           s[KeyAt(s.kind, p)] = NaN
    PROVE  KeyAt(s.kind, p) \in specErrors(s)
<1>1. s.kind \in Kinds /\ KeyAt(s.kind, p) \in DOMAIN s \cap Numeric
  BY PlaceOf, ShapedOf
<1>2. ~isNumber(NaN) /\ NaN # Undefined /\ NaN # Null
  BY NoValues DEF isNumber
<1>3. CASE s.kind \in {"now", "constant", "enum"}
  BY <1>1, <1>3, ShapedOf DEF Numeric
<1>4. CASE s.kind = "randomWalk"
  <2>1. KeyAt(s.kind, p) \in {"min", "max", "step", "start"}
    BY <1>1, <1>4, ShapedOf DEF Numeric
  <2>2. specErrors(s) = walkErrors(s)
    BY <1>4 DEF specErrors
  <2> QED
    BY <1>2, <2>1, <2>2 DEF walkErrors, range, When
<1>5. CASE s.kind = "dailyProfile"
  <2>1. KeyAt(s.kind, p) \in {"min", "max", "noise"}
    BY <1>1, <1>5, ShapedOf DEF Numeric
  <2>2. specErrors(s) = profileErrors(s)
    BY <1>5 DEF specErrors
  <2> QED
    BY <1>2, <2>1, <2>2 DEF profileErrors, range, When
<1>6. CASE s.kind = "sequence"
  <2>1. KeyAt(s.kind, p) \in {"start", "padTo"}
    BY <1>1, <1>6, ShapedOf DEF Numeric
  <2> QED
    BY <1>2, <1>6, <2>1 DEF specErrors, wholeIn, Or, When
<1>7. CASE s.kind = "jitter"
  <2>1. KeyAt(s.kind, p) \in {"center", "spread", "precision"}
    BY <1>1, <1>7, ShapedOf DEF Numeric
  <2> QED
    BY <1>2, <1>7, <2>1 DEF specErrors, wholeIn, Or, When
<1> QED
  BY <1>1, <1>3, <1>4, <1>5, <1>6, <1>7 DEF Kinds

LEMMA SameAsItself ==
    ASSUME NEW type, NEW v
    PROVE  Same(type, v, v)
BY DEF Same, sameNumber

\* An input just built shows no broken number.
LEMMA MountedIsFine ==
    ASSUME NEW type, NEW v
    PROVE  /\ Mounted(type, v).seen = v
           /\ type = "NumberInput" => ~Broken(Mounted(type, v))
BY DEF Mounted, Broken, Format, formatDecimal, Text, Empty

\* After a render, an input has seen the value it renders.
LEMMA RenderedHasSeen ==
    ASSUME NEW input, NEW type, NEW v
    PROVE  Same(type, v, Rendered(input, type, v).seen)
BY SameAsItself DEF Rendered

LEMMA KeptIsAll ==
    ASSUME NEW kind
    PROVE  Kept(kind, kind) = Places(kind)
BY DEF Kept

LEMMA RenderHasSeen ==
    ASSUME NEW shown, NEW next, NEW p \in Places(next.kind)
    PROVE  Same(TypeAt(next.kind, p), next[KeyAt(next.kind, p)], Render(shown, next)[p].seen)
<1> DEFINE type == TypeAt(next.kind, p)
           v == next[KeyAt(next.kind, p)]
<1>1. Render(shown, next)[p] = IF p \in Kept(spec.kind, next.kind) THEN Rendered(shown[p], type, v)
                                                                   ELSE Mounted(type, v)
  BY DEF Render, TypeAt, KeyAt
<1> HIDE DEF type, v
<1>2. Same(type, v, Render(shown, next)[p].seen)
  BY <1>1, RenderedHasSeen, MountedIsFine, SameAsItself
<1> QED
  BY <1>2 DEF type, v

-----------------------------------------------------------------------------
(* Typing.                                                                 *)

\* What a text of an input's says fits the setting it edits.
LEMMA TypedIsSetting ==
    ASSUME NEW s, Shaped(s), NEW p \in Places(s.kind), NEW text \in TextsFor(TypeAt(s.kind, p)),
           NEW v, v = required(KeyAt(s.kind, p), Parse(TypeAt(s.kind, p), text)),
           NEW next, next = [s EXCEPT ![KeyAt(s.kind, p)] = v]
    PROVE  Shaped(next) /\ next.kind = s.kind
<1> DEFINE k == KeyAt(s.kind, p)
<1>1. s.kind \in Kinds /\ DOMAIN s = DOMAIN defaultSpec(s.kind) /\ s = [key \in DOMAIN s |-> s[key]]
  BY DEF Shaped, SettingOr
<1>2. k \in DOMAIN s /\ k # "kind" /\ k # "integer"
  BY PlaceOf
<1>3. k \in Numeric => isNumber(v) \/ v \in {Undefined, NaN}
  <2> SUFFICES ASSUME k \in Numeric
               PROVE  isNumber(v) \/ v \in {Undefined, NaN}
    OBVIOUS
  <2>1. TypeAt(s.kind, p) = "NumberInput"
    BY PlaceOf DEF Numeric
  <2>2. text \in NumberTexts /\ Parse(TypeAt(s.kind, p), text) = parseNumber(text)
    BY <2>1 DEF TextsFor, Parse
  <2>3. isNumber(parseNumber(text)) \/ parseNumber(text) \in {Undefined, NaN}
    BY <2>2, FieldAssumption DEF Legible, parseNumber
  <2> QED
    BY <2>2, <2>3 DEF required
<1>4. k = "peakHours" => v = [i \in DOMAIN v |-> v[i]]
  <2> SUFFICES ASSUME k = "peakHours"
               PROVE  v = [i \in DOMAIN v |-> v[i]]
    OBVIOUS
  <2>1. TypeAt(s.kind, p) = "HourList"
    BY PlaceOf
  <2>2. Parse(TypeAt(s.kind, p), text) = [i \in DOMAIN splitList(text) |-> parseHour(splitList(text)[i])]
    BY <2>1 DEF Parse, Each
  <2>3. v = [i \in DOMAIN splitList(text) |-> parseHour(splitList(text)[i])]
    BY <2>2 DEF required
  <2> QED
    BY <2>3
<1> HIDE DEF k
<1>5. next = [s EXCEPT ![k] = v]
  BY DEF k
<1>6. DOMAIN next = DOMAIN s /\ next.kind = s.kind /\ next[k] = v /\ next = [key \in DOMAIN next |-> next[key]]
  <2>1. "kind" \in DOMAIN s
    BY ShapedOf
  <2>2. DOMAIN next = DOMAIN s
    BY <1>5
  <2>3. next.kind = s.kind
    BY <1>2, <1>5, <2>1
  <2>4. next[k] = v
    BY <1>2, <1>5
  <2>5. next = [key \in DOMAIN next |-> next[key]]
    BY <1>5
  <2> QED
    BY <2>2, <2>3, <2>4, <2>5
<1>7. \A key \in DOMAIN next : key # k => next[key] = s[key]
  BY <1>1, <1>2, <1>5
<1>8. \A key \in DOMAIN next : key \in Numeric => isNumber(next[key]) \/ next[key] \in {Undefined, NaN, Null}
  BY <1>3, <1>6, <1>7 DEF Shaped, SettingOr
<1>9. \A key \in DOMAIN next : key = "integer" => next[key] \in BOOLEAN \cup {Undefined}
  BY <1>2, <1>6, <1>7 DEF Shaped, SettingOr
<1>10. \A key \in DOMAIN next : key = "peakHours" => next[key] = [i \in DOMAIN next[key] |-> next[key][i]]
  <2> SUFFICES ASSUME "peakHours" \in DOMAIN next
               PROVE  next["peakHours"] = [i \in DOMAIN next["peakHours"] |-> next["peakHours"][i]]
    OBVIOUS
  <2>1. CASE k = "peakHours"
    BY <1>4, <1>6, <2>1
  <2>2. CASE k # "peakHours"
    BY <1>6, <1>7, <2>2 DEF Shaped, SettingOr
  <2> QED
    BY <2>1, <2>2
<1> QED
  BY <1>1, <1>6, <1>8, <1>9, <1>10 DEF Shaped, SettingOr

\* A keystroke changes its own setting and its own input, and nothing else.
LEMMA TypeOnly ==
    ASSUME FieldInv, NEW p \in Places(spec.kind), NEW text \in TextsFor(TypeAt(spec.kind, p)), Type(p, text),
           NEW says, says = Parse(TypeAt(spec.kind, p), text)
    PROVE  /\ spec' = [spec EXCEPT ![KeyAt(spec.kind, p)] = required(KeyAt(spec.kind, p), says)]
           /\ spec'.kind = spec.kind /\ Shaped(spec')
           /\ spec'[KeyAt(spec.kind, p)] = required(KeyAt(spec.kind, p), says)
           /\ \A q \in Places(spec.kind) \ {p} : spec'[KeyAt(spec.kind, q)] = spec[KeyAt(spec.kind, q)]
           /\ DOMAIN inputs' = Places(spec.kind)
           /\ inputs'[p] = [text |-> text, seen |-> says]
           /\ \A q \in Places(spec.kind) \ {p} : inputs'[q] = inputs[q]
<1> DEFINE k == KeyAt(spec.kind, p)
           v == required(k, says)
           next == [spec EXCEPT ![k] = v]
           shown == [inputs EXCEPT ![p] = [text |-> text, seen |-> says]]
<1>1. spec' = next /\ inputs' = Render(shown, next)
  BY DEF Type, TypeAt, KeyAt
<1>2. Shaped(spec) /\ DOMAIN inputs = Places(spec.kind)
  BY DEF FieldInv, TypeOK
<1>3. Shaped(next) /\ next.kind = spec.kind
  BY <1>2, TypedIsSetting
<1>4. k \in DOMAIN spec
  BY <1>2, PlaceOf
<1>5. next[k] = v
  BY <1>4
<1>6. \A q \in Places(spec.kind) \ {p} : next[KeyAt(spec.kind, q)] = spec[KeyAt(spec.kind, q)]
  <2> SUFFICES ASSUME NEW q \in Places(spec.kind) \ {p}
               PROVE  next[KeyAt(spec.kind, q)] = spec[KeyAt(spec.kind, q)]
    OBVIOUS
  <2>1. KeyAt(spec.kind, q) # k
    BY <1>2, PlaceOf
  <2>2. KeyAt(spec.kind, q) \in DOMAIN spec
    BY <1>2, PlaceOf
  <2> QED
    BY <2>1, <2>2
<1>7. shown[p] = [text |-> text, seen |-> says] /\ \A q \in Places(spec.kind) \ {p} : shown[q] = inputs[q]
  BY <1>2
<1> HIDE DEF next, shown, v, k
<1>8. \A q \in Places(spec.kind) :
        Render(shown, next)[q] = Rendered(shown[q], TypeAt(spec.kind, q), next[KeyAt(spec.kind, q)])
  BY <1>3, KeptIsAll DEF Render, TypeAt, KeyAt
<1>9. DOMAIN Render(shown, next) = Places(spec.kind)
  BY <1>3 DEF Render
<1>10. Render(shown, next)[p] = [text |-> text, seen |-> says]
  <2>1. Same(TypeAt(spec.kind, p), v, says)
    BY NoValues, PlaceOf, <1>2 DEF v, k, required, Same, sameNumber, Present
  <2>2. Render(shown, next)[p] = Rendered(shown[p], TypeAt(spec.kind, p), v)
    BY <1>5, <1>8 DEF k
  <2>3. shown[p].seen = says
    BY <1>7
  <2> QED
    BY <1>7, <2>1, <2>2, <2>3 DEF Rendered
<1>11. ASSUME NEW q \in Places(spec.kind) \ {p}
       PROVE  Render(shown, next)[q] = inputs[q]
  <2>1. Same(TypeAt(spec.kind, q), next[KeyAt(spec.kind, q)], shown[q].seen)
    BY <1>6, <1>7 DEF FieldInv, Current
  <2> QED
    BY <1>7, <1>8, <2>1 DEF Rendered
<1> QED
  BY <1>1, <1>3, <1>5, <1>6, <1>9, <1>10, <1>11 DEF next, v, k

LEMMA TypeStep ==
    ASSUME FieldInv, NEW p \in DOMAIN inputs, NEW text \in TextsFor(SpecParams(spec.kind)[p].type), Type(p, text)
    PROVE  FieldInv'
<1> DEFINE k == KeyAt(spec.kind, p)
           says == Parse(TypeAt(spec.kind, p), text)
<1>1. p \in Places(spec.kind) /\ text \in TextsFor(TypeAt(spec.kind, p)) /\ Shaped(spec)
  BY DEF FieldInv, TypeOK, TypeAt
<1>2. /\ spec'.kind = spec.kind /\ Shaped(spec')
      /\ spec'[k] = required(k, says)
      /\ \A q \in Places(spec.kind) \ {p} : spec'[KeyAt(spec.kind, q)] = spec[KeyAt(spec.kind, q)]
      /\ DOMAIN inputs' = Places(spec.kind)
      /\ inputs'[p] = [text |-> text, seen |-> says]
      /\ \A q \in Places(spec.kind) \ {p} : inputs'[q] = inputs[q]
  BY <1>1, TypeOnly
<1>3. carried' = carried \ {p}
  BY DEF Type
<1>4. TypeOK'
  BY <1>2, <1>3 DEF FieldInv, TypeOK
<1>5. Current'
  <2> SUFFICES ASSUME NEW q \in Places(spec.kind)
               PROVE  Same(TypeAt(spec.kind, q), spec'[KeyAt(spec.kind, q)], inputs'[q].seen)
    BY <1>2 DEF Current
  <2>1. CASE q = p
    <3>1. inputs'[q].seen = says
      BY <1>2, <2>1
    <3> QED
      BY <1>1, <1>2, <2>1, <3>1, NoValues, PlaceOf DEF required, Same, sameNumber, Present
  <2>2. CASE q # p
    BY <1>2, <2>2 DEF FieldInv, Current
  <2> QED
    BY <2>1, <2>2
<1>6. Named'
  <2> SUFFICES ASSUME NEW q \in Places(spec.kind), TypeAt(spec.kind, q) = "NumberInput", Broken(inputs'[q])
               PROVE  q \in carried' \/ spec'[KeyAt(spec.kind, q)] = NaN
    BY <1>2 DEF Named
  <2>1. CASE q = p
    <3>1. text.form = "broken"
      BY <1>2, <2>1 DEF Broken
    <3>2. says = NaN
      BY <2>1, <3>1 DEF Parse, parseNumber
    <3> QED
      BY <1>2, <2>1, <3>2, NoValues DEF required
  <2>2. CASE q # p
    BY <1>2, <1>3, <2>2 DEF FieldInv, Named
  <2> QED
    BY <2>1, <2>2
<1> QED
  BY <1>2, <1>4, <1>5, <1>6 DEF FieldInv

-----------------------------------------------------------------------------
(* The other steps.                                                        *)

LEMMA BecomeStep ==
    ASSUME FieldInv, NEW next, Shaped(next), Become(next)
    PROVE  FieldInv'
<1>1. spec' = next /\ inputs' = Render(inputs, next)
      /\ carried' = {p \in Kept(spec.kind, next.kind) : Broken(inputs'[p])}
  BY DEF Become
<1>2. TypeOK' /\ Shaped(spec)'
  BY <1>1, ShapedOf DEF TypeOK, Render, Kept
<1>3. Current'
  BY <1>1, RenderHasSeen DEF Current
<1>4. Named'
  <2> SUFFICES ASSUME NEW p \in Places(next.kind), TypeAt(next.kind, p) = "NumberInput", Broken(inputs'[p])
               PROVE  p \in carried'
    BY <1>1 DEF Named
  <2>1. CASE p \in Kept(spec.kind, next.kind)
    BY <1>1, <2>1
  <2>2. CASE p \notin Kept(spec.kind, next.kind)
    <3>1. inputs'[p] = Mounted("NumberInput", next[KeyAt(next.kind, p)])
      BY <1>1, <2>2 DEF Render, TypeAt, KeyAt
    <3> QED
      BY <3>1, MountedIsFine
  <2> QED
    BY <2>1, <2>2
<1> QED
  BY <1>2, <1>3, <1>4 DEF FieldInv

LEMMA ToggleStep ==
    ASSUME FieldInv, ToggleInteger
    PROVE  FieldInv'
<1>1. Shaped(spec) /\ "integer" \in DOMAIN spec /\ DOMAIN inputs = Places(spec.kind)
  BY ShapedOf DEF FieldInv, ToggleInteger, TypeOK
<1>2. PICK b \in BOOLEAN : spec' = [spec EXCEPT !.integer = b]
  <2> DEFINE b == spec.integer # TRUE
  <2>1. b \in BOOLEAN
    OBVIOUS
  <2>2. spec' = [spec EXCEPT !.integer = b]
    BY DEF ToggleInteger
  <2> HIDE DEF b
  <2> QED
    BY <2>1, <2>2
<1>3. inputs' = Render(inputs, spec') /\ carried' = carried
  BY DEF ToggleInteger
<1>4. DOMAIN spec' = DOMAIN spec /\ \A key \in DOMAIN spec \ {"integer"} : spec'[key] = spec[key]
  BY <1>1, <1>2
<1>5. spec'.kind = spec.kind /\ spec'.integer = b
  BY <1>1, <1>2, ShapedOf
<1>6. Shaped(spec)'
  <2>1. spec' = [key \in DOMAIN spec' |-> spec'[key]]
    BY <1>2
  <2>2. spec'.kind \in Kinds /\ DOMAIN spec' = DOMAIN defaultSpec(spec'.kind)
    BY <1>1, <1>4, <1>5 DEF Shaped, SettingOr
  <2>3. ASSUME NEW key \in DOMAIN spec'
        PROVE  /\ key \in Numeric => isNumber(spec'[key]) \/ spec'[key] \in {Undefined, NaN, Null}
               /\ key = "integer" => spec'[key] \in BOOLEAN \cup {Undefined}
               /\ key = "peakHours" => spec'[key] = [i \in DOMAIN spec'[key] |-> spec'[key][i]]
    <3>1. CASE key = "integer"
      BY <1>5, <3>1 DEF Numeric
    <3>2. CASE key # "integer"
      BY <1>1, <1>4, <3>2 DEF Shaped, SettingOr
    <3> QED
      BY <3>1, <3>2
  <2> QED
    BY <2>1, <2>2, <2>3 DEF Shaped, SettingOr
<1>7. ASSUME NEW p \in Places(spec.kind)
      PROVE  spec'[KeyAt(spec.kind, p)] = spec[KeyAt(spec.kind, p)] /\ inputs'[p] = inputs[p]
  <2>1. spec'[KeyAt(spec.kind, p)] = spec[KeyAt(spec.kind, p)]
    BY <1>1, <1>4, PlaceOf
  <2>2. inputs'[p] = Rendered(inputs[p], TypeAt(spec.kind, p), spec[KeyAt(spec.kind, p)])
    BY <1>3, <1>5, <2>1, KeptIsAll DEF Render, TypeAt, KeyAt
  <2> QED
    BY <2>1, <2>2 DEF FieldInv, Current, Rendered
<1>8. TypeOK'
  BY <1>1, <1>3, <1>5 DEF FieldInv, TypeOK, Render
<1>9. Current' /\ Named'
  BY <1>3, <1>5, <1>7 DEF FieldInv, Current, Named
<1> QED
  BY <1>6, <1>8, <1>9 DEF FieldInv

\* The form as it is built from the setting alone.
Built == /\ DOMAIN inputs = Places(spec.kind) /\ carried = {}
         /\ \A p \in Places(spec.kind) : inputs[p] = Mounted(TypeAt(spec.kind, p), spec[KeyAt(spec.kind, p)])

LEMMA BuiltIsFine == Shaped(spec) /\ Built => FieldInv
<1> SUFFICES ASSUME Shaped(spec), Built
             PROVE  FieldInv
  OBVIOUS
<1>1. TypeOK
  BY ShapedOf DEF Built, TypeOK
<1>2. Current
  BY MountedIsFine, SameAsItself DEF Built, Current
<1>3. Named
  BY MountedIsFine DEF Built, Named
<1> QED
  BY <1>1, <1>2, <1>3 DEF FieldInv

\* What an applied JSON text brings back has the same settings.
LEMMA OnWireIsShaped ==
    ASSUME NEW s, Shaped(s)
    PROVE  Shaped(OnWire(s)) /\ OnWire(s).kind = s.kind
<1> DEFINE w == OnWire(s)
<1>1. /\ w.kind = s.kind /\ DOMAIN w = DOMAIN s
      /\ w = [key \in DOMAIN w |-> w[key]]
      /\ \A key \in DOMAIN s \cap Numeric : w[key] = Wire(s[key])
      /\ \A key \in DOMAIN s \ (Numeric \cup {"peakHours"}) : w[key] = s[key]
      /\ "peakHours" \in DOMAIN s => w.peakHours = [i \in DOMAIN s.peakHours |-> Wire(s.peakHours[i])]
  BY OnWireFields
<1> HIDE DEF w
<1>2. ASSUME NEW key \in DOMAIN w
      PROVE  /\ key \in Numeric => isNumber(w[key]) \/ w[key] \in {Undefined, NaN, Null}
             /\ key = "integer" => w[key] \in BOOLEAN \cup {Undefined}
             /\ key = "peakHours" => w[key] = [i \in DOMAIN w[key] |-> w[key][i]]
  <2>1. CASE key \in Numeric
    BY <1>1, <2>1 DEF Shaped, SettingOr, Wire, Numeric
  <2>2. CASE key = "integer"
    BY <1>1, <2>2 DEF Shaped, SettingOr, Numeric
  <2>3. CASE key = "peakHours"
    BY <1>1, <2>3 DEF Numeric
  <2> QED
    BY <2>1, <2>2, <2>3
<1>3. w.kind \in Kinds /\ DOMAIN w = DOMAIN defaultSpec(w.kind)
  BY <1>1 DEF Shaped, SettingOr
<1>4. Shaped(w)
  BY <1>1, <1>2, <1>3 DEF Shaped, SettingOr
<1> QED
  BY <1>1, <1>4 DEF w

LEMMA ReopenedBuilds ==
    ASSUME FieldInv, NEW applied \in BOOLEAN, Reopened(applied)
    PROVE  /\ Shaped(spec)' /\ Built'
           /\ spec' = (IF applied THEN OnWire(spec) ELSE spec)
<1>1. spec' = (IF applied THEN OnWire(spec) ELSE spec) /\ carried' = {}
      /\ inputs' = [p \in DOMAIN inputs |-> Mounted(TypeAt(spec.kind, p), spec'[KeyAt(spec.kind, p)])]
  BY DEF Reopened, TypeAt, KeyAt
<1>2. Shaped(spec') /\ spec'.kind = spec.kind
  BY <1>1, OnWireIsShaped DEF FieldInv
<1>3. DOMAIN inputs = Places(spec.kind)
  BY DEF FieldInv, TypeOK
<1> QED
  BY <1>1, <1>2, <1>3 DEF Built

LEMMA ReopenedStep ==
    ASSUME FieldInv, NEW applied \in BOOLEAN, Reopened(applied)
    PROVE  FieldInv'
<1>1. Shaped(spec)' /\ Built'
  BY ReopenedBuilds
<1>2. (Shaped(spec) /\ Built)' => FieldInv'
  BY BuiltIsFine, PTL
<1> QED
  BY <1>1, <1>2

\* The inductive invariant holds from the first render on.
LEMMA FieldStays == Spec => []FieldInv
<1>1. Init => FieldInv
  <2> SUFFICES ASSUME Init
               PROVE  Shaped(spec) /\ Built
    BY BuiltIsFine
  <2>1. Shaped(spec)
    BY DefaultIsShaped DEF Init
  <2> QED
    BY <2>1 DEF Init, Built, TypeAt, KeyAt
<1>2. FieldInv /\ [Next]_vars => FieldInv'
  <2> SUFFICES ASSUME FieldInv, [Next]_vars
               PROVE  FieldInv'
    OBVIOUS
  <2>1. ASSUME NEW p \in DOMAIN inputs, NEW text \in TextsFor(SpecParams(spec.kind)[p].type), Type(p, text)
        PROVE  FieldInv'
    BY <2>1, TypeStep
  <2>2. ASSUME NEW kind \in Kinds, SwitchKind(kind)
        PROVE  FieldInv'
    BY <2>2, BecomeStep, DefaultIsShaped DEF SwitchKind
  <2>3. ASSUME NEW next \in Neighbours, Replaced(next)
        PROVE  FieldInv'
    BY <2>3, BecomeStep, FieldAssumption DEF Replaced
  <2>4. CASE ToggleInteger
    BY <2>4, ToggleStep
  <2>5. ASSUME NEW applied \in BOOLEAN, Reopened(applied)
        PROVE  FieldInv'
    BY <2>5, ReopenedStep
  <2>6. CASE UNCHANGED vars
    BY <2>6 DEF vars, FieldInv, TypeOK, Current, Named
  <2> QED
    BY <2>1, <2>2, <2>3, <2>4, <2>5, <2>6 DEF Next
<1> QED
  BY <1>1, <1>2, PTL DEF Spec

-----------------------------------------------------------------------------
(* What the inputs show.                                                   *)

Blank == Scalar("string", 0)
Plain(v) == /\ v = Scalar(v.type, v.is) /\ v.type \in {"number", "boolean", "string"}
            /\ v.type = "string" => v.is \in Int
List(v) == \E n \in Nat : DOMAIN v = 1 .. n /\ v = [i \in 1 .. n |-> v[i]]

\* A value that fits its input: a scalar, or a list.
FitsInput(type, v) ==
  /\ type = "ScalarInput" => Plain(v)
  /\ type \in {"HourList", "ListInput"} => List(v)
  /\ type = "ListInput" => \A i \in DOMAIN v : Plain(v[i])
AllFit(s) == \A p \in Places(s.kind) : FitsInput(TypeAt(s.kind, p), s[KeyAt(s.kind, p)])

\* The premise: the constants of the other fields are strings, numbers and truth
\* values, and their lists are lists of such.
PlainNeighbours == \A next \in Neighbours : AllFit(next)

InputTypes == {"NumberInput", "ScalarInput", "ListInput", "HourList"}

\* The value as it is shown, and a text that reads as it.
AsShown(type, v) == IF type = "NumberInput" /\ v = Null THEN 0 ELSE v
Reads(type, text, v) ==
  /\ type = "NumberInput" => Parse(type, text) # Null
  /\ Sayable(type, v) => Same(type, Parse(type, text), AsShown(type, v))

\* A string that does not read as a number.
SelfEvident(v) == v.type = "string" => v.is >= 0

LEMMA WordPlaces ==
    ASSUME NEW form
    PROVE  /\ form = "empty"  => (CHOOSE w \in DOMAIN Words : Words[w] = form) - 1 = 0
           /\ form = "minus"  => (CHOOSE w \in DOMAIN Words : Words[w] = form) - 1 = 1
           /\ form = "broken" => (CHOOSE w \in DOMAIN Words : Words[w] = form) - 1 = 2
<1>1. DOMAIN Words = 1 .. 3 /\ Words[1] = "empty" /\ Words[2] = "minus" /\ Words[3] = "broken"
  BY DEF Words
<1>2. \A w \in 1 .. 3 : w \in {1, 2, 3}
  OBVIOUS
<1> QED
  BY <1>1, <1>2

\* What is typed as a constant can be said again, and only an empty text is blank.
LEMMA ScalarIsPlain ==
    ASSUME NEW text, Legible(text)
    PROVE  /\ Plain(parseScalar(text)) /\ SelfEvident(parseScalar(text))
           /\ text.form # "empty" => parseScalar(text) # Blank
<1>1. CASE text.form \in {"number", "partial"}
  <2>1. parseScalar(text) = Scalar("number", text.says)
    BY <1>1 DEF parseScalar
  <2> QED
    BY <2>1 DEF Scalar, Plain, Blank, SelfEvident
<1>2. CASE text.form = "boolean"
  <2>1. parseScalar(text) = Scalar("boolean", text.says)
    BY <1>2 DEF parseScalar
  <2> QED
    BY <2>1 DEF Scalar, Plain, Blank, SelfEvident
<1>3. CASE text.form = "word"
  <2>1. parseScalar(text) = Scalar("string", text.says) /\ text.says \in Nat /\ text.says > 2
    BY <1>3 DEF parseScalar, Legible
  <2> QED
    BY <2>1 DEF Scalar, Plain, Blank, SelfEvident
<1>4. CASE text.form \in {"empty", "minus", "broken"}
  <2>1. parseScalar(text) = Scalar("string", (CHOOSE w \in DOMAIN Words : Words[w] = text.form) - 1)
    BY <1>4 DEF parseScalar
  <2>2. CASE text.form = "empty"
    <3>1. parseScalar(text) = Scalar("string", 0)
      BY <2>1, <2>2, WordPlaces
    <3> QED
      BY <2>2, <3>1 DEF Scalar, Plain, Blank, SelfEvident
  <2>3. CASE text.form = "minus"
    <3>1. parseScalar(text) = Scalar("string", 1)
      BY <2>1, <2>3, WordPlaces
    <3> QED
      BY <2>3, <3>1 DEF Scalar, Plain, Blank, SelfEvident
  <2>4. CASE text.form = "broken"
    <3>1. parseScalar(text) = Scalar("string", 2)
      BY <2>1, <2>4, WordPlaces
    <3> QED
      BY <2>4, <3>1 DEF Scalar, Plain, Blank, SelfEvident
  <2> QED
    BY <1>4, <2>2, <2>3, <2>4
<1> QED
  BY <1>1, <1>2, <1>3, <1>4 DEF Legible

\* A constant's text reads as the constant, and only that of a blank is empty.
LEMMA ScalarReadsBack ==
    ASSUME NEW v, Plain(v), SelfEvident(v)
    PROVE  /\ parseScalar(formatScalar(v)) = v
           /\ v # Blank => formatScalar(v).form # "empty"
<1>1. CASE v.type = "number"
  <2>1. formatScalar(v) = [form |-> "number", says |-> v.is]
    BY <1>1 DEF formatScalar, Text
  <2> QED
    BY <1>1, <2>1 DEF parseScalar, Plain
<1>2. CASE v.type = "boolean"
  <2>1. formatScalar(v) = [form |-> "boolean", says |-> v.is]
    BY <1>2 DEF formatScalar, Text
  <2> QED
    BY <1>2, <2>1 DEF parseScalar, Plain
<1>3. CASE v.type = "string" /\ v.is >= 3
  <2>1. formatScalar(v) = [form |-> "word", says |-> v.is]
    BY <1>3 DEF formatScalar, Text, Plain
  <2> QED
    BY <1>3, <2>1 DEF parseScalar, Plain
<1>4. CASE v.type = "string" /\ v.is < 3
  <2>1. v.is \in {0, 1, 2} /\ v = Scalar("string", v.is)
    BY <1>4 DEF Plain, SelfEvident
  <2>2. formatScalar(v) = [form |-> Words[v.is + 1], says |-> 0]
    BY <1>4, <2>1 DEF formatScalar, Text
  <2>3. /\ v.is = 0 => formatScalar(v).form = "empty"
        /\ v.is = 1 => formatScalar(v).form = "minus"
        /\ v.is = 2 => formatScalar(v).form = "broken"
    BY <2>2 DEF Words
  <2>4. formatScalar(v).form \in {"empty", "minus", "broken"}
    BY <2>1, <2>3
  <2>5. parseScalar(formatScalar(v))
          = Scalar("string", (CHOOSE w \in DOMAIN Words : Words[w] = formatScalar(v).form) - 1)
    BY <2>4 DEF parseScalar
  <2>6. parseScalar(formatScalar(v)) = Scalar("string", v.is)
    <3>1. CASE v.is = 0
      BY <2>3, <2>5, <3>1, WordPlaces
    <3>2. CASE v.is = 1
      BY <2>3, <2>5, <3>2, WordPlaces
    <3>3. CASE v.is = 2
      BY <2>3, <2>5, <3>3, WordPlaces
    <3> QED
      BY <2>1, <3>1, <3>2, <3>3
  <2> QED
    BY <2>1, <2>3, <2>6 DEF Blank
<1> QED
  BY <1>1, <1>2, <1>3, <1>4 DEF Plain

\* A list of texts none of which is empty is read item by item.
LEMMA FullListIsSplit ==
    ASSUME NEW text, NEW n \in Nat, DOMAIN text.items = 1 .. n, \A i \in 1 .. n : text.items[i].form # "empty"
    PROVE  splitList(text) = [i \in 1 .. n |-> text.items[i]]
<1>1. {i \in DOMAIN text.items : text.items[i].form # "empty"} = 1 .. n
  OBVIOUS
<1>2. splitList(text) = Listed(text.items, 1 .. n)
  BY <1>1 DEF splitList
<1> QED
  BY <1>2, ListedAll

\* What is left of a typed list.
LEMMA SplitIs ==
    ASSUME NEW text \in ListTexts
    PROVE  List(splitList(text)) /\ \A i \in DOMAIN splitList(text) : /\ Legible(splitList(text)[i])
                                                                      /\ splitList(text)[i].form # "empty"
<1> DEFINE S == {i \in DOMAIN text.items : text.items[i].form # "empty"}
           n == Len(text.items)
<1>1. n \in Nat /\ DOMAIN text.items = 1 .. n /\ \A i \in 1 .. n : Legible(text.items[i])
  <2>1. text.items \in Seq({text.items[i] : i \in DOMAIN text.items})
    BY FieldAssumption
  <2>2. n \in Nat /\ DOMAIN text.items = 1 .. n
    BY <2>1
  <2> QED
    BY <2>2, FieldAssumption
<1>2. splitList(text) = Listed(text.items, S)
  BY DEF splitList
<1>3. S \in SUBSET (1 .. n) /\ \A i \in S : Legible(text.items[i]) /\ text.items[i].form # "empty"
  BY <1>1
<1> HIDE DEF S, n
<1>4. /\ Cardinality(S) \in Nat /\ DOMAIN Listed(text.items, S) = 1 .. Cardinality(S)
      /\ Listed(text.items, S) = [k \in 1 .. Cardinality(S) |-> Listed(text.items, S)[k]]
      /\ \A k \in 1 .. Cardinality(S) : Listed(text.items, S)[k] = text.items[Nth(S, k)] /\ Nth(S, k) \in S
  BY <1>1, <1>3, ListedIs
<1> QED
  BY <1>2, <1>3, <1>4 DEF List

\* What an input is built to show reads as the value.
LEMMA NumberReadsBack ==
    ASSUME NEW v
    PROVE  /\ parseNumber(formatDecimal(v)) # Null
           /\ sameNumber(parseNumber(formatDecimal(v)), IF v = Null THEN 0 ELSE v)
<1>1. CASE Present(v)
  <2>1. formatDecimal(v) = [form |-> "number", says |-> IF v = Null THEN 0 ELSE v]
    BY <1>1, NoValues DEF formatDecimal, Text, Or, Present
  <2>2. parseNumber(formatDecimal(v)) = IF v = Null THEN 0 ELSE v
    BY <2>1 DEF parseNumber
  <2>3. (IF v = Null THEN 0 ELSE v) # Null
    BY NoValues
  <2> QED
    BY <2>2, <2>3 DEF sameNumber
<1>2. CASE ~Present(v)
  <2>1. formatDecimal(v).form = "empty"
    BY <1>2 DEF formatDecimal, Empty, Text
  <2>2. parseNumber(formatDecimal(v)) = Undefined
    BY <2>1 DEF parseNumber
  <2> QED
    BY <1>2, <2>2, NoValues DEF sameNumber, Present
<1> QED
  BY <1>1, <1>2

LEMMA HoursReadBack ==
    ASSUME NEW v, List(v), \A i \in DOMAIN v : isNumber(v[i]),
           NEW text, text = Format("HourList", v)
    PROVE  Parse("HourList", text) = v
<1>1. PICK n \in Nat : DOMAIN v = 1 .. n /\ v = [i \in 1 .. n |-> v[i]]
  BY DEF List
<1>2. text.items = [i \in DOMAIN v |-> formatHour(v[i])]
  BY DEF Format, Each
<1>3. DOMAIN text.items = 1 .. n /\ \A i \in 1 .. n : text.items[i] = [form |-> "number", says |-> v[i]]
  BY <1>1, <1>2, NoValues DEF formatHour, Text, isNumber
<1>4. splitList(text) = [i \in 1 .. n |-> text.items[i]]
  <2>1. ASSUME NEW i \in 1 .. n PROVE text.items[i].form # "empty"
    <3>1. text.items[i] = [form |-> "number", says |-> v[i]]
      BY <1>3
    <3>2. text.items[i].form = "number"
      BY <3>1
    <3> QED
      BY <3>2
  <2> QED
    BY <1>3, <2>1, FullListIsSplit
<1>5. DOMAIN splitList(text) = 1 .. n /\ \A i \in 1 .. n : splitList(text)[i] = text.items[i]
  BY <1>4
<1>6. Parse("HourList", text) = [i \in DOMAIN splitList(text) |-> parseHour(splitList(text)[i])]
  BY DEF Parse, Each
<1>7. \A i \in 1 .. n : parseHour(splitList(text)[i]) = v[i]
  <2> TAKE i \in 1 .. n
  <2>1. splitList(text)[i] = [form |-> "number", says |-> v[i]]
    BY <1>3, <1>5
  <2>2. parseNumber(splitList(text)[i]) = v[i]
    BY <2>1 DEF parseNumber
  <2> QED
    BY <1>1, <2>2, NoValues DEF parseHour, isNumber
<1> QED
  BY <1>1, <1>5, <1>6, <1>7

LEMMA ListReadsBack ==
    ASSUME NEW v, List(v), \A i \in DOMAIN v : Plain(v[i]) /\ SelfEvident(v[i]) /\ v[i] # Blank,
           NEW text, text = Format("ListInput", v)
    PROVE  Parse("ListInput", text) = v
<1>1. PICK n \in Nat : DOMAIN v = 1 .. n /\ v = [i \in 1 .. n |-> v[i]]
  BY DEF List
<1>2. text.items = [i \in DOMAIN v |-> formatScalar(v[i])]
  BY DEF Format, Each
<1>3. DOMAIN text.items = 1 .. n /\ \A i \in 1 .. n : text.items[i] = formatScalar(v[i])
  BY <1>1, <1>2
<1>4. splitList(text) = [i \in 1 .. n |-> text.items[i]]
  <2>1. \A i \in 1 .. n : text.items[i].form # "empty"
    BY <1>1, <1>3, ScalarReadsBack
  <2> QED
    BY <1>3, <2>1, FullListIsSplit
<1>5. DOMAIN splitList(text) = 1 .. n /\ \A i \in 1 .. n : splitList(text)[i] = text.items[i]
  BY <1>4
<1>6. Parse("ListInput", text) = [i \in DOMAIN splitList(text) |-> parseScalar(splitList(text)[i])]
  BY DEF Parse, Each
<1>7. \A i \in 1 .. n : parseScalar(splitList(text)[i]) = v[i]
  BY <1>1, <1>3, <1>5, ScalarReadsBack
<1> QED
  BY <1>1, <1>5, <1>6, <1>7

LEMMA FormatReads ==
    ASSUME NEW type \in InputTypes, NEW v, FitsInput(type, v)
    PROVE  Reads(type, Format(type, v), v)
<1>1. CASE type = "NumberInput"
  BY <1>1, NumberReadsBack DEF Reads, Same, Parse, Format, AsShown
<1>2. CASE type = "ScalarInput"
  <2>1. Sayable(type, v) => SelfEvident(v)
    BY <1>2 DEF Sayable, SelfEvident
  <2> QED
    BY <1>2, <2>1, ScalarReadsBack DEF FitsInput, Reads, Same, Parse, Format, AsShown
<1>3. CASE type = "HourList"
  <2>1. Sayable(type, v) => \A i \in DOMAIN v : isNumber(v[i])
    BY <1>3 DEF Sayable
  <2>2. Sayable(type, v) => Parse(type, Format(type, v)) = v
    BY <1>3, <2>1, HoursReadBack DEF FitsInput
  <2> QED
    BY <1>3, <2>2 DEF Reads, Same, AsShown
<1>4. CASE type = "ListInput"
  <2>1. Sayable(type, v) => \A i \in DOMAIN v : SelfEvident(v[i]) /\ v[i] # Blank
    BY <1>4 DEF Sayable, SelfEvident, Blank
  <2>2. Sayable(type, v) => Parse(type, Format(type, v)) = v
    BY <1>4, <2>1, ListReadsBack DEF FitsInput
  <2> QED
    BY <1>4, <2>2 DEF Reads, Same, AsShown
<1> QED
  BY <1>1, <1>2, <1>3, <1>4 DEF InputTypes

\* Hours that are sent alike are the same hours, if they are numbers.
LEMMA AlikeHours ==
    ASSUME NEW v, NEW w, Each(Wire, v) = Each(Wire, w), Sayable("HourList", v)
    PROVE  Sayable("HourList", w)
<1>1. DOMAIN v = DOMAIN w /\ \A i \in DOMAIN v : Wire(v[i]) = Wire(w[i])
  <2> DEFINE a == [i \in DOMAIN v |-> Wire(v[i])]
             b == [i \in DOMAIN w |-> Wire(w[i])]
  <2>1. a = b
    BY DEF Each
  <2>2. DOMAIN a = DOMAIN v /\ DOMAIN b = DOMAIN w
    OBVIOUS
  <2>3. (\A i \in DOMAIN v : a[i] = Wire(v[i])) /\ (\A i \in DOMAIN w : b[i] = Wire(w[i]))
    OBVIOUS
  <2> HIDE DEF a, b
  <2> QED
    BY <2>1, <2>2, <2>3
<1>2. \A i \in DOMAIN v : isNumber(v[i])
  BY DEF Sayable
<1>3. \A i \in DOMAIN w : isNumber(w[i])
  BY <1>1, <1>2, NoValues DEF Wire, isNumber
<1> QED
  BY <1>3 DEF Sayable

\* A render keeps it so: the input read as the value w that it last saw, and v is
\* the value to show now.
LEMMA RenderedReads ==
    ASSUME NEW type \in InputTypes, NEW v, FitsInput(type, v), NEW input, NEW w,
           Same(type, w, input.seen), Reads(type, input.text, w)
    PROVE  Reads(type, Rendered(input, type, v).text, v)
<1>1. CASE Same(type, v, input.seen)
  <2>1. Rendered(input, type, v) = input
    BY <1>1 DEF Rendered
  <2>2. CASE type = "NumberInput"
    <3>1. sameNumber(v, input.seen) /\ sameNumber(w, input.seen)
      BY <1>1, <2>2 DEF Same
    <3>2. sameNumber(Parse(type, input.text), AsShown(type, w)) /\ Parse(type, input.text) # Null
      BY <2>2 DEF Reads, Same, Sayable
    <3>3. sameNumber(Parse(type, input.text), AsShown(type, v))
      BY <2>2, <3>1, <3>2, NoValues DEF sameNumber, Present, AsShown
    <3> QED
      BY <2>1, <2>2, <3>2, <3>3 DEF Reads, Same
  <2>3. CASE type = "HourList"
    <3>1. Each(Wire, v) = Each(Wire, w)
      BY <1>1, <2>3 DEF Same
    <3>2. Sayable(type, v) => Each(Wire, Parse(type, input.text)) = Each(Wire, v)
      BY <2>3, <3>1, AlikeHours DEF Reads, Same, AsShown
    <3> QED
      BY <2>1, <2>3, <3>2 DEF Reads, Same, AsShown
  <2>4. CASE type \in {"ScalarInput", "ListInput"}
    <3>1. v = w
      BY <1>1, <2>4 DEF Same
    <3> QED
      BY <2>1, <3>1
  <2> QED
    BY <2>2, <2>3, <2>4 DEF InputTypes
<1>2. CASE ~Same(type, v, input.seen) /\ Same(type, Parse(type, input.text), v)
  <2>1. Rendered(input, type, v).text = input.text
    BY <1>2 DEF Rendered
  <2>2. CASE type = "NumberInput"
    <3>1. sameNumber(Parse(type, input.text), v) /\ Parse(type, input.text) # Null
      BY <1>2, <2>2 DEF Same, Reads
    <3>2. v # Null
      BY <3>1, NoValues DEF sameNumber, Present
    <3> QED
      BY <2>1, <2>2, <3>1, <3>2 DEF Reads, Same, AsShown
  <2>3. CASE type # "NumberInput"
    BY <1>2, <2>1, <2>3 DEF Reads, AsShown
  <2> QED
    BY <2>2, <2>3
<1>3. CASE ~Same(type, v, input.seen) /\ ~Same(type, Parse(type, input.text), v)
  <2>1. Rendered(input, type, v).text = Format(type, v)
    BY <1>3 DEF Rendered
  <2> QED
    BY <2>1, FormatReads
<1> QED
  BY <1>1, <1>2, <1>3

LEMMA MountedReads ==
    ASSUME NEW type \in InputTypes, NEW v, FitsInput(type, v)
    PROVE  Reads(type, Mounted(type, v).text, v)
BY FormatReads DEF Mounted

\* The property, place by place.
Shown(s, shown) == \A p \in Places(s.kind) :
                     Reads(TypeAt(s.kind, p), shown[p].text, s[KeyAt(s.kind, p)])

LEMMA ShownIs == TypeOK /\ Shown(spec, inputs) => ShowsWhatItHolds
BY DEF TypeOK, ShowsWhatItHolds, Shown, Reads, TypeAt, KeyAt, AsShown

ShowInv == FieldInv /\ AllFit(spec) /\ Shown(spec, inputs)

-----------------------------------------------------------------------------
(* The inputs show the setting, after every step.                          *)

LEMMA SettingTypes ==
    ASSUME NEW s, Shaped(s), NEW p \in Places(s.kind)
    PROVE  TypeAt(s.kind, p) \in InputTypes
BY PlaceOf DEF InputTypes

LEMMA DefaultFits ==
    ASSUME NEW kind \in Kinds
    PROVE  AllFit(defaultSpec(kind))
<1> DEFINE d == defaultSpec(kind)
<1>1. Shaped(d) /\ d.kind = kind
  BY DefaultIsShaped
<1>2. CASE kind \in {"now", "randomWalk", "sequence", "jitter"}
  <2> SUFFICES ASSUME NEW p \in Places(kind)
               PROVE  TypeAt(kind, p) = "NumberInput"
    BY <1>1 DEF AllFit, FitsInput
  <2> QED
    BY <1>2 DEF Places, SpecParams, Place, TypeAt
<1>3. CASE kind = "constant"
  <2>1. d.value = Scalar("string", 0)
    BY <1>3 DEF defaultSpec
  <2>2. Plain(d.value)
    BY <2>1 DEF Plain, Scalar
  <2>3. \A p \in Places(kind) : TypeAt(kind, p) = "ScalarInput" /\ KeyAt(kind, p) = "value"
    BY <1>3 DEF Places, SpecParams, Place, TypeAt, KeyAt
  <2> HIDE DEF d
  <2> QED
    BY <1>1, <2>2, <2>3 DEF AllFit, FitsInput, d
<1>4. CASE kind = "enum"
  <2>1. d.values = <<Scalar("string", 3), Scalar("string", 4)>>
    BY <1>4 DEF defaultSpec
  <2>2. List(d.values)
    <3>1. DOMAIN d.values = 1 .. 2 /\ d.values = [i \in 1 .. 2 |-> d.values[i]]
      BY <2>1
    <3> QED
      BY <3>1 DEF List
  <2>3. \A i \in DOMAIN d.values : Plain(d.values[i])
    BY <2>1 DEF Plain, Scalar
  <2>4. \A p \in Places(kind) : TypeAt(kind, p) = "ListInput" /\ KeyAt(kind, p) = "values"
    BY <1>4 DEF Places, SpecParams, Place, TypeAt, KeyAt
  <2> HIDE DEF d
  <2> QED
    BY <1>1, <2>2, <2>3, <2>4 DEF AllFit, FitsInput, d
<1>5. CASE kind = "dailyProfile"
  <2>1. d.peakHours = <<8 * One, 17 * One>>
    BY <1>5 DEF defaultSpec
  <2>2. List(d.peakHours)
    <3>1. DOMAIN d.peakHours = 1 .. 2 /\ d.peakHours = [i \in 1 .. 2 |-> d.peakHours[i]]
      BY <2>1
    <3> QED
      BY <3>1 DEF List
  <2>3. \A p \in Places(kind) : \/ TypeAt(kind, p) = "NumberInput"
                                \/ TypeAt(kind, p) = "HourList" /\ KeyAt(kind, p) = "peakHours"
    BY <1>5 DEF Places, SpecParams, Place, TypeAt, KeyAt
  <2> HIDE DEF d
  <2> QED
    BY <1>1, <2>2, <2>3 DEF AllFit, FitsInput, d
<1> QED
  BY <1>2, <1>3, <1>4, <1>5 DEF Kinds

\* What is typed fits its input and can be said again, a broken hour apart.
LEMMA TypedFits ==
    ASSUME NEW type \in InputTypes, NEW text \in TextsFor(type), NEW v, v = Parse(type, text)
    PROVE  FitsInput(type, v) /\ (type # "HourList" => Sayable(type, v))
<1>1. CASE type = "NumberInput"
  BY <1>1 DEF FitsInput, Sayable
<1>2. CASE type = "ScalarInput"
  <2>1. Legible(text) /\ v = parseScalar(text)
    BY <1>2, FieldAssumption DEF TextsFor, Parse
  <2> QED
    BY <1>2, <2>1, ScalarIsPlain DEF FitsInput, Sayable, SelfEvident
<1>3. CASE type \in {"HourList", "ListInput"}
  <2>1. text \in ListTexts
    BY <1>3 DEF TextsFor
  <2>2. PICK n \in Nat : DOMAIN splitList(text) = 1 .. n
    BY <2>1, SplitIs DEF List
  <2>3. CASE type = "HourList"
    <3>1. v = [i \in 1 .. n |-> parseHour(splitList(text)[i])]
      BY <2>2, <2>3 DEF Parse, Each
    <3>2. List(v)
      BY <3>1 DEF List
    <3> QED
      BY <2>3, <3>2 DEF FitsInput
  <2>4. CASE type = "ListInput"
    <3>1. v = [i \in 1 .. n |-> parseScalar(splitList(text)[i])]
      BY <2>2, <2>4 DEF Parse, Each
    <3>2. List(v)
      BY <3>1 DEF List
    <3>3. \A i \in 1 .. n : /\ Plain(parseScalar(splitList(text)[i]))
                            /\ SelfEvident(parseScalar(splitList(text)[i]))
                            /\ parseScalar(splitList(text)[i]) # Blank
      BY <2>1, <2>2, SplitIs, ScalarIsPlain
    <3>4. \A i \in DOMAIN v : Plain(v[i]) /\ SelfEvident(v[i]) /\ v[i] # Blank
      BY <3>1, <3>3
    <3> QED
      BY <2>4, <3>2, <3>4 DEF FitsInput, Sayable, SelfEvident, Blank
  <2> QED
    BY <1>3, <2>3, <2>4
<1> QED
  BY <1>1, <1>2, <1>3 DEF InputTypes

LEMMA ShowTypeStep ==
    ASSUME ShowInv, NEW p \in DOMAIN inputs, NEW text \in TextsFor(SpecParams(spec.kind)[p].type), Type(p, text)
    PROVE  AllFit(spec)' /\ Shown(spec, inputs)'
<1> DEFINE k == KeyAt(spec.kind, p)
           type == TypeAt(spec.kind, p)
           says == Parse(type, text)
<1>1. FieldInv /\ p \in Places(spec.kind) /\ text \in TextsFor(type) /\ Shaped(spec)
  BY DEF ShowInv, FieldInv, TypeOK, TypeAt
<1>2. /\ spec'.kind = spec.kind
      /\ spec'[k] = required(k, says)
      /\ \A q \in Places(spec.kind) \ {p} : spec'[KeyAt(spec.kind, q)] = spec[KeyAt(spec.kind, q)]
      /\ inputs'[p] = [text |-> text, seen |-> says]
      /\ \A q \in Places(spec.kind) \ {p} : inputs'[q] = inputs[q]
  BY <1>1, TypeOnly
<1>3. type \in InputTypes
  BY <1>1, SettingTypes
<1>4. FitsInput(type, says)
  BY <1>1, <1>3, TypedFits
<1>5. type # "NumberInput" => spec'[k] = says
  BY <1>1, <1>2, PlaceOf DEF required
<1>6. type = "NumberInput" => says # Null /\ sameNumber(says, spec'[k]) /\ spec'[k] # Null
  <2> SUFFICES ASSUME type = "NumberInput"
               PROVE  says # Null /\ sameNumber(says, spec'[k]) /\ spec'[k] # Null
    OBVIOUS
  <2>1. says = parseNumber(text) /\ Legible(text)
    BY <1>1, FieldAssumption DEF Parse, TextsFor
  <2>2. says # Null
    BY <2>1, NoValues DEF parseNumber, Legible, isNumber
  <2> QED
    BY <1>2, <2>2, NoValues DEF required, sameNumber, Present
<1>7. \A v : Same("HourList", v, v) /\ Same("ListInput", v, v) /\ Same("ScalarInput", v, v)
  BY DEF Same
<1> HIDE DEF k, says
<1>8. FitsInput(type, spec'[k]) /\ Reads(type, inputs'[p].text, spec'[k])
  <2>1. inputs'[p].text = text
    BY <1>2
  <2>2. CASE type = "NumberInput"
    BY <1>6, <2>1, <2>2 DEF FitsInput, Reads, Same, AsShown, says
  <2>3. CASE type # "NumberInput"
    BY <1>3, <1>4, <1>5, <1>7, <2>1, <2>3 DEF Reads, AsShown, says, InputTypes
  <2> QED
    BY <2>2, <2>3
<1>9. ASSUME NEW q \in Places(spec.kind) \ {p}
      PROVE  /\ FitsInput(TypeAt(spec.kind, q), spec'[KeyAt(spec.kind, q)])
             /\ Reads(TypeAt(spec.kind, q), inputs'[q].text, spec'[KeyAt(spec.kind, q)])
  BY <1>2 DEF AllFit, Shown, ShowInv
<1> QED
  BY <1>2, <1>8, <1>9 DEF AllFit, Shown, k

LEMMA ShowBecomeStep ==
    ASSUME ShowInv, NEW next, Shaped(next), AllFit(next), spec' = next, inputs' = Render(inputs, next)
    PROVE  AllFit(spec)' /\ Shown(spec, inputs)'
<1>1. AllFit(spec)'
  <2>1. AllFit(spec')
    OBVIOUS
  <2> QED
    BY <2>1 DEF AllFit
<1>2. ASSUME NEW p \in Places(next.kind)
      PROVE  Reads(TypeAt(next.kind, p), inputs'[p].text, next[KeyAt(next.kind, p)])
  <2> DEFINE type == TypeAt(next.kind, p)
             v == next[KeyAt(next.kind, p)]
             w == spec[KeyAt(spec.kind, p)]
  <2>1. type \in InputTypes /\ FitsInput(type, v)
    BY SettingTypes DEF AllFit
  <2>2. inputs'[p] = IF p \in Kept(spec.kind, next.kind) THEN Rendered(inputs[p], type, v) ELSE Mounted(type, v)
    BY DEF Render, TypeAt, KeyAt
  <2>3. CASE p \in Kept(spec.kind, next.kind)
    <3>1. p \in Places(spec.kind) /\ TypeAt(spec.kind, p) = type
      BY <2>3 DEF Kept, TypeAt
    <3>2. Same(type, w, inputs[p].seen)
      BY <3>1 DEF ShowInv, FieldInv, Current
    <3>3. Reads(type, inputs[p].text, w)
      BY <3>1 DEF ShowInv, Shown
    <3> HIDE DEF type, v, w
    <3> QED
      BY <2>1, <2>2, <2>3, <3>2, <3>3, RenderedReads DEF type, v
  <2>4. CASE p \notin Kept(spec.kind, next.kind)
    <3> HIDE DEF type, v
    <3>1. Reads(type, inputs'[p].text, v)
      BY <2>1, <2>2, <2>4, MountedReads
    <3> QED
      BY <3>1 DEF type, v
  <2> QED
    BY <2>3, <2>4
<1> QED
  BY <1>1, <1>2 DEF Shown

LEMMA ShowToggleStep ==
    ASSUME ShowInv, ToggleInteger
    PROVE  AllFit(spec)' /\ Shown(spec, inputs)'
<1>1. Shaped(spec)' 
  BY ToggleStep DEF ShowInv, FieldInv
<1>2. spec'.kind = spec.kind /\ \A key \in DOMAIN spec \ {"integer"} : spec'[key] = spec[key]
  BY ShapedOf DEF ToggleInteger, ShowInv, FieldInv
<1>3. AllFit(spec')
  <2>1. \A p \in Places(spec.kind) : KeyAt(spec.kind, p) \in DOMAIN spec \ {"integer"}
    BY PlaceOf DEF ShowInv, FieldInv
  <2> QED
    BY <1>2, <2>1 DEF ShowInv, AllFit
<1> QED
  BY <1>1, <1>3, ShowBecomeStep DEF ToggleInteger

LEMMA BuiltIsShown == Shaped(spec) /\ AllFit(spec) /\ Built => Shown(spec, inputs)
<1> SUFFICES ASSUME Shaped(spec), AllFit(spec), Built, NEW p \in Places(spec.kind)
             PROVE  Reads(TypeAt(spec.kind, p), inputs[p].text, spec[KeyAt(spec.kind, p)])
  BY DEF Shown
<1>1. TypeAt(spec.kind, p) \in InputTypes /\ FitsInput(TypeAt(spec.kind, p), spec[KeyAt(spec.kind, p)])
  BY SettingTypes DEF AllFit
<1> QED
  BY <1>1, MountedReads DEF Built

\* What an applied JSON text brings back fits the inputs as before.
LEMMA ShowReopenedStep ==
    ASSUME ShowInv, NEW applied \in BOOLEAN, Reopened(applied)
    PROVE  AllFit(spec)' /\ Shown(spec, inputs)'
<1>1. Shaped(spec)' /\ Built' /\ spec' = (IF applied THEN OnWire(spec) ELSE spec)
  BY ReopenedBuilds DEF ShowInv
<1>2. Shaped(spec) /\ AllFit(spec)
  BY DEF ShowInv, FieldInv
<1>3. AllFit(spec')
  <2>1. CASE applied = FALSE
    BY <1>1, <1>2, <2>1
  <2>2. CASE applied = TRUE
    <3> SUFFICES ASSUME NEW p \in Places(spec.kind)
                 PROVE  FitsInput(TypeAt(spec.kind, p), OnWire(spec)[KeyAt(spec.kind, p)])
      BY <1>1, <1>2, <2>2, OnWireIsShaped DEF AllFit
    <3> DEFINE type == TypeAt(spec.kind, p)
               key == KeyAt(spec.kind, p)
    <3>1. type \in InputTypes /\ FitsInput(type, spec[key])
      BY <1>2, SettingTypes DEF AllFit
    <3>2. key \in DOMAIN spec /\ (type # "NumberInput" => key \in {"value", "values", "peakHours"})
          /\ (key = "peakHours" => type = "HourList")
      BY <1>2, PlaceOf
    <3>3. CASE type = "NumberInput"
      BY <3>3 DEF FitsInput
    <3>4. CASE key \in {"value", "values"}
      <4>1. OnWire(spec)[key] = spec[key]
        BY <1>2, <3>2, <3>4, OnWireFields DEF Numeric
      <4> QED
        BY <3>1, <4>1
    <3>5. CASE key = "peakHours"
      <4>1. OnWire(spec)[key] = [i \in DOMAIN spec[key] |-> Wire(spec[key][i])] /\ type = "HourList"
        BY <1>2, <3>2, <3>5, OnWireFields
      <4>2. PICK n \in Nat : DOMAIN spec[key] = 1 .. n
        BY <3>1, <4>1 DEF FitsInput, List
      <4> HIDE DEF key, type
      <4>3. OnWire(spec)[key] = [i \in 1 .. n |-> Wire(spec[key][i])]
        BY <4>1, <4>2
      <4>4. DOMAIN OnWire(spec)[key] = 1 .. n
            /\ OnWire(spec)[key] = [i \in 1 .. n |-> OnWire(spec)[key][i]]
        BY <4>3
      <4>5. List(OnWire(spec)[key])
        BY <4>2, <4>4 DEF List
      <4> QED
        BY <4>1, <4>5 DEF FitsInput, type, key
    <3> QED
      BY <3>2, <3>3, <3>4, <3>5
  <2> QED
    BY <2>1, <2>2
<1>4. AllFit(spec)'
  BY <1>3 DEF AllFit
<1>5. (Shaped(spec) /\ AllFit(spec) /\ Built)' => Shown(spec, inputs)'
  BY BuiltIsShown, PTL
<1> QED
  BY <1>1, <1>4, <1>5

\* What an input shows reads as the setting that would be saved, a null as 0,
\* whatever was typed before, whichever setting the input was first built for and
\* whatever the JSON view made of it; values no text says apart
\* (parsed-input.tsx:41-63, numbers.ts:6-54, simulation-editor.tsx:154-165).
THEOREM InputsShowTheSetting ==
    ASSUME PlainNeighbours
    PROVE  Spec => []ShowsWhatItHolds
<1>1. Init => AllFit(spec) /\ Shown(spec, inputs)
  <2> SUFFICES ASSUME Init
               PROVE  AllFit(spec) /\ Shown(spec, inputs)
    OBVIOUS
  <2>1. Shaped(spec) /\ AllFit(spec)
    BY DefaultIsShaped, DefaultFits DEF Init
  <2> QED
    BY <2>1, BuiltIsShown DEF Init, Built, TypeAt, KeyAt
<1>2. ShowInv /\ [Next]_vars => AllFit(spec)' /\ Shown(spec, inputs)'
  <2> SUFFICES ASSUME ShowInv, [Next]_vars
               PROVE  AllFit(spec)' /\ Shown(spec, inputs)'
    OBVIOUS
  <2>1. ASSUME NEW p \in DOMAIN inputs, NEW text \in TextsFor(SpecParams(spec.kind)[p].type), Type(p, text)
        PROVE  AllFit(spec)' /\ Shown(spec, inputs)'
    BY <2>1, ShowTypeStep
  <2>2. ASSUME NEW kind \in Kinds, SwitchKind(kind)
        PROVE  AllFit(spec)' /\ Shown(spec, inputs)'
    BY <2>2, ShowBecomeStep, DefaultIsShaped, DefaultFits DEF SwitchKind, Become
  <2>3. ASSUME NEW next \in Neighbours, Replaced(next)
        PROVE  AllFit(spec)' /\ Shown(spec, inputs)'
    BY <2>3, ShowBecomeStep, FieldAssumption DEF PlainNeighbours, Replaced, Become
  <2>4. CASE ToggleInteger
    BY <2>4, ShowToggleStep
  <2>5. ASSUME NEW applied \in BOOLEAN, Reopened(applied)
        PROVE  AllFit(spec)' /\ Shown(spec, inputs)'
    BY <2>5, ShowReopenedStep
  <2>6. CASE UNCHANGED vars
    BY <2>6 DEF vars, ShowInv, AllFit, Shown
  <2> QED
    BY <2>1, <2>2, <2>3, <2>4, <2>5, <2>6 DEF Next
<1>3. FieldInv /\ AllFit(spec) /\ Shown(spec, inputs) => ShowInv
  BY DEF ShowInv
<1>4. FieldInv' /\ AllFit(spec)' /\ Shown(spec, inputs)' => ShowInv'
  BY <1>3, PTL
<1>5. Spec => []FieldInv
  BY FieldStays
<1>6. Init /\ FieldInv => ShowInv
  BY <1>1, <1>3
<1>7. ShowInv /\ FieldInv' /\ [Next]_vars => ShowInv'
  BY <1>2, <1>4
<1>8. ShowInv => ShowsWhatItHolds
  BY ShownIs DEF ShowInv, FieldInv
<1> QED
  BY <1>5, <1>6, <1>7, <1>8, PTL DEF Spec

-----------------------------------------------------------------------------
(* What follows.                                                           *)

\* The form always has an input for each place and no other (parsed-input.tsx:10-28).
THEOREM FormIsComplete == Spec => []TypeOK
<1>1. FieldInv => TypeOK
  BY DEF FieldInv
<1> QED
  BY <1>1, FieldStays, PTL

\* The service takes every setting the editor finds nothing wrong with, whatever
\* was typed or came from the JSON view, unless a null passed for a default
\* (spec-checks.ts:45-90 against types.ts:9-47).
THEOREM CheckedIsAccepted == Spec => []AcceptedByService
<1>1. FieldInv => AcceptedByService
  BY CheckedIsTaken DEF FieldInv, AcceptedByService
<1> QED
  BY <1>1, FieldStays, PTL

\* A walk or a daily profile without an error produces no value outside its
\* range, rounding included.
THEOREM RangeIsKept == Spec => []ValuesInRange
<1>1. FieldInv => ValuesInRange
  BY CheckedStaysInRange DEF ValuesInRange, Reached
<1> QED
  BY <1>1, FieldStays, PTL

\* The column derived for a setting without an error takes each of its values, if
\* an integer column's numbers fit in four bytes (api-json.ts:51-79, sql-writer.ts:10-16).
THEOREM ColumnTakesValues == Spec => []ColumnHolds
<1>1. FieldInv => ColumnHolds
  BY CheckedFits DEF FieldInv, ColumnHolds, Reached, OneType
<1> QED
  BY <1>1, FieldStays, PTL

\* A number input that shows a broken text has an error beside it, unless the
\* text was typed for another setting.
THEOREM BrokenHasError == Spec => []BrokenIsNamed
<1>1. FieldInv => BrokenIsNamed
  <2> SUFFICES ASSUME FieldInv, NEW p \in NumberPlaces, Broken(inputs[p]), p \notin carried
               PROVE  SpecParams(spec.kind)[p].key \in specErrors(spec)
    BY DEF BrokenIsNamed
  <2>1. p \in Places(spec.kind) /\ TypeAt(spec.kind, p) = "NumberInput" /\ Shaped(spec)
    BY DEF FieldInv, TypeOK, NumberPlaces, TypeAt
  <2>2. spec[KeyAt(spec.kind, p)] = NaN
    BY <2>1 DEF FieldInv, Named
  <2> QED
    BY <2>1, <2>2, NaNIsNamed DEF KeyAt
<1> QED
  BY <1>1, FieldStays, PTL

\* A keystroke leaves the text as it was typed, and the text of every other
\* input as it was (parsed-input.tsx:18-23).
THEOREM TextIsTheTypists == Spec => TypedTextStays
<1> DEFINE Stays == spec'.kind = spec.kind =>
                      \A p \in {q \in DOMAIN inputs : inputs'[q] # inputs[q]} :
                        \A text \in TextsFor(SpecParams(spec.kind)[p].type) :
                          Type(p, text) => /\ inputs'[p].text = text
                                           /\ \A q \in DOMAIN inputs \ {p} : inputs'[q].text = inputs[q].text
<1>1. FieldInv => Stays
  <2> SUFFICES ASSUME FieldInv, NEW p \in DOMAIN inputs,
                      NEW text \in TextsFor(SpecParams(spec.kind)[p].type), Type(p, text)
               PROVE  /\ inputs'[p].text = text
                      /\ \A q \in DOMAIN inputs \ {p} : inputs'[q].text = inputs[q].text
    OBVIOUS
  <2> DEFINE says == Parse(TypeAt(spec.kind, p), text)
  <2>1. DOMAIN inputs = Places(spec.kind) /\ text \in TextsFor(TypeAt(spec.kind, p))
    BY DEF FieldInv, TypeOK, TypeAt
  <2>2. /\ inputs'[p] = [text |-> text, seen |-> says]
        /\ \A q \in Places(spec.kind) \ {p} : inputs'[q] = inputs[q]
    BY <2>1, TypeOnly
  <2> QED
    BY <2>1, <2>2
<1>2. FieldInv /\ [Next]_vars => [Stays]_vars
  BY <1>1
<1> QED
  BY <1>2, FieldStays, PTL DEF Spec, TypedTextStays
=============================================================================
