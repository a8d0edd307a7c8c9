---------------------------- MODULE Configuration ----------------------------
(***************************************************************************)
(* One simulation's configuration in its three shapes: the editor's draft, *)
(* the body sent to the service (what the JSON view shows) and the input   *)
(* the service keeps; the conversions between them and what each side      *)
(* checks.  Scenario and transport settings are those of the code; a topic *)
(* is a sequence of segments.  `extras` of a body are the settings of the  *)
(* scenario only other callers send: rowSchema, timeCompression; they also *)
(* send readDsn, with the transport.  Of an origin, the parts the editor   *)
(* sets.  The description is left out: it goes where the name goes, and    *)
(* its length is checked where the name's is.                              *)
(* A body has one table or none.                                           *)
(***************************************************************************)
EXTENDS Generators, SequencesExt

CONSTANTS GoodUrls,    \* broker addresses that parse and carry no credentials
          TooLong      \* names and ids that are longer than the service takes

ASSUME NoTexts == \A text \in {"", "interval", "fillToLimit"} : text \notin {Undefined, Null}
ASSUME LongTexts == Undefined \notin TooLong /\ "" \notin TooLong

Mqtt(url, topic) == [kind |-> "mqtt", url |-> url, topic |-> topic]
Sql(table)       == [kind |-> "sql", table |-> table, readDsn |-> Undefined]
Field(name, spec) == [name |-> name, spec |-> spec]

\* A list of fields: each has a name and settings of one kind.
FieldList(fields) ==
  /\ fields \in Seq({fields[i] : i \in DOMAIN fields})
  /\ \A i \in DOMAIN fields : /\ fields[i] = Field(fields[i].name, fields[i].spec)
                              /\ Shaped(fields[i].spec)

\* Names with a dot in them; the names the model uses are among them or have none.
Dotted == {"location.lat", "location.lon", "x.y"}
SIMULATED_COLUMN == "simuliert"

topicFor(name) == IF name = "" THEN <<>> ELSE <<"civitas", name>>
isSql(draft) == draft.transport.kind = "sql"
fills(draft) == isSql(draft) /\ draft.cadence = "fillToLimit"

-----------------------------------------------------------------------------
(* From the draft to the body and back.                                    *)

\* Object.fromEntries: a name keeps its first place, its last value counts.
Names(fields) == {fields[i].name : i \in DOMAIN fields}
LastNamed(fields, name) == fields[CHOOSE i \in DOMAIN fields :
                               fields[i].name = name /\ \A j \in DOMAIN fields : fields[j].name = name => j <= i]
Firsts(fields) == {i \in DOMAIN fields : \A j \in 1 .. i - 1 : fields[j].name # fields[i].name}
Merged(fields) == [k \in 1 .. Cardinality(Firsts(fields)) |->
                     LastNamed(fields, fields[Nth(Firsts(fields), k)].name)]

\* As JSON: NaN is null, what is undefined is left out.  An empty name is not sent.
toInput(draft) ==
  LET sql == isSql(draft)
      columns == [n \in Names(draft.fields) |-> columnTypeFor(LastNamed(draft.fields, n).spec)]
      merged == Merged(draft.fields)
  IN  [name |-> IF draft.name = "" THEN Undefined ELSE draft.name,
       origin |-> draft.origin,
       enabled |-> draft.enabled,
       transport |-> draft.transport,
       intervalSeconds |-> IF fills(draft) /\ ~isNumber(draft.intervalSeconds) THEN 10 * One
                           ELSE Wire(draft.intervalSeconds),
       fields |-> [i \in DOMAIN merged |-> Field(merged[i].name, OnWire(merged[i].spec))],
       table |-> IF sql THEN {[primaryKey |-> draft.primaryKey, columns |-> columns]} ELSE {},
       seedRows |-> IF sql THEN Wire(Or(draft.seedRows, 0)) ELSE Undefined,
       insertsPerTick |-> IF sql THEN Wire(Or(draft.insertsPerTick, One)) ELSE Undefined,
       maxRows |-> IF sql THEN Wire(draft.maxRows) ELSE Undefined,
       cadence |-> IF fills(draft) THEN "fillToLimit" ELSE Undefined,
       extras |-> {}]

keyForgotten(table) == Undefined
keyIn(table) == IF table = {} THEN Undefined ELSE (CHOOSE t \in table : TRUE).primaryKey

\* What came back from the service, as the editor's draft.
toDraft(input) ==
  [name |-> Or(input.name, ""), origin |-> input.origin, enabled |-> input.enabled,
   transport |-> input.transport, intervalSeconds |-> input.intervalSeconds, cadence |-> input.cadence,
   fields |-> input.fields,
   primaryKey |-> keyIn(input.table),
   seedRows |-> input.seedRows, insertsPerTick |-> input.insertsPerTick, maxRows |-> input.maxRows]

fillForgotten(body) == Undefined
fillIn(body) == IF body.cadence = "fillToLimit" THEN "fillToLimit" ELSE Undefined
num(v) == IF isNumber(v) THEN v ELSE Undefined

\* A body the JSON view can read; a text that is no such body is Malformed.
Malformed == [extras |-> {"malformed"}]
Readable(body) == body # Malformed

\* The address the platform reads at is not among what is taken from the text.
parsedTransport(transport) ==
  IF transport.kind = "sql" THEN Sql(transport.table) ELSE transport
fromJson(body) ==
  [name |-> Or(body.name, ""), origin |-> body.origin, enabled |-> body.enabled,
   transport |-> parsedTransport(body.transport),
   intervalSeconds |-> Or(num(body.intervalSeconds), 10 * One),
   cadence |-> fillIn(body),
   fields |-> body.fields,
   primaryKey |-> keyIn(body.table),
   seedRows |-> num(body.seedRows), insertsPerTick |-> num(body.insertsPerTick),
   maxRows |-> num(body.maxRows)]

-----------------------------------------------------------------------------
(* What the editor checks before a save.                                   *)

rowsError(v, from, to) == v # Undefined /\ ~wholeIn(v, from, to)
maxRowsError(v) == v \in {Undefined, NaN} \/ rowsError(v, 1, 100000)
intervalError(v) == ~isNumber(v) \/ v < One \/ v > 3600 * One

sqlErrorsAnyName(draft) ==
  UNION {When(draft.transport.table = "", "table"),
         When(draft.primaryKey \in {Undefined, ""}, "primaryKey"),
         When(maxRowsError(draft.maxRows), "maxRows")}
sqlErrors(draft) ==
  UNION {When(draft.transport.table = "", "table"),
         When(draft.primaryKey \in {Undefined, ""}, "primaryKey"),
         When(maxRowsError(draft.maxRows), "maxRows"),
         When(~fills(draft) /\ rowsError(draft.seedRows, 0, 10000), "seedRows"),
         When(~fills(draft) /\ rowsError(draft.insertsPerTick, 0, 100), "insertsPerTick"),
         When(Names(draft.fields) \cap Dotted # {}, "dotted")}

validate(draft) ==
  UNION {When(draft.name = "", "name"),
         IF isSql(draft) THEN sqlErrors(draft)
         ELSE When(draft.transport.url = "", "url") \cup When(draft.transport.topic = <<>>, "topic"),
         When(draft.fields = <<>>, "fields"),
         When("" \in Names(draft.fields), "field name"),
         When(Cardinality(Names(draft.fields)) # Len(draft.fields), "unique"),
         UNION {specErrors(draft.fields[i].spec) : i \in DOMAIN draft.fields},
         When(~fills(draft) /\ intervalError(draft.intervalSeconds), "interval")}

-----------------------------------------------------------------------------
(* What the service's schema takes, and what it makes of it.               *)

\* Without a schema the columns are the ones sent.
resolves(table) ==
  /\ DOMAIN table.columns # {}
  /\ table.primaryKey \in DOMAIN table.columns

sentOr(v, ok) == v # Undefined => ok

scenarioSchema(body) ==
  /\ sentOr(body.intervalSeconds, /\ isNumber(body.intervalSeconds)
                                  /\ body.intervalSeconds > 0
                                  /\ body.intervalSeconds <= 3600 * One)
  /\ \A i \in DOMAIN body.fields : generatorSpecSchema(body.fields[i].spec)
  /\ \A table \in body.table : table.primaryKey # ""
  /\ sentOr(body.seedRows, wholeIn(body.seedRows, 0, 10000))
  /\ sentOr(body.insertsPerTick, wholeIn(body.insertsPerTick, 0, 100))
  /\ sentOr(body.maxRows, wholeIn(body.maxRows, 1, 100000))

transportSchema(transport) ==
  IF transport.kind = "sql" THEN transport.table # ""
  ELSE transport.url \in GoodUrls /\ transport.topic # <<>>

\* An artifact of the portal that a simulation belongs to.
artifactRefSchema(ref) ==
  /\ ref.name \notin TooLong \cup {"", Undefined}
  /\ ref.urn \notin TooLong \cup {""}
  /\ ref.id \notin TooLong \cup {""}
originSchema(origin) ==
  \A part \in {"dataStructure", "dataSource"} : sentOr(origin[part], artifactRefSchema(origin[part]))

\* Every field has a column and every column a field, the service's own apart.
refined(body) ==
  IF body.transport.kind # "sql" THEN body.cadence # "fillToLimit"
  ELSE /\ body.table # {}
       /\ body.maxRows # Undefined
       /\ Names(body.fields) \cap Dotted = {}
       /\ \A table \in body.table :
            /\ resolves(table)
            /\ Names(body.fields) \subseteq DOMAIN table.columns
            /\ DOMAIN table.columns \ Names(body.fields) \subseteq {SIMULATED_COLUMN}

simulationInputSchema(body) ==
  /\ body.name \notin TooLong
  /\ sentOr(body.origin, originSchema(body.origin))
  /\ transportSchema(body.transport) /\ scenarioSchema(body) /\ refined(body)

\* The input that is kept: the schema's defaults filled in.
Kept(body) ==
  [body EXCEPT !.intervalSeconds = Or(@, 10 * One),
               !.cadence = Or(@, "interval"),
               !.seedRows = Or(@, 0),
               !.insertsPerTick = Or(@, One),
               !.fields = [i \in DOMAIN @ |-> Field(@[i].name, Parsed(@[i].spec))]]
=============================================================================
