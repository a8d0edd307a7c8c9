------------------------------- MODULE MCEditor -------------------------------
EXTENDS Editor

\* What a person types.
Inputs == [names |-> {"A", "long"}, topics |-> {<<"t">>}, urls |-> {"", "broker"}, tables |-> {"s.t"},
           seeds |-> {NaN}, inserts |-> {20000 * One}, limits |-> {NaN},
           intervals |-> {NaN, 10, 0},
           fieldNames |-> {"x", "x.y"},
           specs |-> {[defaultSpec("randomWalk") EXCEPT !.step = NaN],
                      [defaultSpec("sequence") EXCEPT !.padTo = NaN]}]

\* What a person makes of the text: no body at all, a changed topic, a null
\* interval, a setting the form does not know; or a body again.
Bodies(body) ==
  {Malformed} \cup
  (IF Readable(body)
   THEN {[body EXCEPT !.transport = Mqtt("mqtt://b", <<"json">>)],
         [body EXCEPT !.intervalSeconds = Null],
         [body EXCEPT !.extras = {"rowSchema"}]}
   ELSE {NoText})

\* What the service holds: a topic, and a table that is filled once and that the
\* marketplace registered with the address it is read at and a setting the editor
\* does not know.
Topic == Kept(toInput([emptyDraft("mqtt://b") EXCEPT !.name = "B", !.transport.topic = <<"b">>]))
Read(table) == [Sql(table) EXCEPT !.readDsn = "dsn"]
Table == [Kept(toInput([emptyDraft("") EXCEPT !.name = "C", !.transport = Read("s.c"), !.fields = SQL_FIELDS,
                          !.primaryKey = "id", !.cadence = "fillToLimit", !.maxRows = 5000 * One]))
            EXCEPT !.extras = {"rowSchema"}]
Stored == {<<Topic, Table, None, None>>}

\* The portal: a structure with two versions, nested and unsupported properties
\* and a count; one without a model.
Leaf(path, type) == [path |-> path, type |-> type, ref |-> FALSE, date |-> FALSE, enum |-> Undefined,
                     minimum |-> Undefined, maximum |-> Undefined, key |-> FALSE]
Version(number, model) == [id |-> number, number |-> number, urn |-> "urn", model |-> model]
Class == <<[Leaf("anzahl", "integer") EXCEPT !.maximum = 12 * One], Leaf("x.y", Undefined),
           [Leaf("geo", Undefined) EXCEPT !.ref = TRUE]>>
Trees == <<[Leaf("baum_id", "string") EXCEPT !.key = TRUE], Leaf("hoehe", "number")>>
Portal == {[name |-> "Zaehler",
            versions |-> {Version(2, [properties |-> Undefined, defs |-> <<Undefined, Class>>]),
                          Version(1, Undefined)}],
           [name |-> "Leer", versions |-> {Version(1, Undefined)}],
           [name |-> "Baeume", versions |-> {Version(1, [properties |-> Trees])}]}
Source(id, kind, topics, table) ==
  [id |-> id, urn |-> Undefined, name |-> "Quelle", kind |-> kind, topics |-> topics, table |-> table]
DataSources == {Source("ds1", "mqtt", <<<<"s", "+">>>>, Undefined),
                Source("long", "mqtt", <<<<"s", "d">>>>, Undefined),
                Source("ds1", "sql", <<>>, "s.q")}
=============================================================================
