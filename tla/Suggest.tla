------------------------------- MODULE Suggest -------------------------------
(***************************************************************************)
(* Drafts suggested from the portal's data structures: reading a structure *)
(* from its CORE model, one generator per property, and binding the draft  *)
(* to the data source it is to feed.                                       *)
(*                                                                         *)
(* A property is known by its dotted path.  What the code finds out by     *)
(* matching the name (a latitude, a longitude, a count) is an attribute.   *)
(***************************************************************************)
EXTENDS Configuration

CONSTANT BrokerUrl     \* the service's default broker, "" when it has none

\* What the patterns of suggestSpec find in a name.
LatLike   == {"lat", "latitude", "location.lat"}
LonLike   == {"lon", "longitude", "location.lon"}
CountLike == {"vehicleCount", "powerW", "anzahl"}
MUSTERHAUSEN == [lat |-> 996, lon |-> 199]

-----------------------------------------------------------------------------
(* Reading the portal.  A version's model has properties at its root or in *)
(* the first of its classes that has any.  A leaf is a property that is no *)
(* nested object; a nested object contributes its leaves, by dotted path.  *)

Flat == {"string", "number", "integer", "boolean"}

readProperty(leaf) ==
  LET type == IF leaf.type # Undefined THEN leaf.type ELSE IF leaf.ref THEN "unsupported" ELSE "string"
      supported == type \in Flat
  IN  [name |-> leaf.path,
       type |-> IF supported THEN type ELSE "string",
       date |-> supported /\ leaf.date,
       enum |-> IF supported THEN leaf.enum ELSE Undefined,
       minimum |-> IF supported THEN leaf.minimum ELSE Undefined,
       maximum |-> IF supported THEN leaf.maximum ELSE Undefined,
       primaryKey |-> supported /\ leaf.key,
       unsupported |-> ~supported]

\* The version with the highest number; those without an id are passed over.
currentVersionOf(structure) ==
  LET named == {v \in structure.versions : v.id # Undefined}
  IN  IF named = {} THEN Undefined
      ELSE CHOOSE v \in named : \A w \in named : w.number <= v.number

\* The row class: the root, or the first class with properties.
rowClassOf(model) ==
  IF model.properties # Undefined THEN model.properties
  ELSE LET classes == SelectSeq(model.defs, LAMBDA class : class # Undefined)
       IN  IF classes = <<>> THEN Undefined ELSE classes[1]

\* A structure without a version, a model or a row class is passed over.
readStructure(structure) ==
  LET latest == currentVersionOf(structure)
      class == IF latest = Undefined \/ latest.model = Undefined THEN Undefined ELSE rowClassOf(latest.model)
  IN  IF class = Undefined THEN {}
      ELSE {[urn |-> latest.urn, name |-> structure.name,
             properties |-> [i \in DOMAIN class |-> readProperty(class[i])]]}

\* The portal's structures, or the bundled examples when it cannot be read.
getDataStructures(page, readable, examples) ==
  IF readable THEN UNION {readStructure(structure) : structure \in page} ELSE examples

-----------------------------------------------------------------------------
(* Suggestions.                                                            *)

dailyShare(max) == (max * 2) \div 5
dailyMax(max) == Round((max * 2) \div 5, One)

suggestNumber(p) ==
  LET min == Or(p.minimum, 0)
      max == Or(p.maximum, 100 * One)
      integer == p.type = "integer"
      span == max - min
  IN  IF p.name \in CountLike
      THEN [kind |-> "dailyProfile", min |-> min, max |-> dailyMax(max),
            peakHours |-> <<8 * One, 17 * One>>, noise |-> 3, integer |-> integer]
      ELSE [kind |-> "randomWalk", min |-> min, max |-> max,
            step |-> Larger(span \div 40, IF integer THEN One ELSE 2),
            start |-> min + span \div 2, integer |-> integer]

suggestSpec(p) ==
  IF p.primaryKey THEN [kind |-> "sequence", start |-> One, padTo |-> 4 * One]
  ELSE IF p.date THEN [kind |-> "now"]
  ELSE IF p.enum \notin {Undefined, <<>>} THEN [kind |-> "enum", values |-> p.enum]
  ELSE IF p.type = "boolean"
    THEN [kind |-> "enum", values |-> <<Scalar("boolean", 1), Scalar("boolean", 0)>>]
  ELSE IF p.name \in LatLike \cup LonLike
    THEN [kind |-> "jitter", spread |-> 1, precision |-> 6 * One,
          center |-> IF p.name \in LatLike THEN MUSTERHAUSEN.lat ELSE MUSTERHAUSEN.lon]
  ELSE IF p.type = "string" THEN [kind |-> "constant", value |-> Scalar("string", 5)]
  ELSE suggestNumber(p)

ArtifactRef(name, urn, id) == [name |-> name, urn |-> urn, id |-> id]

\* The first property marked as the key makes the structure a table.
keyOf(ds) == LET keys == {i \in DOMAIN ds.properties : ds.properties[i].primaryKey}
             IN  IF keys = {} THEN Undefined ELSE ds.properties[Nth(keys, 1)].name

supported(ds) == Listed(ds.properties, {i \in DOMAIN ds.properties : ~ds.properties[i].unsupported})

draftFromDataStructure(ds, brokerUrl) ==
  LET kept  == supported(ds)
      table == keyOf(ds) # Undefined
      rows(n) == IF table THEN n * One ELSE Undefined
  IN  [name |-> ds.name,
       origin |-> [dataStructure |-> ArtifactRef(ds.name, ds.urn, Undefined), dataSource |-> Undefined],
       enabled |-> FALSE,
       transport |-> IF table THEN Sql(ds.name) ELSE Mqtt(brokerUrl, topicFor(ds.name)),
       intervalSeconds |-> IF table THEN 60 * One ELSE 10 * One,
       cadence |-> Undefined,
       fields |-> [i \in DOMAIN kept |-> Field(kept[i].name, suggestSpec(kept[i]))],
       primaryKey |-> keyOf(ds),
       seedRows |-> rows(100), insertsPerTick |-> rows(1), maxRows |-> rows(5000)]

\* A subscription that ends in a wildcard leaves room for a topic of its own.
topicBound(source) == source.topics[1]
topicUnder(source) ==
  LET subscription == source.topics[1]
      wildcard == Len(subscription) > 1 /\ subscription[Len(subscription)] \in {"+", "#"}
  IN  IF wildcard THEN Append(Front(subscription), source.name) ELSE subscription

bindToDataSource(draft, source) ==
  LET bound == [draft EXCEPT !.origin.dataSource = ArtifactRef(source.name, source.urn, source.id)]
  IN  IF source.kind = "sql" /\ source.table # Undefined
      THEN [bound EXCEPT !.name = source.name, !.transport = Sql(source.table),
                         !.seedRows = Or(@, 100 * One), !.insertsPerTick = Or(@, One),
                         !.maxRows = Or(@, 5000 * One),
                         !.intervalSeconds = IF @ \in {0, NaN} THEN 60 * One ELSE @]
      ELSE IF source.kind = "mqtt" /\ source.topics # <<>>
      THEN [bound EXCEPT !.name = source.name,
                         !.transport = Mqtt(IF isSql(draft) THEN "" ELSE draft.transport.url,
                                            topicUnder(source))]
      ELSE bound

-----------------------------------------------------------------------------
(* The bundled examples.                                                   *)

Property(name, type) ==
  [name |-> name, type |-> type, date |-> FALSE, enum |-> Undefined, minimum |-> Undefined,
   maximum |-> Undefined, primaryKey |-> FALSE, unsupported |-> FALSE]
Bounded(name, type, min, max) ==
  [Property(name, type) EXCEPT !.minimum = min * One, !.maximum = max * One]
Date(name) == [Property(name, "string") EXCEPT !.date = TRUE]
OneOf(name, n) == [Property(name, "string") EXCEPT !.enum = [i \in 1 .. n |-> Scalar("string", i + 10)]]
Position(lat, lon) == <<Bounded(lat, "number", -90, 90), Bounded(lon, "number", -180, 180)>>

PORTAL_DATA_STRUCTURES ==
  {[urn |-> "TrafficCounterReading", name |-> "TrafficCounterReading", properties |->
      <<Property("counterId", "string"), Date("timestamp"), Bounded("vehicleCount", "integer", 0, 500),
        Bounded("avgSpeedKmh", "number", 0, 120), OneOf("direction", 2)>>
      \o Position("location.lat", "location.lon")],
   [urn |-> "AirQualityReading", name |-> "AirQualityReading", properties |->
      <<Property("stationId", "string"), Date("timestamp"), Bounded("pm25", "number", 0, 150),
        Bounded("pm10", "number", 0, 250), Bounded("temperature", "number", -20, 45),
        Bounded("humidity", "number", 0, 100)>> \o Position("location.lat", "location.lon")],
   [urn |-> "KiezBaum", name |-> "KiezBaum", properties |->
      <<[Property("baum_id", "string") EXCEPT !.primaryKey = TRUE], OneOf("art", 5),
        Bounded("pflanzjahr", "integer", 1900, 2026), Bounded("stammumfang_cm", "integer", 10, 400)>>
      \o Position("latitude", "longitude") \o <<Date("erfasst_am")>>],
   [urn |-> "SmartPlugReading", name |-> "SmartPlugReading", properties |->
      <<Property("plugId", "string"), Date("timestamp"), Bounded("powerW", "number", 0, 3500),
        Bounded("voltageV", "number", 200, 250), Bounded("currentA", "number", 0, 16),
        [Property("frequencyHz", "number") EXCEPT !.minimum = 990, !.maximum = 1010],
        Property("relayOn", "boolean")>>],
   [urn |-> "GeoPoint", name |-> "GeoPoint", properties |-> Position("lat", "lon")]}
=============================================================================
