------------------------------- MODULE Editor -------------------------------
(***************************************************************************)
(* The simulation editor: a page that is opened empty, from a portal       *)
(* structure (and bound to a data source) or on a saved simulation; the    *)
(* edits a person makes in the form or in the JSON view; and saving through*)
(* the UI's server, which gives up on the service after 5 s.               *)
(***************************************************************************)
EXTENDS Suggest

CONSTANTS Ids,            \* ids of simulations
          FirstStored,    \* what the service may hold at first
          Page, Sources,  \* the portal's structures and data sources
          Typed,          \* what a person types: a record of sets, one per input
          JsonTexts(_),   \* what a person makes of the body in the JSON view
          EditedStructures, EditedFields,   \* drafts from structures, by name, and the
                          \* fields that are edited, by place
          MaxPages,       \* pages that are opened
          MaxEdits,       \* edits on one page
          MaxRequests,    \* saves that are not answered yet or were given up
          RetryEdits      \* a second save next to a first only up to so many edits

None == Undefined
Examples == PORTAL_DATA_STRUCTURES

\* A structure has a list of properties, their bounds are numbers if there are any,
\* and a key is of a type that is supported.
Readings(ds) ==
  /\ ds.name \notin {Undefined, Null}
  /\ ds.properties \in Seq({ds.properties[i] : i \in DOMAIN ds.properties})
  /\ \A i \in DOMAIN ds.properties :
       /\ {ds.properties[i].minimum, ds.properties[i].maximum} \subseteq Int \cup {Undefined}
       /\ ds.properties[i].primaryKey => ~ds.properties[i].unsupported

\* A topic is a list of segments; a source's name, as a segment, is no wildcard.
Feeds(source) ==
  /\ source # None
  /\ source.name \notin {Undefined, Null, "+", "#"}
  /\ source.topics \in Seq({source.topics[i] : i \in DOMAIN source.topics})
  /\ \A i \in DOMAIN source.topics :
       source.topics[i] \in Seq({source.topics[i][j] : j \in DOMAIN source.topics[i]})

\* Names are texts, fields have settings of one kind, and every id has a place.
ASSUME EditorAssumption ==
  /\ Typed.names \cap {Undefined, Null} = {}
  /\ \A spec \in Typed.specs : Setting(spec)
  /\ \A readable \in BOOLEAN : \A ds \in getDataStructures(Page, readable, Examples) : Readings(ds)
  /\ \A source \in Sources : Feeds(source)
  /\ \A stored \in FirstStored :
       /\ DOMAIN stored = Ids
       /\ \A id \in Ids : stored[id] # None => FieldList(stored[id].fields)

VARIABLES page,          \* id, initial draft, default broker and where it was opened from; None: no page
          draft, topicTouched, mode, jsonText, saving,
          sims,          \* id -> the input the service keeps, or None
          requests,      \* saves on their way: id, body, the page that sent them, and whether the
                         \* UI's server gave up
          pages, edits

form == <<page, draft, topicTouched, mode, jsonText, pages>>
vars == <<page, draft, topicTouched, mode, jsonText, saving, sims, requests, pages, edits>>

-----------------------------------------------------------------------------
(* Opening a page.                                                         *)

MQTT_FIELDS == <<Field("sensorId", [kind |-> "constant", value |-> Scalar("string", 5)]),
                 Field("timestamp", [kind |-> "now"])>>
SQL_FIELDS  == <<Field("id", [kind |-> "sequence", start |-> One, padTo |-> 5 * One]),
                 Field("erfasst_am", [kind |-> "now"]),
                 Field("messwert", defaultSpec("randomWalk"))>>

emptyDraft(brokerUrl) ==
  [name |-> "", origin |-> Undefined, enabled |-> FALSE, transport |-> Mqtt(brokerUrl, <<>>),
   intervalSeconds |-> 10 * One, cadence |-> Undefined, fields |-> MQTT_FIELDS,
   primaryKey |-> Undefined, seedRows |-> Undefined, insertsPerTick |-> Undefined, maxRows |-> Undefined]

NoText == toInput(emptyDraft(""))

\* SimulationEditor's first render.
Opened(id, initial, from, broker, first) ==
  LET d == IF initial = None THEN emptyDraft(broker) ELSE initial
  IN  /\ page = None /\ pages < MaxPages
      /\ pages' = pages + 1
      /\ page' = [id |-> id, initial |-> initial, from |-> from, broker |-> broker]
      /\ draft' = d
      /\ topicTouched' = (id # None)
      /\ mode' = first
      /\ jsonText' = IF first = "json" THEN toInput(d) ELSE NoText
      /\ saving' = FALSE /\ edits' = 0
      /\ UNCHANGED <<sims, requests>>

\* The new page.  A structure or source that is not found leaves the form without it.
OpenNew(broker, first) == Opened(None, None, None, broker, first)
OpenFrom(ds, broker, first) ==
  Opened(None, draftFromDataStructure(ds, broker), [ds |-> ds, source |-> None], broker, first)
OpenBound(ds, source, broker) ==
  Opened(None, bindToDataSource(draftFromDataStructure(ds, broker), source),
         [ds |-> ds, source |-> source], broker, "fields")

\* The edit page knows no default broker.
OpenEdit(id, first) == sims[id] # None /\ Opened(id, toDraft(sims[id]), None, "", first)

\* The page is left and its state is gone.
Left == /\ page' = None /\ draft' = emptyDraft("") /\ topicTouched' = FALSE
        /\ mode' = "fields" /\ jsonText' = NoText
        /\ saving' = FALSE /\ edits' = 0
\* Abbrechen is a link; a save under way goes on without the page.
Cancel == page # None /\ Left /\ UNCHANGED <<sims, requests, pages>>

-----------------------------------------------------------------------------
(* The form.                                                               *)

Editing == /\ page # None /\ edits < MaxEdits
           /\ page.from # None => page.from.ds.name \in EditedStructures
Edit(next) == /\ Editing /\ mode = "fields"
              /\ draft' = next
              /\ edits' = edits + 1
              /\ UNCHANGED <<page, mode, jsonText, saving, sims, requests, pages>>
EditOnly(next) == Edit(next) /\ UNCHANGED topicTouched

\* The topic follows the name until someone types one.
setName(name) ==
  EditOnly(IF ~topicTouched /\ ~isSql(draft)
           THEN [draft EXCEPT !.name = name, !.transport.topic = topicFor(name)]
           ELSE [draft EXCEPT !.name = name])
SetTopic(topic) == /\ ~isSql(draft)
                   /\ Edit([draft EXCEPT !.transport.topic = topic])
                   /\ topicTouched' = TRUE
SetUrl(url)     == ~isSql(draft) /\ EditOnly([draft EXCEPT !.transport.url = url])
SetTable(table) == isSql(draft) /\ EditOnly([draft EXCEPT !.transport = Sql(table)])
SetEnabled      == EditOnly([draft EXCEPT !.enabled = ~@])
SetPrimaryKey(key) == isSql(draft) /\ EditOnly([draft EXCEPT !.primaryKey = key])
SetMaxRows(v)   == isSql(draft) /\ EditOnly([draft EXCEPT !.maxRows = v])
SetCadence(c)   == isSql(draft) /\ EditOnly([draft EXCEPT !.cadence = c])

\* A fill hides these three.
SetSeedRows(v)       == isSql(draft) /\ ~fills(draft) /\ EditOnly([draft EXCEPT !.seedRows = v])
SetInsertsPerTick(v) == isSql(draft) /\ ~fills(draft) /\ EditOnly([draft EXCEPT !.insertsPerTick = v])
SetInterval(v)       == ~fills(draft) /\ EditOnly([draft EXCEPT !.intervalSeconds = v])

setFields(fields) == EditOnly([draft EXCEPT !.fields = fields])
AddField          == setFields(Append(draft.fields, Field("", defaultSpec("randomWalk"))))
ChangeField(i, field) == setFields([draft.fields EXCEPT ![i] = field])
RemoveField(i)    == setFields(RemoveAt(draft.fields, i))

\* Untouched starting fields are swapped; a table gains a key if it has none.
toMqtt ==
  LET saved == IF page.id # None /\ ~isSql(page.initial) THEN page.initial.transport
               ELSE Mqtt(page.broker, topicFor(draft.name))
  IN  /\ Edit([draft EXCEPT !.transport = saved, !.primaryKey = Undefined, !.cadence = Undefined,
                            !.fields = IF @ = SQL_FIELDS THEN MQTT_FIELDS ELSE @])
      /\ UNCHANGED topicTouched
toSql ==
  LET chosen == IF draft.fields = MQTT_FIELDS THEN SQL_FIELDS ELSE draft.fields
      keyed(fields) == SelectSeq(fields, LAMBDA f : f.spec.kind = "sequence")
      fields == IF keyed(chosen) = <<>> THEN <<SQL_FIELDS[1]>> \o chosen ELSE chosen
  IN  /\ Edit([draft EXCEPT !.transport = Sql(""), !.fields = fields, !.primaryKey = keyed(fields)[1].name,
                            !.seedRows = Or(@, 100 * One), !.insertsPerTick = Or(@, One),
                            !.maxRows = Or(@, 5000 * One)])
      /\ UNCHANGED topicTouched
switchTransport == IF isSql(draft) THEN toMqtt ELSE toSql

-----------------------------------------------------------------------------
(* The JSON view.                                                          *)

switchMode(next) ==
  /\ page # None /\ mode # next
  /\ mode' = next
  /\ jsonText' = IF next = "json" THEN toInput(draft) ELSE NoText
  /\ UNCHANGED <<page, draft, topicTouched, saving, sims, requests, pages, edits>>

TypeJson(body) ==
  /\ Editing /\ mode = "json"
  /\ jsonText' = body /\ edits' = edits + 1
  /\ UNCHANGED <<page, draft, topicTouched, mode, saving, sims, requests, pages>>

\* A text that cannot be read is named and changes nothing.
applyJson ==
  /\ page # None /\ mode = "json" /\ Readable(jsonText)
  /\ draft' = fromJson(jsonText)
  /\ topicTouched' = TRUE
  /\ UNCHANGED <<page, mode, jsonText, saving, sims, requests, pages, edits>>

-----------------------------------------------------------------------------
(* Saving.                                                                 *)

Request == [id |-> page.id, body |-> toInput(draft'), by |-> pages, given |-> FALSE]

\* The button is disabled while a save is under way.
saveEnabled == ~saving

\* What is saved is what the JSON view says when it is open.
save ==
  /\ page # None /\ saveEnabled /\ Len(requests) < IF edits <= RetryEdits THEN MaxRequests ELSE 1
  /\ mode = "json" => Readable(jsonText)
  /\ draft' = IF mode = "json" THEN fromJson(jsonText) ELSE draft
  /\ IF validate(draft') = {}
     THEN saving' = TRUE /\ requests' = Append(requests, Request)
     ELSE UNCHANGED <<saving, requests>>
  /\ UNCHANGED <<page, topicTouched, mode, jsonText, sims, pages, edits>>

\* The service takes the changes of one id in the order they arrived.
Turn(i) == \A j \in 1 .. i - 1 : requests[j].id # requests[i].id \/ requests[i].id = None

\* The service registers the body, under an id minted for this request if it is new.
Registered(i) ==
  /\ Turn(i) /\ simulationInputSchema(requests[i].body)
  /\ requests[i].id = None => \E n \in Ids : sims[n] = None
  /\ LET id == IF requests[i].id # None THEN requests[i].id ELSE CHOOSE n \in Ids : sims[n] = None
     IN  sims' = [sims EXCEPT ![id] = Kept(requests[i].body)]
  /\ requests' = RemoveAt(requests, i)

\* ... and the browser moves on to the simulation, also from a page that was
\* opened since.
Saved(i) == /\ ~requests[i].given
            /\ Registered(i)
            /\ Left /\ UNCHANGED pages

\* 422, or 502 because the broker or database refused; nothing was registered.
Refused(i) == /\ ~simulationInputSchema(requests[i].body) \/ requests[i].body.enabled
              /\ ~requests[i].given
              /\ saving' = (saving /\ requests[i].by # pages)
              /\ requests' = RemoveAt(requests, i)
              /\ UNCHANGED <<form, sims, edits>>

\* The UI's server waits 5 s, then answers 503; the service goes on.
GivenUp(i) == /\ ~requests[i].given
              /\ saving' = (saving /\ requests[i].by # pages)
              /\ requests' = [requests EXCEPT ![i].given = TRUE]
              /\ UNCHANGED <<form, sims, edits>>
Late(i) == requests[i].given /\ Registered(i) /\ UNCHANGED <<form, saving, edits>>
Lost(i) == /\ requests[i].given
           /\ requests' = RemoveAt(requests, i)
           /\ UNCHANGED <<form, saving, sims, edits>>

-----------------------------------------------------------------------------
Init == /\ page = None /\ draft = emptyDraft("") /\ topicTouched = FALSE
        /\ mode = "fields" /\ jsonText = NoText /\ saving = FALSE
        /\ sims \in FirstStored
        /\ requests = <<>> /\ pages = 0 /\ edits = 0

OpenSuggested == \E readable \in BOOLEAN : \E ds \in getDataStructures(Page, readable, Examples) :
                   \/ OpenFrom(ds, BrokerUrl, "fields")
                   \/ \E source \in Sources : OpenBound(ds, source, BrokerUrl)
Open == \E first \in {"fields", "json"} :
          \/ OpenNew(BrokerUrl, first)
          \/ \E id \in Ids : OpenEdit(id, first)

EditForm ==
  \/ \E name \in Typed.names : setName(name)
  \/ \E topic \in Typed.topics : SetTopic(topic)
  \/ \E url \in Typed.urls : SetUrl(url)
  \/ \E table \in Typed.tables : SetTable(table)
  \/ SetEnabled
  \/ \E key \in Names(draft.fields) \cup {Undefined} : SetPrimaryKey(key)
  \/ \E v \in Typed.seeds : SetSeedRows(v)
  \/ \E v \in Typed.inserts : SetInsertsPerTick(v)
  \/ \E v \in Typed.limits : SetMaxRows(v)
  \/ \E cadence \in {"interval", "fillToLimit"} : SetCadence(cadence)
  \/ \E v \in Typed.intervals : SetInterval(v)
  \/ AddField
  \/ \E i \in EditedFields \cap DOMAIN draft.fields :
       \/ \E name \in Typed.fieldNames : ChangeField(i, [draft.fields[i] EXCEPT !.name = name])
       \/ \E spec \in Typed.specs : ChangeField(i, [draft.fields[i] EXCEPT !.spec = spec])
       \/ RemoveField(i)
  \/ switchTransport

Json == \/ \E next \in {"fields", "json"} : switchMode(next)
        \/ \E body \in JsonTexts(jsonText) : TypeJson(body)
        \/ applyJson

Answer == \E i \in DOMAIN requests : Saved(i) \/ Refused(i) \/ GivenUp(i)

Next == \/ Open \/ OpenSuggested \/ Cancel
        \/ EditForm \/ Json \/ save
        \/ Answer
        \/ \E i \in DOMAIN requests : Late(i) \/ Lost(i)

Spec == Init /\ [][Next]_vars

-----------------------------------------------------------------------------
\* A page's id is one of the ids, a save under way has a request, and the counts
\* stay within their bounds.
TypeOK == /\ page # None => page.id \in Ids \cup {None}
          /\ mode \in {"fields", "json"} /\ saving \in BOOLEAN /\ topicTouched \in BOOLEAN
          /\ edits \in 0 .. MaxEdits /\ pages \in 0 .. MaxPages
          /\ Len(requests) <= MaxRequests
          /\ saving => page # None /\ \E i \in DOMAIN requests : ~requests[i].given /\ requests[i].by = pages

\* What the form does not check and the service does: lengths, the address, the key
\* when its field was renamed or removed, a null where a default stands in, and the
\* settings that a fill hides.
SlipsThrough(d) ==
  \/ d.name \in TooLong
  \/ d.origin # Undefined /\ ~originSchema(d.origin)
  \/ ~isSql(d) /\ d.transport.url \notin GoodUrls
  \/ isSql(d) /\ d.primaryKey \notin Names(d.fields)
  \/ \E i \in DOMAIN d.fields : NullPassesForDefault(d.fields[i].spec)
  \/ fills(d) /\ ~wholeIn(Or(d.seedRows, 0), 0, 10000)
  \/ fills(d) /\ ~wholeIn(Or(d.insertsPerTick, One), 0, 100)
  \/ fills(d) /\ isNumber(d.intervalSeconds) /\ d.intervalSeconds \notin 1 .. 3600 * One

HiddenBroken(d) == fills(d) /\ \/ rowsError(d.seedRows, 0, 10000)
                               \/ rowsError(d.insertsPerTick, 0, 100)
                               \/ isNumber(d.intervalSeconds) /\ intervalError(d.intervalSeconds)

\* Of what the form calls valid, the service refuses what slips through the form's
\* check, and nothing else.
ValidIsAccepted ==
  (page # None /\ validate(draft) = {}) =>
    (simulationInputSchema(toInput(draft)) <=> ~SlipsThrough(draft))

ComesBack(input) == LET again == toInput(toDraft(input))
                    IN  simulationInputSchema(again) /\ Kept(again) = input

\* What the editor saved comes back to it: opened and saved unchanged, the
\* simulation stays what it was, the address it is read at included.
ReopenKeeps == \A id \in Ids : (sims[id] # None /\ sims[id].extras = {}) => ComesBack(sims[id])

\* A body without the address the platform reads at.
Unread(body) == IF isSql(body) THEN [body EXCEPT !.transport = Sql(body.transport.table)] ELSE body

\* Saving from the JSON view what it shows at first saves what the form would, but
\* for the address the platform reads at, which the view shows and then forgets.
\* Left out: broken settings that a fill hides.
JsonSavesTheSame ==
  (page # None /\ validate(draft) = {} /\ ~HiddenBroken(draft)) =>
    /\ validate(fromJson(toInput(draft))) = {}
    /\ toInput(fromJson(toInput(draft))) = Unread(toInput(draft))

Even(p) == LET min == Or(p.minimum, 0)
               max == Or(p.maximum, 100 * One)
           IN  /\ min <= max
               /\ p.type = "integer" => Whole(min) /\ Whole(max) /\ Whole((max - min) \div 2)
               /\ p.name \in CountLike => min <= dailyMax(max)

\* A draft suggested from a structure can be saved as it is, if the bounds of its
\* numbers leave room (an integer's also an even span, or it starts at a fraction),
\* a table's names have no dots, the broker is known, and its name and urn are there
\* and not too long.
SuggestionsPass ==
  (/\ page # None /\ edits = 0 /\ draft = page.initial /\ page.from # None
   /\ page.from.source = None
   /\ {page.from.ds.name, page.from.ds.urn} \cap (TooLong \cup {""}) = {}
   /\ \A i \in DOMAIN page.from.ds.properties : Even(page.from.ds.properties[i])
   /\ keyOf(page.from.ds) # Undefined => Names(page.from.ds.properties) \cap Dotted = {}
   /\ draft.fields # <<>>
   /\ isSql(draft) \/ page.broker # "")
  => validate(draft) = {} /\ simulationInputSchema(toInput(draft))

\* MQTT: which topics a subscription delivers ("#" also its parent).
Delivers(subscription, topic) ==
  LET open == subscription # <<>> /\ subscription[Len(subscription)] = "#"
      fixed == IF open THEN Front(subscription) ELSE subscription
  IN  /\ IF open THEN Len(topic) >= Len(fixed) ELSE Len(topic) = Len(fixed)
      /\ \A i \in DOMAIN fixed : fixed[i] \in {"+", topic[i]}
Publishable(topic) == topic # <<>> /\ \A i \in DOMAIN topic : topic[i] \notin {"+", "#"}

\* A bound draft publishes where the source listens, on a topic that may be
\* published to, until its name is edited; the one wildcard comes last.
PublishesWhereTheSourceListens ==
  (/\ page # None /\ page.from # None /\ page.from.source # None /\ ~isSql(draft)
   /\ edits = 0 /\ draft = page.initial /\ page.from.source.kind = "mqtt"
   /\ page.from.source.topics # <<>>
   /\ LET s == page.from.source.topics[1]
      IN  /\ Publishable(IF Len(s) > 1 THEN Front(s) ELSE s))
  => /\ Delivers(page.from.source.topics[1], draft.transport.topic)
     /\ Publishable(draft.transport.topic)
=============================================================================
