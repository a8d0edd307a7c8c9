# Formal model of the CIVITAS data source simulator

TLA+ modules, TLC configurations and TLAPS proofs for the simulation generator in
`src/src/` (the service) and its web UI in `src/ui/`. Paths below are relative to the
repository. `PROJECT.json` maps every definition to the lines it models, and lists runs,
mutants, findings, hazards and theorems.

## The system

The service generates demo data. A caller registers a *simulation* (`PUT /simulations/:id`):
which fields to generate, how often, and where to (an MQTT topic or a SQL table). The service
connects, ticks, and keeps the settings in a database so that a restart resumes them.
(`ui/README.md:76` still says that simulations do not survive a restart. That is stale: `src/README.md:84`
and `store.ts` say otherwise, and the models follow the code.)

| Part | Code | State it keeps | Operations | What makes it correct |
| --- | --- | --- | --- | --- |
| Registry | `src/registry.ts` | simulations by id, a promise queue per id, per simulation a connection, an interval, a retry timer, status numbers | `put`, `remove`, `setEnabled`, `resume`, `shutdown`, `startOrRetry`, `teardown`, ticks | memory and database agree; active means running; nothing runs untracked; the cap |
| Service process | `src/index.ts` | the `ready` gate | loading loop, routes, signal handlers | nothing is served before the settings are loaded; a signal ends in clean disconnects |
| Settings store | `src/store.ts` | one row per simulation, applied migrations | `migrate`, `list`, `save`, `remove` | a row is what was last saved; a row that no longer fits is skipped, not deleted |
| MQTT publisher | `src/publisher.ts` | one client | `publish`, `close` | one connection per simulation, a client id of its own |
| SQL writer | `src/sql-writer.ts` | a pool; rows in a table | `ensureTable`, `maxSequence`, `countRows`, `write`, `close` | keys are not reused, rows are never deleted, statements stay under the bind limit |
| Generators | `src/generators.ts` | a counter or a position per field | `createGenerator`, `compileScenario` | values within bounds, sequences without repetition |
| Schemas | `src/types.ts`, `src/row-schema.ts` | none | validation, deriving columns | what is registered can be run |
| Errors, auth, configuration | `src/connect-error.ts`, `src/auth.ts`, `src/config.ts` | none | wording, token check, environment | fail closed |
| UI server side | `ui/lib/server/*`, `ui/auth.config.ts` | the session cookie | proxying with a time limit, token refresh | the session ends only when the identity provider refuses |
| UI in the browser | `ui/lib/use-poll.ts`, `ui/components/simulations/*` | the last status, the event list | poll, toggle, delete | what is shown is not older than what was shown |
| UI editor | `ui/lib/api-json.ts` and helpers | a draft | conversions to and from the API's JSON | saving unchanged changes nothing |

They interact by calls and callbacks inside one node process (registry, store, publisher,
writer), by SQL and MQTT towards database and broker, and by HTTP between UI and service.
Node runs one callback at a time, so the hard part is what happens *between* an `await` and its
continuation: another id's change, a call that joins a queue, a retry timer, SIGTERM, a crash,
a lost answer. `PROJECT.json` lists the hazards with their lines.

## Modules

| Module | Models | 
| --- | --- |
| `Registry` | the registry with its queues, timers, connections, the settings table, resume, shutdown and crashes |
| `Settings` | the abstract specification: what the service promises of its settings |
| `SqlSimulation` | the rows of one table under the versions that write to it: seeding, ticks, statements, counters |
| `MqttSimulation` | the ticks of MQTT versions, their clients, the broker's session, outages and reconnects |
| `StartUp` | instances that start on one database: migrations, loading, the gate, a signal at any time |
| `Console` | a page of the UI beside the service: polls, optimistic switches, deletion, tokens, time limits |
| `Generators` | one generator's settings: the schema, the editor's check, the column, the values it produces |
| `FieldEditor` | one field of the form: inputs that keep their text next to the setting |
| `Configuration` | a whole configuration as draft, body and input; the conversions and checks |
| `Suggest` | drafts suggested from the portal's data structures, and binding them to a data source |
| `Editor` | the editor's page: form, JSON view, saving through the UI's server |
| `MC...` | instances of these for TLC |
| `RegistryProofs` | types, memory and database, the cap, the refinement of `Settings`; what runs, is released and tracked, what a shutdown leaves |
| `SqlSimulationProofs` | keys, the limit and how far it is exceeded, the status, the seed |
| `MqttSimulationProofs` | one client at a time, and its session |
| `StartUpProofs` | the migrations, what an instance serves |
| `ConsoleProofs` | tokens do not expire under a request |
| `GeneratorsProofs`, `FieldEditorProofs` | the checks against schema, values and column; the form's inputs |
| `EditorProofs` | drafts, bodies and what is kept: the conversions and the checks against each other |

They divide the system along its awaits. `Registry` starts and stops versions, and what is one stage
there (`preparing`) is `ReadCounters`, `CountAtStart` and the seed's statements in `SqlSimulation`;
its queue per id and its replacement that starts before the predecessor stops are the guards of `Start`
and `Stop` in `SqlSimulation` and of `Start` and `Replaced` in `MqttSimulation`, and their `StopCompletes`
is why a teardown ends there. `StartUp` is what comes before the gate opens, so a call there is one step.
`Console` and `Editor` are the callers: what the service does with a change is one step there, answered,
refused, or given up on and done late. `Editor` uses `Suggest`, which uses `Configuration`, which uses
`Generators`; `FieldEditor` is the part of the form that `Editor` replaces by the settings it can leave
behind.

### Registry

*State.* `simulations` is the Map of registered objects, and `object` holds the fields of every
`Simulation` object that something may still refer to. Objects are numbered per id (`Slot`)
because the code distinguishes an id from the object registered under it: a replacement is a new
object, and `startOrRetry` compares objects. `object[s].ticking` counts the intervals node really
runs, `timer` is the field that remembers one of them; `open` is the set of connections that are
really open, `link` the field (`publisher` or `writer`) that remembers one. The differences are
what "untracked" means. `pending[id]` is the promise chain of an id as a sequence whose head is
the running change; `job[id]` is that change's program counter and its locals `simulation` and
`existing`. `store` is the table of rows, `phase` the life of the process, `awaited` the queue
entries that `shutdown()` awaits, `closing` the closes its teardown started.

*Stages.* A change advances from one `await` to the next; each action is the code between two:

| Stage | The change awaits | Next actions |
| --- | --- | --- |
| `starting` | `createPublisher` / `createSqlWriter` | `Connected`, `StartFailed` |
| `preparing` | table, counters, seed rows (`startSql`) | `Prepared`, `StartFailed` |
| `saving` | `store.save` / `store.remove`, not applied yet | `Commit`, `SaveFailed` |
| `committed` | the answer of an applied statement | `PutSaved`, `SwitchOnSaved`, `StopSaved`, `SaveFailed` (lost answer) |
| `undoing` | the teardown after a failed start or save | `Undone` |
| `releasing` | the teardown of what was replaced, removed or switched off | `Released` |

`put` is `BeginPut`, then (if enabled) a start, `Commit`, `PutSaved`, `Released`; `remove` and
`setEnabled(false)` are `BeginStop`, `Commit`, `StopSaved`, `Released`; `setEnabled(true)` is
`BeginStart`, a start, `Commit`, `SwitchOnSaved`; `startOrRetry` is `BeginStart` and a start.
Changes that return early are `Moot`. `teardown` is two steps, as in the code: its timers are
cleared at once (`Stopped`), its connection field is cleared when `close()` resolves
(`Disconnect`). Shutdown is `Shutdown`, `ShutdownTeardown`, `ShutdownCloses`, `ShutdownDone`.

*Abstractions.* Configurations are model values, told apart by what decides a branch: MQTT, SQL,
SQL that fills once (no timer), and outdated ones that today's schema refuses. Creation dates,
wording, status numbers, HTTP codes and read-only routes are left out. Ticks are left out of this
module (they change no state that its properties mention). A seeding failure closes its writer
itself before the teardown does; here that is one close. A failing `list()` is a stutter, since the
loading loop tries again. A crash loses no statement in flight without also leaving its outcome
open: a crash may come before or after `Commit`. Schemas are checked before the queue, so calls
carry only readable versions. A signal before the service is ready is left out.

*Assumptions about the surroundings.* `LostReplies` lets a write take effect and its answer get
lost; `LateCalls` lets HTTP calls arrive after the signal (the listener closes last);
`FirstStores` says what the database may hold at first. Each run states its choice.

### Settings

What a restart would resume, as one variable: it changes only by storing a readable
configuration, forgetting one, or flipping `enabled`, and new entries respect the cap. `Registry`
implements it with `settings` mapped to what `list()` makes of the rows (`KeepsPromise`).

### SqlSimulation

*State.* `table` is the set of keys of the rows. Only the primary key of kind `sequence` matters, so
a row is its number; an INSERT of an existing key overwrites that row, and the set grows by less
than was written. `sim[v]` has a version's `rowCount`, `atCap`, whether `lastError` is set, the
counter of its sequence (`next`) and its stage. `work[v][q]` is a write in flight: `writing` (the
statement for the next chunk of keys `from..to` is sent), `counting` (`countRows()` is sent),
`counted` (executed, its answer not yet seen).

| Code | Action |
| --- | --- |
| `start`, `startSql` up to `ensureTable` | `Start`, `StartFails` |
| the loop over `maxSequence`, `compileScenario` | `ReadCounters` |
| `countRows` at start, topping up (`writeRows`) | `CountAtStart` |
| `tick` until its first statement | `Tick` |
| one round of the loop in `write` | `Insert`, `QueryFails` |
| `countRows` after a write, and what follows | `CountRows`, `Counted` |
| `sample` | `Sample` (it uses the live generators, so it uses up keys) |
| `teardown` | `Stop`, `Closed` |

*Abstractions.* A statement is applied and answered in one step, because nothing in the process
depends on the time between, except where the answer is lost (`Uncounted`). Columns, values, the
prefix of the keys and keys that do not look like one (`maxSequence` skips them) are left out. A
failing `close()` is one that closes. A teardown in `pool.end()` lets the statements sent finish and
refuses the next one, which ends a write in flight with an error. A statement in flight when the
process dies has taken effect before that or never does.

*Assumptions.* `Overlap`: may a tick begin while another one of its version is in flight
(`setInterval` does not wait)? `Beside`: may a version start while another runs (`put`), or only after
it (a pause, a restart)? `Filling`: the versions of cadence `fillToLimit`; an edit may change it.
`Uncounted`: may a write take effect without being counted? `FirstRows`: what the table holds at
first. `Query` has the writes of one version that are in flight at once. The pool has two connections, but ticks
that find none free wait for one, so two is a bound of the runs and the theorems have any number.

### MqttSimulation

*State.* `sim[v]` has a version's stage, whether it ticks, and whether `lastError` is set. `client[v]` is `client.connected` of its publisher, `outgoing[v]`
are the publications mqtt.js keeps until they are acknowledged, `session` is the version whose
connection the broker holds under the one client id, `orphans` have publications whose client was ended.

`Tick` is the interval's callback up to `publishAsync`, `Acknowledged` what follows it,
`Connected` the rest of `start` with its immediate tick, `ConnectFails` the first attempt, which is not
repeated, `Teardown` (`Stop`, `Replaced`) the forced end. `Arrive`, `Noticed`, `Reconnect`, `Lost`, `Outage` and
`Back` are the broker, the network and mqtt.js, as this code's use of it has
it: reconnecting every 5 s, sending again what is not acknowledged, in order, settling no promise of an ended client for sure.

*Abstractions.* Payloads are not told apart. A client learns of a lost
connection before it reconnects. The queue of changes is `Changing`: one at a time. `MaxInFlight` bounds
what is not acknowledged; a tick beyond it waits.

### StartUp

*State.* `db` is what is committed (migrations, rows), `lock` the advisory lock, `pc[p]` where an
instance's load stands, `txn[p]` its open transaction, `registered[p]` its memory, `stage[p]` how far a
signal has come. `Begin`, `Lock`, `Read`, `Apply`, `Commit` are `migrate()` statement by statement; `List` and
`Resume` are the two sides of the await in `resume()`; `Fail` and `Timer` the loop of `index.ts`; `Signal`,
`Shutdown`, `Closed` the handler, whose `postgres.close()` waits for the connections that are checked out.

*Abstractions.* The store in memory has no database to wait for and is left out. A row that does
not fit is skipped as in `Registry`. A call is one step. `alone` remembers whether another instance has
served since this one started. Pauses take no time.

The gate is `ready` and nothing else, as in `index.ts:45`: a signal does not reset it, and the listener is
closed last, so calls are served after a signal, and after `registry.shutdown()` has forgotten the simulations
(`registry.ts:219`). `ServesWhatIsStored` says what can be said there: until `shutdown()` forgets, an instance that has the
database to itself serves exactly what is stored and fits; from then on a call may find less, or nothing at all, and
never something that is not stored.

### Console

*State.* `sim` is the service's simulation: whether it is enabled, and which publication was its last.
`requests` are the page's calls on their way with their stage (`sent` by the browser, `forwarded` by
the UI's server, `answered`) and the token they carry; they are answered in any order. `shown`, `error`,
`busy`, `before`, `actionError`, `events`, `lastSeen` are the React state of `simulation-list.tsx`, `simulation-detail.tsx`
and `use-poll.ts`. `cookie` is the age of the access token in the session's cookie; neither `auth()` nor
`getAccessToken()` writes a refreshed token back outside of a middleware, so the exchange repeats.

A route looks at the session twice, with an await between: `isAuthorised` refuses who is not signed in,
and `Forward` asks for the token (`getAccessToken`). If Keycloak or its session goes away in between, there is no token,
`call()` sends the request without one (`generator.ts:31-39`) and the service answers 401. A request remembers in
`troubled` whether Keycloak or the session was away while it was under way, and `NeverExpiresMidRequest` allows a
401 in that case only. `Serve`, `Fail`, `GiveUp` the service and the
5 s limit of `call()`, `TakeEffect` a change that is done after it, `Receive` what the page does with an answer.

*Abstractions.* One simulation stands for all. Keycloak exchanges a refresh token any number of times,
its default. A request is over within the minute of slack (its limit is 5 s). Roles, the pause and the clear button of
the stream, filters and wording are left out.

### Generators and FieldEditor

`Generators` has one operator per function: `generatorSpecSchema` (`types.ts`), `specErrors`
(`spec-checks.ts`), `columnTypeFor` (`api-json.ts`), and the sets of values a walk, a profile, a jitter or a list can produce
(`generators.ts`), from the positions a walk can begin and end at; of a draw's values the ends, the middle and one between are taken, which is
enough for ranges and columns, since clamping and rounding are monotonic. Numbers are multiples of a twentieth, so
that halves, the step of 0.1 and rounding are whole arithmetic. A setting that is not a number is `NaN` in the
editor and `Null` on the wire.

`FieldEditor` has the setting and, per place of the form, an input's text with the value it
last saw (`parsed-input.tsx`). React keeps an input's state when the next render has an input of the same
type in the same place, so a text can outlive the setting it was typed for: switching the kind (`SwitchKind`), the
removal of a field above (`Replaced`) and a way through the JSON view (`Reopened`) are actions. A text is what it reads as.

A text that is applied in the JSON view brings a broken number back as `Null` (`JSON.stringify` writes `null` for `NaN`,
`fromJson` keeps the settings as they are). The form then shows 0 for it (`numbers.ts:20`), and takes it for a number when it compares
(`numbers.ts:29`). Where the check falls back on a default (`spec.start ?? 1`, `spec-checks.ts:76-86`), it finds nothing wrong
and the service refuses the setting: `NullPassesForDefault`. An `integer` column is Postgres's `int4`
(`sql-writer.ts:12`, `MaxInteger`), and the check has no limit on size: `WithinColumn` is the premise of `ColumnHolds`.

### Configuration, Suggest and Editor

`Configuration` translates `toInput`, `toDraft`, `fromJson`, the editor's `validate` and the service's
schema with its refinements. `Suggest` translates reading a structure (`portal.ts`), `suggestSpec`, `suggestDraft`
and `bindToDataSource`. `Editor` has the page: `draft`, `topicTouched`, `mode`, `jsonText`, `saving`; its actions are the
handlers of `simulation-editor.tsx`, one per input; `requests` are the saves on their way, with the
page that sent them, since an answer also reaches a page that was left.

*Abstractions.* A topic is a sequence of levels; what a name contains (a dot, something like a latitude)
is an attribute, and whether it is longer than the service takes is membership in `TooLong`; of the origin the two artifacts
the editor sets are kept. The description goes where the name goes and is left out, and so are the preview and
the settings' inputs, which are `FieldEditor`'s. Typed settings come from a set per input. Slugs are
injective here, and ids that are minted are free; in the code an id has four random digits.

## Runs

### Registry

All runs use one or two ids and three slots. Three suffice: at most two objects of an id are alive
in a change (`existing` and `simulation`), and the third is there so that one more object can be
left behind with an interval or a queued retry; `BeginPut` is disabled only while all are in use.
`MaxPending` bounds the queue that still takes an API call; resumed starts and retries join above it.

| Run | Shows | Bounds |
| --- | --- | --- |
| `RegistryCore` | `TypeOK`, `StoreAgrees`, `ActiveMeansRunning`, `PausedMeansReleased`, `StoredOnlyOnceRunning` | one id; MQTT, SQL and outdated; 2 queued calls; anything stored at first; late calls; crashes and restarts |
| `RegistryCap` | `CapHolds`; the registry implements `Settings` | two ids, cap 1; one queued call each; crashes; late calls; rows under the cap at first |
| `RegistryUntracked` | `NothingUntracked`, `ShutdownLeavesNothing` on a fresh installation | one id, all transports, 3 queued calls, nothing stored, no restart, no calls after the signal |
| `RegistryLive` | `EveryChangeSettles`, `RetriedUntilItWorks` | one id, MQTT and fill-once SQL, 1 queued call, anything stored, lost answers, restarts, late calls |

One more run is expected to fail, on what a comment and the README state:

| Run | Property | What TLC finds |
| --- | --- | --- |
| `RegistryDoubleStart` | `NothingUntracked` | Resumed, start failed, retry timer set. `switch_off` runs, `switch_on` is queued, the timer fires and its start joins behind them; it finds the object registered and enabled, and starts it again. The first publisher and interval are overwritten and can never be stopped. |

The same cause limits the others, and so do lost answers. Changing a constant shows it:

- `ShutdownLeavesNothing` holds in `RegistryUntracked`, which starts with nothing stored, so that nothing
  is retried. With `FirstStores <- AnythingStored` it fails: a retry timer fires after the signal, while
  `shutdown()` waits for another change, and its start is not awaited (`registry.ts:217`).
- `NothingUntracked` holds in `RegistryLive` too, where callers wait for each answer (add it to the cfg).
- `CapHolds` and `StoreAgrees` hold without `LostReplies`. With a lost answer to an INSERT, memory forgets the id
  and the row stays (`registry.ts:137`); another id takes its place, and a restart resumes both.
- While a version is replaced, both are connected under one client id (`registry.ts:131`, `:142`); `publisher.ts:7`
  says what brokers do then. `KeepsTheSession` shows that it is over with the replacement.

### SqlSimulation

Sizes are chosen around the boundaries: the seed and whole ticks do not add up to
`maxRows`, so the last tick is cut; a seed takes more than one statement; the first table is empty, has
a gap, is full, or holds more than the limit. As in the code, a tick fits into one statement
(`insertsPerTick` is at most 100, and a statement of a table as wide as 600 columns still takes 109
rows). `MaxTrouble` bounds failures, crashes and samples together.

| Run | Shows | Bounds |
| --- | --- | --- |
| `SqlSerial` | `UpToMaxRows`, `StatusIsTrue`, `SeedsSuffice` | a version with ticks and one that fills to the limit, one after another; no overlap, nothing uncounted, limit 4, seed 3, tick 2 |
| `SqlLive` | `OvershootIsBounded`, `NothingOverwritten`, `FillsUp`, `StopCompletes` | one version, two ticks at once, uncounted writes, limit 6, seed 3, tick 2 |

The premises of these runs are needed, as changing a constant shows. With `Overlap` and two queries
`UpToMaxRows` fails: two ticks begin before either is counted and take the same room (`registry.ts:326`). It fails
with `Uncounted` too: an INSERT takes effect and its answer is lost, so `rowCount` stays too low. How
far beyond the limit a table can grow is `OvershootIsBounded`. `StatusIsTrue` fails with `Overlap` too: of two counts the older is
answered last and stays recorded. With a version that may start beside another (`Beside <- BesideOthers`, as `put` does),
`NothingOverwritten` fails: the new one reads the counter back, the old one inserts one more row, and
the new one mints the same key and overwrites it; with a limit of 6 its seed is then a row short, and `SeedsSuffice` fails.

### The others

| Run | Shows | Bounds |
| --- | --- | --- |
| `Mqtt` | `OutageIsShown`, `RecoversByItself`, `KeepsTheSession` | two versions, 4 starts (a start, replacements there and back, a resume), 2 publications in flight, 3 outages or lost connections |
| `StartUp` | `AppliedInOrder`, `NeverTwice`, `ServesWhatIsStored`, `StartedServes`, `SignalledExits` | an old build and a new one with one more migration, 3 starts, one outage, two calls (one may come after the signal), an empty or an older database, one row that does not fit; 125 000 states |
| `Console` | `NeverExpiresMidRequest`, `ShowsTheTruth`, `LastEventShown` | either page; 2 polls at once (one can overtake the other), 1 action beside them, 2 publications, the list cut at 2 events, 1 trouble (an outage, the end of the session, a refusal, a limit, a deletion elsewhere); 1.26 million states |
| `FieldEditor` | `TypedTextStays`, `ShowsWhatItHolds`, `BrokenIsNamed`, `AcceptedByService`, `ValuesInRange`, `ColumnHolds` | all kinds; five texts per number input (an empty one reads like a lone minus), eight per constant, six per list, seven settings that move up from below (missing, null, beyond an integer column, texts that read as numbers); unbounded in steps; 33 000 states |
| `Editor` | `ValidIsAccepted`, `ReopenKeeps`, `JsonSavesTheSame`, `SuggestionsPass`, `PublishesWhereTheSourceListens` | one page opened in every way, two edits or JSON texts, a second save beside one that was given up; saved simulations with and without settings of other callers, three structures, three sources; texts too long, an address and intervals the service refuses; 189 000 states |

Each of these bounds is the smallest at which the hazard happens: two edits are what it takes to break
a setting and hide it, two polls to overtake, two builds to migrate at once, and the mutants of
`PROJECT.json` are all found within them. What the properties leave out is where the code deviates from
them, and each is named at the property:

- `ValidIsAccepted` is an equivalence: of the drafts the form calls valid, the service refuses exactly those
  with one of these gaps (`SlipsThrough`). A name, or a name or id in the origin, is longer than the service takes
  (`types.ts:146-181`; the form has no limit). The broker's address does not parse or has credentials (`types.ts:116-123`). The primary key
  was not renamed or removed with its field (`simulation-editor.tsx:84`). A null passes for a default (above). A fill hides a broken
  number: the rows at the start and per tick are sent as they are (`api-json.ts:40`), and of the interval only what is no number
  is replaced (`api-json.ts:25`).
- `JsonSavesTheSame` leaves out drafts in which a fill hides a broken number. It says that the JSON view loses `readDsn`
  (`api-json.ts:141`) and nothing else; the form keeps it until the table's name is edited (`simulation-editor.tsx:403`).
- `rowSchema` and `timeCompression` have no place in a draft, and every save drops them: `ReopenKeeps` is about simulations without.
- `ShowsWhatItHolds` is about values a text can say: not a text that reads as a number, an empty text in a list or an hour that is
  null, which come from the JSON view, a structure or another caller. A null in a number's place shows as 0, although
  `numbers.ts:2` says that values are "never turned into 0 behind their back".
- `ColumnHolds` leaves out constants and ranges of an integer column beyond four bytes, which the form does not name and every insert
  fails with.
- A broken text may outlive its setting and stand on screen without an error (`carried`).
- A draft bound to a source follows its name from the first edit of it (`simulation-editor.tsx:125`), and a subscription that is
  one wildcard, or has one inside, becomes a topic nobody may publish to (`suggest.ts:86`).
- A suggested walk of whole numbers starts in the middle of its range, which is a half when the span is odd (0 to 5 starts at 2.5), and the
  form refuses that; a minimum above the suggested maximum is not corrected (`suggest.ts:26`). `SuggestionsPass` asks for bounds that
  leave room (`Even`), names without dots in a table, a structure's name and URN within the service's lengths, and a draft that is not bound.
- A save that is given up on is named to the page as failed, while the service may still register it;
  saving again mints another id and makes a second simulation.
- A list of values of different types gets a column by its first one (`api-json.ts:71`).
- A publication that was in flight when its simulation was paused may leave an error on the paused one
  (`OrphanFails`); the next start clears it.
- A list of simulations that was in flight when a signal closed the pool is still registered, in a process that exits.

Every module with variables states its types in `TypeOK`. Only `Registry`'s is checked by a listed
run; the others hold in their runs too when `TypeOK` is added to the `INVARIANTS` of the cfg.

`CHECK_DEADLOCK FALSE` everywhere but in `FieldEditor`: a service nobody calls, or one that has stopped, has no next
step, and neither has a simulation that nobody starts or a page whose bounds are used up.

## Fairness

*Registry.* `FairSpec` adds weak fairness of the steps of each id's running change, of retry timers, of
`resume` and of the steps of a shutdown. The code justifies it: node runs every continuation,
connection attempts end by `CONNECT_TIMEOUT_MS` (`connect-error.ts:4`), `close()` is forced for MQTT,
the loading loop in `index.ts` tries `resume` for ever, and timers fire. Nothing makes a call arrive.
`Reachable` is an assumption about the environment: a broker or database that is tried again and
again by the same object lets it in some day (strong fairness of `Connected` and `Prepared`).
Without it "retried until it works" says only that it is retried.

*SqlSimulation.* Weak fairness of the interval (`Tick`), of statements and of the continuations of a
start and a teardown. Failures are bounded by `MaxTrouble`, so `FillsUp` is about a database that
works in the end. Nothing makes a caller start or stop a version.

*MqttSimulation.* Weak fairness of the interval, of mqtt.js noticing and reconnecting, of the broker's steps, and of a change in flight
coming to its end. Nothing brings the broker back: `RecoversByItself` and `KeepsTheSession` have `<>[]reachable` as their premise.

*StartUp.* Weak fairness of each instance's load and of a stop, and of the database coming back after an outage, which are
bounded; strong fairness of `Commit(p, TRUE)`, since an answer that is lost time after time would keep the
load repeating. Nothing starts, signals or kills an instance.

*Console.* Weak fairness of the poll's interval and of the progress of the oldest request, which the time limits justify.
Nothing brings Keycloak or the session back: `ShowsTheTruth` and `LastEventShown` hold for a page that stays signed in in the end.

The other specifications state safety only.

## Proofs

The theorems hold for every value of the constants that the modules' assumptions allow: any finite
sets of ids, slots and versions, any bounds, any texts, structures and sources. A theorem that needs
more says so in its `ASSUME`; a premise stands there because the claim is false without it, and the
sections below or the one on the runs have the counterexample. Every inductive invariant was checked by TLC on the
runs' instances before it was proved.

| Theorem | Property | Premise |
| --- | --- | --- |
| `TypeCorrect`, `Inductive` (`RegistryProofs`) | `TypeOK` | |
| `StoreAgreement` | `StoreAgrees` | (in the property: `~LostReplies`) |
| `CapIsKept`, `ImplementsSettings` | `CapHolds`, `KeepsPromise` | `~LostReplies`, `FewAtFirst` |
| `PausedHoldsNothing` | (a corollary of the next two) | `NothingToRetry` |
| `PausedIsReleased`, `ActiveIsRunning`, `StoredIsRunning` | `PausedMeansReleased`, `ActiveMeansRunning`, `StoredOnlyOnceRunning` | |
| `EverythingTracked` | `NothingUntracked` | `NothingToRetry` |
| `ShutdownIsComplete` | `ShutdownLeavesNothing` | `NothingToRetry`, `~LateCalls` |
| `KeysAreUnique` | `NothingOverwritten` | `OneAfterAnother` |
| `OvershootIsLimited` | `OvershootIsBounded` | `OneAfterAnother` |
| `StartsSuffice` | `SeedsSuffice` | `OneAfterAnother` |
| `StatusTellsTheTruth` | `StatusIsTrue` | `OneByOne` |
| `NeverOverfilled` | `UpToMaxRows` | `AllCounted` |
| `ClientsMatch`, `OneClientAtATime`, `SessionIsKept` | `TypeOK`, `OneClient`, `NobodyTakesOver` of `MqttSimulation` | |
| `MigrationsInOrder`, `MigrationsOnce`, `ServesStored` | `AppliedInOrder`, `NeverTwice`, `ServesWhatIsStored` | |
| `TokensLast` | `NeverExpiresMidRequest` | |
| `CheckedIsAccepted`, `RangeIsKept`, `ColumnTakesValues` | `AcceptedByService`, `ValuesInRange`, `ColumnHolds` | |
| `BrokenHasError`, `TextIsTheTypists` | `BrokenIsNamed`, `TypedTextStays` | |
| `InputsShowTheSetting` | `ShowsWhatItHolds` | `PlainNeighbours` |
| `ValidDraftsAreTaken`, `JsonIsTheForm` | `ValidIsAccepted`, `JsonSavesTheSame` | `JsonKeeps` |
| `SavedIsKept` | `ReopenKeeps` | `JsonKeeps`, `StoredByEditor` |
| `BoundDraftsAreHeard` | `PublishesWhereTheSourceListens` | |
| `SuggestionsCanBeSaved` | `SuggestionsPass` | `Suggestable`, and `BrokerUrl` is good or empty |

### Registry

`TypeOK` is not inductive: `ticking - 1` in a teardown stays a natural number only if an interval was
counted, and a running change must have a change to settle. `IInv` adds that a set timer is counted
(`TimersCounted`), that memory is empty before `resume` (`Vacant`), and for each id its `Shape`:
an idle job is blank, and a running one has a head in its queue, works on an object of its own
id, and relates to what is registered as its kind and stage demand. For a `put` the registered
object is the new one exactly when there was none before or the old one is being released, and
its input is the call's; for the others it is the registered object itself, and whether it is
enabled follows from kind and stage. The argument is that a step of one id touches only objects
of that id (`OthersStable`, `StepFrame`), so each action needs a lemma for its own id only.

- `StoreAgreement`: its own strengthening is `RowShape`, for every stage what exactly the row reads as.
- `CapIsKept` counts on both sides at once (`CapInv`): what is kept is registered, and both sets stay
  under the cap, since only `BeginPut` enlarges the one, under its check, and only a commit the other, by an id
  that is registered. `ImplementsSettings` follows with one lemma per action that touches a row. `FewAtFirst`: the
  database holds no more readable rows than the cap at first. Nothing in `resume` counts them.
- `WorkInv`: for each id, what a change at each stage has done to the timers and
  connections of its objects, and what holds of those no change works on. `ActiveMeansRunning`,
  `PausedMeansReleased` and `StoredOnlyOnceRunning` need no premise: crashes, late calls, lost answers and
  retries that start a running simulation again do not break them. `PausedMeansReleased` is about what the fields of an object
  remember: what a second start has overwritten (`RegistryDoubleStart`) stays open and is not seen by it.
- `TrackInv` adds that what is open is what the objects remember, and that a start finds nothing to overwrite.
  It needs `NothingToRetry` (no restart, and nothing readable is stored as enabled at first): only `resume` sets a
  retry, and a retried start may find its simulation running (`RegistryDoubleStart`). With `PausedIsReleased` it gives
  `PausedHoldsNothing`: what is out of use has no interval, and every open connection is one of something in use.
- `StopInv` follows a shutdown through its awaits: the queues it collected are empty, its closes are all
  there, and nothing new joins, as no caller comes (`~LateCalls`) and nothing is retried.

### SqlSimulation

`KeysInv`: a version's counter is ahead of every key in the table once it has read it back, the keys of a
write in flight are below the counter and not in the table, and those of two writes of a version are disjoint. `OneAfterAnother`
says that the next version starts when the last one is gone (a pause, a restart). It leaves overlapping ticks, failures, lost
counts, samples and crashes in. A `put` starts beside the old version, and the property is false there.

`TellInv`: a version that starts has one write, and what is there plus what that write still has to insert reaches
the rows wanted (`SeedGoesOn`); when ticks do not overlap, a count on its way back is true, and a running version with no error and no
write in flight knows the rows (`TrueAtRest`). The first half needs `OneAfterAnother` alone. The second needs
`OneByOne`, which adds that ticks do not overlap; answers may be lost, ticks may take several statements and the table may be beyond its limit.

`CountsInv`: what is there plus what a write still has to insert stays under the limit, and the version knows the rows but
for what its tick in flight adds. `AllCounted` is `OneByOne`, nothing uncounted, and a tick that fits into one statement.
The last holds for every table of up to 655 columns, since `insertsPerTick` is at most 100 (`types.ts:90`) and a statement takes
65 535 parameters (`sql-writer.ts:59`). A wider table's tick has several statements, and when the second one is refused the rows of the
first are not counted: the version believes in room it does not have, and the limit is exceeded.

`OverInv` bounds what ticks that overlap write beyond the limit, with any number `n` of writes in flight.
Overlap, ticks of several statements, failures, uncounted writes and crashes are all in; only `OneAfterAnother` is assumed. Below the
limit (`CountIsNear`) the last write to be counted tells at most a tick, and one more per lost
answer, too little; of a write on its way this is said of the rows there will be when it is through (`WriteIsNear`), which no statement
of it changes. So when the limit is reached, some write knows of it and at most `n - 1` counts are late. From there
on (`LimitReached`) `Ahead`, which never grows but by a lost answer, adds up what may still come: the rows once all in flight
are written, a tick of every idle slot while the recorded count is low, and for `k` late counts what
they allow, `n`, then `n - 1`, and so on: each, once recorded, lets all that are idle write again. A lower late count
allows more, a higher one less (`Less`), and `Frozen` is a table that was full at first. The sum is at most
`n(n+1)/2 - 1` ticks (`LateTicks`). The attempt to prove this showed that `2(n - 1)`, the first bound stated here, holds
for two writes in flight and not for three; TLC found the run, and the property was corrected.

### MqttSimulation

All versions of a simulation connect with one client id, so a second client would end the connection of the first, which would
reconnect and end the second's, for ever. `MqttInv` says that a version has a client exactly while it is on, that two versions live at once only if one of them is there
to be replaced (`OneLives`), and that the session is that of a connected client. `OneClient` follows, and
`NobodyTakesOver`: between changes only a start or a lost connection ends a session. This is the safe half of `KeepsTheSession`, for any number of
versions and outages and whichever change fails; that the session comes back is left to TLC. TLC checks both, and
`TypeOK`, when they are added to `Mqtt.cfg`, also with three versions (360 000 states).

### StartUp and Console

`IInv` of `StartUp`: the advisory lock is held exactly from its grant to the end of the transaction, and
an open transaction's migrations continue what is committed; since nobody else commits under the
lock, a migration is never applied twice, with builds that know different ones. `ServeInv` adds that an instance
that is alone read, or registered, the rows as they are, and that after `shutdown()` what is registered is still among them. `Typed` of
`Console` is what `TokensLast` needs of the requests: a call is forwarded with a token that has its minute left, or without one
and then it is `troubled`, and is answered or given up before the minute ends.

### Generators, FieldEditor and Editor

These are facts about functions, carried through the reachable settings. `Setting` says what a field holds
in the editor (a number may be missing or broken), `Shaped` what it holds after the JSON view (or null).
`GeneratorsProofs` has a lemma per kind: a setting without an error is taken by the schema, stays in its
range from every position, and fits its column, each with the premises of its property. `FieldInv` says that the inputs are those of the setting's kind, and
that each shows either its own broken text or a number the setting has.

`EditorProofs` treats a body as what `toInput` makes of a draft: `Merged` is its list of fields
without repeated names, and the lemmas say that merging twice changes nothing, that the names stay, and that each check sees only
names, settings and numbers. Then each part of the schema is shown equivalent to the absence of one gap of `SlipsThrough`
in a valid draft (`SpecsIff`, `IntervalIff`, `RowsIff`, `ValidIsTaken`), and the others to follow from `validate`. `FormInv` holds
of every draft, of the text in the JSON view, of what the service holds and of each save on its way;
`StoreReturns` of what is kept, by whichever save; `BoundInv` follows a draft from its binding on.

`ShowsWhatItHolds` has `ShowInv`: the text of an input reads as the value it was given last, whoever changed the setting
since. Typing sets both; a switch of the kind, a neighbour that takes the place or a toggle mounts the inputs anew from the setting
or hands them a value they compare with what their text reads as. The filter behind a list's text is
`Listed`: the elements at a set of places, in order. `ListedIs` says that every kept element is listed once and nothing else is, a fact the prover
cannot learn about `SelectSeq`.

`SuggestionsPass` has `SuggestInv`, where a suggested draft comes from: the structure it was made of was fetched, from the portal or
among the examples, and the draft is what `draftFromDataStructure` made of it. `SuggestedRows` then walks the fields: one for each supported
property, with the setting `suggestSpec` gives its type, which has no error because the bounds it is built from are
numbers that leave room (`Even`, in the property); and the key, if there is one, is among the supported properties.

- `PlainNeighbours`: the constants of the settings that take a field's place are texts, numbers and truth values, and their lists are
  lists of such; any text, also one an input cannot say, is allowed.
- `Suggestable`: a structure has a name, and its supported properties have names that are not empty and differ. The portal's reader joins nested
  names by a dot (`portal.ts:83`), so `a.b` and a `b` within `a` would be one name twice, and the form would refuse the suggestion.
- `JsonKeeps`: what a person makes of a text in the JSON view, if it can be read, still lists fields with settings of
  their kinds. `fromJson` checks each field's kind but not the shapes of its settings (`api-json.ts:131`), and nothing
  can be said of a draft whose minimum is a list.
- `StoredByEditor`: what the service holds at first, without settings the editor does not know, was
  saved from the editor. Other callers may have stored what the editor would write differently.

### Assumptions on constants

TLC evaluates each in every run. `NoValues` (`Generators`): the marks for missing, broken and null are no values.
`NoTexts`, `LongTexts` (`Configuration`): nor are they texts, and what is missing or empty is not too long. `FieldAssumption`, `EditorAssumption`: what is typed as a number is
one, a text says what its form promises (`Legible`), settings are of their kind, a topic is a list of segments, a name no wildcard, and what is stored has a list of fields;
a structure's properties are a list, their bounds numbers, and a key is of a supported type, as the portal's reader makes them
(`Readings`, `portal.ts:97-123`).
`MqttAssumption`: `None` is no version, and a publication fits. `InstanceAssumption`, `FittingAssumption` (`StartUp`), `TableAssumption` (`SqlSimulation`: a table at
first is a finite set of numbers), and those of `Registry`: the constants have their types.

### Left to TLC

- Liveness, all of it: fairness and ENABLED are beyond the prover (`EveryChangeSettles`, `RetriedUntilItWorks`, `FillsUp`,
  `StopCompletes`, `StartedServes`, `SignalledExits`, `ShowsTheTruth`, `LastEventShown`, `OutageIsShown`, `RecoversByItself`, `KeepsTheSession`).

Every other property of the runs, invariant or action property, is stated by a theorem.
The runs check every property a theorem names but the three of `MqttSimulation`.

## Not modelled, and the plan

1. A list page with several simulations, whose one `switching` id lets a second switch overlap the first
   (`simulation-list.tsx:35`): `Console` with two simulations would multiply its 1.26 million states beyond a run of minutes.
2. Clocks: that 4 s and 5 s are exceeded together by a queue is a choice in `Console` and `Editor`, not a derived fact.
3. Pure parts: `rowsPerStatement`'s arithmetic (its result is `ChunkSize`), `deriveTable`, table definition and identifiers, slugs.
4. The preview of samples (debounced, its late answers are dropped by a flag), paging through the portal.

Out of scope: signatures and roles in the token check (a stateless call of a library), environment parsing, wording,
layout, deployment files and the broker.
