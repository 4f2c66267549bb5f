# AI Room Manager backend: TLA+ models, checks and proofs

The backend (`src/backend`, NestJS on one Node process, PostgreSQL through Prisma, an
MQTT broker) runs a hotel's rooms, housekeeping, room gateways and accounts. Almost no
handler uses a transaction: a handler reads rows, decides on what it read, writes by id
and appends to the audit log, and every one of those steps is an `await` at which other
requests run and at which the handler may end. This project models exactly that, checks
what survives it with TLC, and proves it with TLAPS for any number of rows and requests.

Paths below are relative to `src/backend/src`.

## 1. Inventory

| Part | State | Operations that change it | Correct when |
| --- | --- | --- | --- |
| Housekeeping tasks (`housekeeping/`) | `HousekeepingTask` rows: status, room, assignee, three dates, inspector, notes | `createTask`, `assignTask`, `startTask`, `submitForInspection`, `inspectTask`, `cancelTask` | tasks follow their table; what was recorded stays; a passed task's room gets clean |
| Room status (`properties/`) | `Room.status` | `updateRoomStatus`, the promotion inside `inspectTask` | rooms follow their table; housekeeping promotes a room only for a task that passed there |
| Property hierarchy (`properties/`) | properties, buildings, floors, rooms and their links | `create*`, `update*` of each | codes are distinct whatever their case; rooms and buildings stay in their property; a room's floor is in its building and that in its property, unless `updateRoom` moves it |
| Audit log (`audit/`) | `AuditLog` rows, append-only | `AuditService.log`, awaited last by every writing handler | the log never reports what the rows do not show |
| Device registry (`iot/devices/`) | `Device` rows: status, property, room, last heartbeat, metadata | heartbeat and fault events, `checkStaleDevices`, `createDevice`, `updateDevice`, `deleteDevice`, `assignDeviceToRoom`, `unassignDeviceFromRoom`, `sendCommand` | a status is explained by what the gateways said; removed devices do not come back with old columns; commands reach the room |
| MQTT client (`iot/mqtt/`) | client or none, connected or not, subscriptions, the chains of handlers under way | `connect`, `close`, `message`, `subscribe`, `publish`, `disconnect` | what is reported as sent was sent; subscriptions come back; every valid message that arrives is passed on, once and in order |
| Ingestion (`iot/ingestion/`, `iot/subscribers/`, `iot/topics/`, `iot/events/`) | none | parses a topic, validates a payload, emits an event | an event speaks for a message that arrived: its kind, its place, its schema |
| Command publisher (`iot/publishers/`) | none | builds topic and payload | the topic names the device's room |
| Authentication (`auth/`) | `RefreshToken`, `PasswordResetToken` rows | `register`, `login`, `refreshToken`, `logout`, `requestPasswordReset`, `resetPassword` | sessions continue only from spent tokens; a password changes only by a reset token of its user, and by each once |
| Users (`users/`) | `User` rows: email, password, status | `create`, `updatePassword`, `updateStatus`, `updateLastLogin` | one account per address, however it is written; never overwritten |
| Guards, pipes, filters, middleware (`common/`) | none | admit, validate, render errors | (plumbing) |
| Prisma client, configuration, bootstrap, seed | a connection; constants | start and stop | (plumbing) |
| Maintenance, emergency, occupancy, realtime, notifications, dnd, dashboard | none: empty modules | none | nothing to say yet |

How they interact: controllers call services directly; services share the database and
nothing else, except that `inspectTask` writes `Room.status`, `assignDeviceToRoom` (of the
properties service) writes `Device`, and every service awaits `AuditService.log`.
Messages of the broker reach the device registry as in-process events
(`EventEmitter2`), whose handlers the emitter does not wait for, so two heartbeats of one
gateway can be in flight together. Commands leave through `CommandPublisher` and
`MqttService.publish`, which waits for an acknowledgement, waits for a reconnection while
the client is down, and returns at once when there is no client.

What is hard here: stale reads across `await`s; several writes of one handler of which
only the first happens; writes by id that do not check that the row is as it was read;
heartbeats and faults late, repeated or reordered; a liveness scan racing the heartbeat
it waits for; an audit entry that fails after its write; a broker that forgets the client
with each connection; chains of message handlers that take turns at every `await`. What
is absent: nothing is locked, so nothing deadlocks; the server retries nothing but its
connection to the broker; no queue or pool of the program's own has a limit. `PROJECT.json` lists the hazards one by one with their lines.

## 2. Modules

| Module | Models |
| --- | --- |
| `TaskStatus` | the table of `housekeeping/task-status.state-machine.ts` |
| `RoomStatus` | the table of `properties/room-status.state-machine.ts` |
| `Housekeeping` | the housekeeping service, `updateRoomStatus`, the audit log; extends both tables |
| `RoomTurnover` | abstract: what housekeeping promises, without requests or reads |
| `HousekeepingRefinement` | the mapping under which `Housekeeping` implements `RoomTurnover` |
| `Hierarchy` | properties, buildings, floors, rooms |
| `Devices` | the device registry, device assignment, commands and `publish` |
| `TopicRegistry` | topics, patterns, builders and parsers |
| `Telemetry` | the MQTT client's connection and subscriptions, the message listener, the subscribers, ingestion; extends `TopicRegistry` |
| `EventBus` | abstract: what becomes of the messages that arrive |
| `TelemetryRefinement` | the mapping under which `Telemetry` implements `EventBus` |
| `Auth` | accounts, sessions, password resets |
| `HousekeepingOverlaps`, `DevicesOverlaps`, `AuthOverlaps` | the same components with a history variable: have two handlers overlapped on a row yet? |
| `MCHousekeeping`, `MCHousekeepingOverlaps`, `MCHierarchy`, `MCDevices`, `MCTelemetry`, `MCAuth` | small sets and symmetry for TLC |
| `HousekeepingProofs`, `HousekeepingRefinementProofs`, `HierarchyProofs`, `DevicesProofs`, `EventBusProofs`, `TelemetryProofs`, `AuthProofs` | theorems |

### Conventions shared by the models of request handlers

* `Slots` are the requests that can be in flight at once; `req[q]` is the request a slot
  serves: what it was called with, what it has read, and `pc`, the database (or broker)
  call it waits for. A free slot holds `Idle`.
* `Receive` (and `Hear`, for the broker) puts any request a client can send into a free
  slot, including ids that name nothing (`Null`, or an id no row has yet). In `Auth` a request
  arrives with its first call (`Begin`), which only reads: until that call is made nothing tells a
  request from one not sent yet, and one that it makes the handler refuse changes nothing.
* Each database call is one action. The code between two calls only touches the
  handler's own variables; it belongs to the call before it. `Await(q, pc)` goes on to the
  next call, `Answer(q)` ends the handler, with success or an exception alike.
* `Fail(q)` ends a request where it stands: a rejected call, a lost answer, or the
  process dying (which is `Fail` of every slot). With `CanFail = FALSE` it is disabled.
* A definition whose comment begins with "..." is a faulty variant of its neighbour, used
  by no action; putting it in place of the real one must break the property it is
  paired with in `PROJECT.json`.

### Overlaps

Four of the disagreements listed below come from two handlers that overlap. What else they might
need (a failure, a third request, an unlucky order of calls) is settled by saying exactly
when two handlers overlap and showing that nothing goes wrong before. `Apart` says that no two
requests are at once between a read of a row they decide on and the write that relies on it; in
`Housekeeping` that is `ReliesOnTask` and `ReliesOnRoom`, in `Devices` a scan and a heartbeat of
one device (`Scanning`, `Hearing`), in `Auth` two refreshes, or two confirmations, of one token (`Relying`). The code
does nothing to keep handlers apart; a row lock taken at the read and held to the write would, as would
traffic in which it does not happen. Handlers that are apart still interleave at every `await`, on
different rows and on the same row outside that window, and still fail anywhere. `overlapped`, a
history variable that no action reads, becomes true at the first state that is not `Apart` and
stays so (in `Auth` it is the set of the tokens this has happened to, and `redeemed` that of the reset tokens
that have changed a password); the properties named `...UntilOverlap` speak of everything before. `ApartSpec` of
`Housekeeping` has the behaviours in which it never becomes true.

### Housekeeping

`tasks[t]` is `Null` until `createTask` inserts the row. `WithRow` is what a handler keeps
of the row it read: the room, the notes it will fall back on (`kept`, for `dto.notes ?? task.notes`,
which is `Coalesce`), the validated status, and the date of `new Date()`. A member of `Notes` is any contents of the
column, the empty string too, which the DTO admits and which therefore replaces what was there. `Proceeds` is `getTaskOrThrow` with
`validateTransition`. The writes (`Assigned`, `Started`, `Submitted`, `Inspected`,
`Cancelled`) take the row as it is *at the write* and set only the columns of the
handler's `data`, which is what an update by id does. `inspectTask` with
`passed = true` goes on to `PromoteReadRoom` and `PromoteWrite`. `TaskCanTransition`
refuses self-transitions and `RoomCanTransition` accepts them, as the two tables do.
`Logged` bounds the log: the actions whose entries an instance keeps.
Left out: priority, and the read-only `listTasks`, `getTaskById`, `getMetrics`.

### Hierarchy

A row keeps its links and what a unique index compares; a property is its code. `Upper` is
`toUpperCase`, on a set of codes that may be typed in either case. `createRoom` is four
calls: `ReadProperty`, `ReadBuilding`, `ReadFloor`, `CreateRoom`; the lookups are shared
with the other handlers that make them. The writes are Prisma's, which reject a label
a unique index has (`CodeTaken`, `NameTaken`, `FloorTaken`, `RoomTaken`); what `updateRoom`
is given as building and floor goes to the row unread, if there is such a row. Ids
that name nothing are among the inputs. Names, time zones, capacities and room types are
left out; the status column is `Housekeeping`'s.

### Devices

A row keeps status, property, room, `lastHeartbeatAt` and `metadata.lastError` (the only
part of the metadata that says something about the status). `createDevice` and `updateDevice` write any metadata they
are given, one with a fault in it too. `Keep` stands for `undefined` in a Prisma `data`.
A heartbeat writes back the metadata it read (`HeartbeatRead`, `HeartbeatUpdate`), and a
scan updates by id what it found stale earlier (`ScanRead`, `ScanUpdate`). `InsertDevice`
and `UpdateDevice` are Prisma's `create` and `update`/`delete` with their rejections.
`link` is the MQTT client: none, down, up; `Publish` waits while it is down. Rooms and
properties do not change in this model; `Home` gives each room its property, which
`HomesFixed` of `Hierarchy` shows to be constant once the room exists. `Edits` are the
changes operators make with `updateDevice`. Heartbeats and faults come in by `Hear`, at any
time, late or repeated: what `Telemetry` emits, in any order, since `EventEmitter2` does not
wait for the handlers of the registry.

### Telemetry

A message is its topic (the segments of `split('/')`), whether it is JSON, and the schemas
of `topic-schema.ts` it satisfies, several being possible since they allow additional
fields. `sub` holds the five subscriptions, asked for in the order of
`subscribeDefaultTopics` and answered by the broker in that order, `channel` what the broker
has for the client, which it forgets with the connection (`clean: true`). Messages of
different topics may overtake each other in `channel`.

`Deliver` is the `message` listener up to its first `await`: it calls the first handler.
From there a message is a *chain*, one entry of `queue`: the subscriber awaits the ingestion
(`at = "handler"`), then the listener awaits the subscriber (`at = "listener"`), then it calls
the next one. Each of these goes to the end of Node's queue, `RunTask` takes the first, and so
the chains of several messages take turns. The four handlers are those of
`iot.module.ts` in the order of its providers, which is the order in which they register. A handler
whose payload is not valid throws, which the listener logs before it goes on: in the model
it emits nothing. Left out: fields of payloads and events; the listeners of the
events are `Devices`.

### Auth

`tokens` and `resets` are the two token tables; `state` folds `isRevoked`/`isUsed` and
`expiresAt` into what handlers make of them, and `from`, which is no column, remembers
the token a token was exchanged for. A member of `Users` is an e-mail address as it may be written, and `LowerCase` what
`toLowerCase` makes of it: `create` and `findByEmail` go by the lowered address, so the row of another spelling stays
empty. There is no clock: `Expire` lets any live token expire
at any time. `delivered` are the tokens a client has been given, so clients present only
those or an invalid one. Whether a login's password is right is left open. Access tokens
are stateless; they appear as the right to call `logout`, and as its guard's read of the
user (`LogoutGuard`). A password is a member of a small set, chosen where it is written, since nothing looks at it
before; hashing is left out, as is `lastLoginAt`.

## 3. Runs

Every bound is a constant of the `.cfg`.

| Run | Instance | Question |
| --- | --- | --- |
| `hk_serial` | 2 tasks, 1 room, 1 housekeeper, no notes (`RoomTurnover` has none), 1 slot, 2 instants, failures, fair | One request at a time, the service implements `RoomTurnover`, fairness included: the room of a passed task is promoted, refused or abandoned, once |
| `hk_concurrent` | 1 task, 1 room (dirty at first), 1 note, 2 slots, 2 instants, failures; the log keeps starts and passes | What stays true when handlers act on stale reads; and that until two of them overlap on a row, COMPLETED is final, dates fit, notes are those a request brought, rooms follow their table and every step is one of `RoomTurnover`; a task that passed has its room decided on even then, unless its request fails |
| `hierarchy` | 2 properties, 2 buildings, 2 floors, 1 room, 3 spellings of 2 codes, 2 slots, failures | Codes stay distinct, homes fixed, and rooms in place unless moved |
| `dev_registry` | 1 device, 1 room, 2 properties, 1 fault, 2 slots, 2 instants, failures | Statuses are explained, removed devices come back new, issued commands were sent, and sent to the device's room, devices are placed by operators alone; until a scan and a heartbeat overlap, only stale devices go OFFLINE |
| `telemetry` | 2 messages of 8 contents, 5 subscriptions, one of which may be refused, fair | The service implements `EventBus`, no message that arrived is forgotten, events speak for messages and come in the order of arrival, subscriptions come back, and only a lost connection loses a valid message |
| `auth_sessions` | 1 address in 2 spellings, 3 refresh tokens, 1 reset token, 2 passwords, 2 slots, failures | Accounts, sessions and passwords under overlap, failure and expiry; no refresh token is exchanged twice, and no reset token changes two passwords, until two requests that present it overlap |
| `hk_terminal`, `hk_room_race`, `hk_promotion_lost`, `dev_scan_race`, `auth_fork`, `alert_lost` | as named below | six statements of the repository that the code does not keep |

The passing runs are exhaustive: 131,647 distinct states for `hk_serial`,
1,909,472 for `hk_concurrent`, 1,151,914 for `hierarchy`, 1,166,894 for
`dev_registry`, 48,629 for `telemetry` and 744,423 for `auth_sessions`, each in two
minutes or less.

Why the bounds are enough to be interesting. Two slots give every ordering of two
handlers' calls, and the hazards above are races of two. One task, device or account is enough
for them, because handlers of different rows share no row but the room; one room
is what both housekeeping and the front desk write, and `hk_serial` has two tasks pass in it. Two instants give dates that differ; with
`Threshold = 0` a device can be fresh and stale. Two buildings in either property and a floor in
either building are what it takes to misplace a room. Three refresh tokens
make a session of two exchanges, or one that two requests continue. Two messages make two
chains that take turns at every `await`, of one kind or of different kinds; the eight contents
are a valid message of each kind (the heartbeat in one of them also not JSON), a fault that
satisfies the heartbeat's schema too, a sensor's payload under another sensor's topic, and a
topic below a sensor's. The log of `hk_concurrent` keeps the entries of two actions, one that dates the start
and one that completes; entries are independent of each other, and `AuditAlwaysJustified` is about all of them.
Whether a session of one account can be touched by a request of another is outside
`auth_sessions`, and is settled by `TokensAlwaysWither`.

`CommandsReachTheRoom` is about operators who use `updateDevice` to take devices out of rooms at
most (`Edits <- Evictions`), as its definition says: an operator who sets a room directly can set
one of another hotel, see below.

Symmetry is used only in runs of invariants and action properties: over slots, in `Hierarchy` also
over ids and names, and in `Auth` over refresh tokens and passwords, none of which a definition
tells apart.

The refinements. `RoomTurnover` has a task's status and room, room statuses, and the set
`due` of tasks that passed and whose room is not yet seen to. `HousekeepingRefinement` maps `due`
to the tasks of requests between `InspectWrite` and the end of the promotion. Under it
the promoting write, or the decision that the room may not become clean, is `Promote`, a
failure in between is `Abandon`, and everything else is a move along a table or a stutter.
Its `FairSpec` contains weak fairness of `Promote`, so the run also shows that every
passed task has its room decided on or abandoned. `hk_serial` checks that for one request at a time, with failures; `hk_concurrent` checks of
two requests that every step is one of `RoomTurnover` until they overlap on a row
(`TurnoverUntilOverlap`), `hk_terminal` and `hk_room_race` show what happens then, and the theorems of
section 4 say that it takes such an overlap with any number of requests and rows. `EventBus` has the kinds of the messages that arrived and
the events so far. `TelemetryRefinement` computes both from `delivered` and `emitted`: a valid
message whose chain has not reached its handler is one that waits, and the bus may emit
only the first that waits of a kind. `EmittedInTheEnd` is the bus's liveness: nothing waits for ever.

Fairness. In `Housekeeping`, `FairSpec` is weak fairness of `Step(q)` for each slot: Prisma settles every
call it started (by a result or a timeout error) and Node resumes the handler of a settled
promise, so a request in flight takes its next step. No fairness is assumed of clients,
of failures, of the front desk or of the clock. In `Telemetry` it is weak fairness of
`Connect` (the client tries again every five seconds, `reconnectPeriod`), of the answer to each
subscription and of the delivery of each message (the broker's part), and of `RunTask` (Node
runs its queue). Nothing is assumed of the connection: `AlwaysResubscribed` and
`AlertsGetThrough` have its staying up as their premise, `OnlyLossLoses` lets the loss excuse a message, and `EmittedInTheEnd` needs neither, since a
chain runs on without it. `Hierarchy`, `Devices` and `Auth` state safety only (a publish may wait for a
reconnection for ever, and nothing in the code forces one).

Deadlock is checked except in `telemetry` and `alert_lost`, where the service may really stop: it
is shut down, or runs without a client, and every message has been sent. Where failures are off, a handler
that could neither go on nor answer would show as one; where they are on, `Fail` always lets it end. In Auth a
request for which no token is left (the sets are bounds) waits until it fails.

### Where the repository says otherwise

| Run | The repository says | The code |
| --- | --- | --- |
| `hk_terminal` | "COMPLETED -> (terminal)" (`task-status.state-machine.ts:20`) | a handler that read the task earlier overwrites COMPLETED |
| `hk_room_race` | transitions are validated "through the deterministic state machine" (`properties.service.ts:350`) | a room taken OUT_OF_ORDER after it was read is made VACANT_CLEAN |
| `hk_promotion_lost` | completing a task "automatically promotes the associated room" (`docs/api-documentation.md:574`) | a failure between the two writes leaves the room dirty, and inspecting again is refused |
| `dev_scan_race` | devices go OFFLINE "if no heartbeat has been received within the threshold" (`devices.service.ts:130`) | the scan updates by id, also a device whose heartbeat arrived after it was found |
| `auth_fork` | a refresh "Returns 401 if the refresh token is expired or already used" (`auth.controller.ts:122`) | two refreshes that overlap both find the token unused and both succeed |
| `alert_lost` | alerts have "QoS 2 (Exactly-Once delivery)" (`docs/mqtt-contract.md:165`) | the client asks for a clean session, so an alert sent while it is subscribed is lost if the connection closes before it arrives |

The first two, `dev_scan_race` and `auth_fork` need two handlers that overlap on one row, and by the theorems
of section 4 need nothing but that. The other two do not: `hk_promotion_lost` takes one failure, and by
`PassedAlwaysDecided` takes one, since overlaps alone never lose a promotion; `alert_lost` takes one lost
connection, and by `OnlyLossLoses` takes one.

Noted while reading, without a run:

* `inspectTask` with `passed = false` accepts an ASSIGNED task, since ASSIGNED may go to IN_PROGRESS
  (`housekeeping.service.ts:241`): it becomes IN_PROGRESS, inspected, never started, where
  `housekeeping.service.spec.ts:364` says it throws "when task is not in INSPECTION".
* `updateDevice` sets a room without its property (`devices.service.ts:262`), so a command's topic can name
  another hotel than the room's, where `docs/api-documentation.md:715` has the device's property and room.
* Two confirmations of one reset token that overlap both find it unused (`auth.service.ts:313`) and both set a
  password, where `auth.controller.ts:228` says "The token is single-use"; `OneChangePerReset` says that it takes this
  overlap.
* `notes: ""` is accepted (`housekeeping.dto.ts`) and, being no null, replaces the notes of a task
  (`housekeeping.service.ts:203`, `:252`).
* `startTask` accepts a task in INSPECTION, since INSPECTION may go to IN_PROGRESS (`housekeeping.service.ts:160`).
  Between the read and the write of a pass it stamps a start later than the completion date the pass has taken, and
  `getMetrics` (`:392`) then counts a negative turnaround; `DatesUntilOverlap` says that it takes an overlap.
* `logout` without a refresh token invalidates nothing (`auth.service.ts:239`), where
  `auth.controller.ts:172` says "optional — invalidates all if omitted".
* Nothing calls `checkStaleDevices` but an endpoint, where `docs/mqtt-contract.md:141` says that devices go
  OFFLINE after 90 seconds.
* `updateRoom` (`properties.service.ts:320`) does not check the building and floor it is given as
  `createRoom` (`:236`) does; `PlacedUnlessMoved` says that nothing else misplaces a room.
* A subscription that the broker refuses is logged and not asked for again before the next connection
  (`mqtt.service.ts:131`).
* `properties.controller.ts` says a device must already be registered while `assignDeviceToRoom`
  registers it; `unassignDeviceFromRoom` does not check that the device is in the room of the path; a
  DEGRADED device that falls silent is never set OFFLINE, since the scan looks at ONLINE devices.

## 4. Proofs

All theorems hold for every value of the constants under the named assumptions of the
models (`NullAssumption`: `Null` is no row, id or value; the sets of roles are
disjoint; clocks and thresholds are natural numbers; and the like), which TLC evaluates on every run.
`CanFail` is a constant, so each theorem covers failures too.

**HousekeepingProofs.** `TypeOK` is not inductive: that a handler writes an existing row
needs what the handler read. `TypeInv` adds, for every request, `Asked` (which fields are set at
which call) and `Found` (its task exists and is in the room it read: rows are never removed and
never move). `FreshInv` adds that the id of a running `createTask` is nobody else's.
From them: `TypeCorrect`, and `RecordsAreKept` by looking at the columns each write sets.
`WorkInv` adds what each status proves about its row and what each request proves about it
(`Witnessed`): a handler past `validateTransition` saw the task beyond PENDING, and since nothing clears
an assignee, the task still has one whatever was written since. That is the argument for
`AssigneeAlwaysKnown`, `InspectionAlwaysRecorded` and `AuditAlwaysJustified`.
`PendingAlwaysUntouched` and `PromotionAlwaysBacked` come from the same invariant.
`CurrentInv` says that what a handler validated is still so. It is not inductive: a handler's write makes
it false of every other handler that has read the task. It is under `Apart`, since then nobody who relies on
the task is left when it is written (`OthersKeepOff`), and gives `ApartStepsLegal` and
`ApartCompletedIsTerminal`. `DatedInv` adds that a handler's date is no later than
now and no earlier than the start of the work, and that the notes it will fall back on are still the row's: a
task is not COMPLETED when it is written (`CompletedIsLast`), so only a pass sets a completion date.
It gives `ApartCompletionDated`. A service with one slot is always apart
(`SerialIsApart`), so each of these has a corollary, `Serial...`, about `Spec` itself.

**HousekeepingRefinementProofs.** `ApartIsTurnover` is the safety part of the refinement, for any number of
slots that keep apart. Several handlers may then be between the two writes of a pass at once, of different
tasks: `DueInv` says that their tasks are COMPLETED and that no two of them are at one task, so that a step of
one takes exactly its own task in or out of `due` (`DueNext`). A write of a task moves it along the table or, for a
reassignment, not at all (`UpdateIsAStep`, from `CurrentInv`); a write of a room is legal because the room
is as it was when the handler looked (`RoomInv`, which also gives `ApartRoomsLegal`). `HistoryInv` puts `Apart`,
`CurrentInv`, `DatedInv`, `RoomInv` and `DueInv` behind the history variable: either two handlers have overlapped
or all of them hold. It is an invariant of every behaviour, and gives `CompletedBeforeOverlap`, `DatesBeforeOverlap`,
`NotesBeforeOverlap`, `RoomsLegalBeforeOverlap` and `TurnoverBeforeOverlap`; `NoOverlapIsApart` ties the two forms together.
`PassedAlwaysDecided` needs none of this: it holds of overlapping handlers too, because a task leaves `due` only by a step
of the request that brought it there (`DueLeaves`), and such a request keeps the room of its task (`Found`).

**HierarchyProofs.** `TypeCorrect` is proved and not run: no statement of this code could break the type of a
column. `TypeInv` adds `Asked` and `Found` (the rows a request names exist, and rows do not
vanish). `Stays`, which every step satisfies, gives `HomesAlwaysFixed`, and that keeps what `createRoom`
looked up true until it inserts, which is the argument of `RoomsPlacedUnlessMoved`: no transaction is
needed there, because none of the three facts can change. `CodesAlwaysDistinct` rests on every stored code being in
upper case.

**DevicesProofs.** `TypeInv` again adds `Asked`. `RowsChange` classifies every step by what it
does to a row (inserted as new, written over an existing one, removed, offline by a scan, unchanged), from which
`RemovedComesBackNew` follows at once: no update by id brings a row back. `OperatorsAlonePlace` is its counterpart for
rows that are there: a creation writes none, and heartbeats and faults leave the place alone. `StatusAlwaysExplained`
assumes `OperatorsExplain` (no operator writes a status, or metadata without a fault, by
hand, which would make any status legal) and needs `PlainInv`, that requests in flight are such. The
difficulty it settles is the heartbeat that writes back an old `lastError`: it sets ONLINE in the same
write, so a DEGRADED row still shows a fault. `OnlyStaleBeforeOverlap` assumes that operators do not ask for OFFLINE, which
is part of the property, and rests on `StaleInv`: what a scan has found is stale until it is written. Time only makes
it staler (`StaysStale`), only heartbeats set `lastHeartbeatAt` on an existing row (`BeatsChange`), and a device that
is removed and registered again in between has none. `IssuedAlwaysSent` needs `Published`: a command that waits
for its audit entry is with the broker, unless there is no client.

**AuthProofs.** `TypeInv` adds `Asked`, `Found` and `OwnersKnown` (the user of a token exists).
`Found` holds the facts that make the others true: a refresh past its revocation has a spent
token of its own user, a confirm past `isUsed` likewise. They survive other handlers because of `Kept`: rows
stay, stay with their user, and what is spent stays spent. From `Kept` and `Found` follow
`SessionsRotate` and `TokensAlwaysWither`; `AddressesAreAccounts` rests on every row being that of
a lowered address (`Registered`). `ExchangedOnceBeforeOverlap` needs one more
fact, `ExchangeInv`: one refresh at most is between reading a token and inserting its successor, and
while it is there is none. A refresh comes there only with a live token (`StartsLive`), which has no successor by
`RotatedAreRevoked`, and a successor is inserted only by a refresh that leaves (`EndsInOne`). `Apart` covers only the window up to the revocation;
that nothing enters between the revocation and the insertion is proved, not assumed. `ResetsAreSingleUse` goes the same way
with `ConfirmInv`: one confirmation of a token at most is past its read, and while it is the token has changed no
password; afterwards the token is marked used, and stays so.

**EventBusProofs.** `BusInTurn` is about the abstract bus: the events of one kind come out in the order in which its messages arrived,
each once and none passed over.

**TelemetryProofs.** `SubscriptionsFit` is about topics of any length: the broker delivers what a parser
accepts to the subscription of its kind, and commands to none. `TypeInv` adds that chains belong to messages that
arrived and were JSON. `EventsAlwaysFaithful` rests on no topic being of two kinds (`OneKind`) and on the
parsers undoing the builders (`BuiltIs`, `IsBuilt`). `KeepsThePromise` needs the order in `queue`: `Chains` says
that a message has one chain at most; that a chain which has not yet come to the handler of its kind is *ahead* of it
and has not been emitted; that a valid message is out or ahead; and that of two messages of one kind the chain of
the earlier one is at a later handler, or at the same one and before the other in the queue. Chains move to the end of the
queue by one handler at a time, so the first stays first, and the one that reaches its handler is
the first that waits. With the refinement in hand, `EventsAlwaysInTurn` is `BusInTurn` carried over to the chains: the
theorem about the bus is instantiated by the refinement mapping, and nothing about queues is argued twice.
`WaitingAlwaysInHand` is the safety half of `EmittedInTheEnd`: what waits has a chain that will come to its handler; that
chains do come there is fairness.

Only model-checked: the liveness part of `ImplementsTurnover`, `EmittedInTheEnd`, `AlwaysResubscribed` and `OnlyLossLoses` (`ENABLED` and fairness
are beyond the prover), and, necessarily, the disagreements of the table above. `CompletionDated`
and `TaskStepsLegal` are false of overlapping handlers, and are proved under `Apart`.

## 5. Not modelled, and why

* Guards, pipes, filters, middleware, configuration, bootstrap and seed keep no state. Roles are
  present where a handler checks one itself (`assignTask`).
* The TLS options of the MQTT client; broker-side queues of QoS levels, of which the model keeps what the
  code can rely on: delivery while connected, in no order across topics.
* The composition of `Telemetry` with `Devices` as one state space: they meet in the events, `Devices` takes them in any
  order, late and repeated, and so assumes less than `ImplementsEventBus` gives.
* Sensor, emergency and acknowledgement events have no listener yet, so nothing follows from them.
* Read-only endpoints, logging, and columns nothing decides on.
* The empty modules.

## 6. Plan

Done, in this order: the two tables; `Housekeeping` with `RoomTurnover` and its refinement;
`HousekeepingProofs`; `Devices` and its proofs; `Auth` and its proofs; failures in the refinement;
`Hierarchy` and its proofs; `TopicRegistry`, `Telemetry` and `EventBus` with their proofs; the proof of the
refinement of `RoomTurnover`; the `Overlaps` modules with the proofs that overlaps of handlers alone
cause four of the disagreements.

What would come next, as the code grows:

1. Listeners for emergency and sensor events, once the emergency and occupancy modules have any, with
   their liveness on top of `EmittedInTheEnd`.
2. A shorter window in the handlers: a row lock held from read to write gives `Apart`, and with it every theorem
   above without its hypothesis; an update that repeats the condition it was decided on (`updateMany` with a
   status) is another way, and `CurrentInv`, `RoomInv`, `StaleInv` and `ExchangeInv` say which conditions.
3. Liveness of the registry, once something calls `checkStaleDevices` periodically.
4. A history of the password each session was opened with, to say exactly which overlaps with `resetPassword` leave a
   session of the old password alive (`auth.service.ts:329`), in the form of the `Overlaps` modules.
