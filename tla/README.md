# A formal model of ioBroker.govee-smart

TLA+ modules, TLC configurations and TLAPS proofs for the adapter in `src/`.  Paths in this
file are relative to `src/src/` unless they start with `src/`.

1. [Inventory](#1-inventory)
2. [Modules and how they map to the code](#2-modules-and-how-they-map-to-the-code)
3. [Runs, bounds, fairness](#3-runs-bounds-fairness)
4. [Proofs](#4-proofs)
5. [Where code and comments disagree](#5-where-code-and-comments-disagree)
6. [Not modelled, and why](#6-not-modelled-and-why)
7. [Plan](#7-plan)

How to run it, inside `tla/`: `tlc -workers 2 -config RateLimiter.cfg MCRateLimiter`,
`tlapm RateLimiterProofs.tla`.  `PROJECT.json` lists the runs, the theorems, the mutants, the
hazards and, for every definition that models code, the lines it stands for.

## 1. Inventory

The adapter is one Node.js process.  It keeps Govee lights and appliances in ioBroker states.
It reaches a device over the LAN (UDP), over Govee's Cloud (REST), over the app's account
(AWS IoT MQTT) and over an event channel (OpenAPI MQTT).  JavaScript runs one handler at a time,
so nothing here races on memory; everything hard comes from what happens **between** an `await`
(or a timer, or a socket event) and the code after it, from windows of Govee's limits that
several independent paths share, and from three stores that outlive the process: the cache
files, ioBroker's objects and its states.

### Parts that carry the core logic

**Call budget** (`lib/rate-limiter.ts`, `lib/call-booking.ts`).
State: one priority queue, a counter per minute lane, a token bucket per device and one for the
account, a day counter for the account and for each appliance, an epoch for minute and day.
Operations: `tryExecute`, `executeTracked`, settling of a call with a refund when no request of
it reached Govee, `processQueue` (one synchronous walk), minute
and day resets, `stop`.  Used by the command router, the library loader, the state reads and the
App API.  Hard: a refund after the window it was booked in has been reset; eviction at a full
queue; callers of `executeTracked` whose call leaves the queue on one of six ways.
Correct means: limits hold, counters equal the bookings, no caller is forgotten, order in a lane.

**Command transmission** (`lib/command-router.ts`: `sendBudgeted`, `sendOnce`).
State: a sequence number per device and datapoint.  A command that never reached Govee is sent
again after a pause, unless a newer write came.  Correct means: sent again only when not received,
nothing is sent at once behind a newer write, every write ends.

**Call gate** (`lib/call-gate.ts`).
State: per counterpart the times of the calls let through, per host the end of a 429's hold.
Operations: `tryAdmit`, `waitMs`, `admit`, `https`, `hold`.  Used by every HTTPS request and by
the LAN client.  Hard: several waiters for one slot, late timers, 429 answers in any order.
Correct means: no window of any limit overflows, holds are never shortened, every waiter goes out.

**LAN client** (`lib/govee-lan-client.ts`).  Sending: a queue per light and its release timer;
correct means in order, nothing dropped, the light's window holds, every datagram leaves.
Searching: two sockets, a scan every 30 s, a capped record of addresses; the device manager ties an
address to a light.  Hard: datagrams come late and out of order, the router moves lights to
other addresses and hands those on, an unlisted light of a listed model answers, `stop` falls between two binds.  Correct
means: a command reaches, and a datagram is read as, the light that answered for the device or took over its address, the
record stays within its cap, nothing is sent behind the stop.

**Cloud connection** (`lib/handlers/cloud-retry-handler.ts`, `lib/cloud-retry.ts`,
`lib/cloud-outage.ts`).
State: "was connected", "shown", the outage's first failure and confirmation, the retry loop's
timer and flags, the key problem.  Writers: the start, the loop, the button, every ordinary Cloud
call and the App API, in any order, with answers after a timeout and after unload.
Correct means: a failed list is tried again and loaded, what is shown is what is believed, an
outage rests on two failures, nothing wakes after unload.

**Account channel** (`lib/govee-mqtt-client.ts`) and **event channel**
(`lib/govee-openapi-mqtt-client.ts`) on `lib/reconnecting-mqtt-client.ts`.
State: broker client, reconnect timer, dial window, count of refusals; the account channel has
login window, refresh timer, persisted bundle, bearer and verification code besides.  Correct means:
one connect loop that never falls silent, dial and login windows hold, nothing opens after
`disconnect`, the channel comes back.

**Device list** (`lib/device-manager.ts`, `device-manager/*`) with the **cache** (`lib/sku-cache.ts`).
State: the map merged from LAN, Cloud, App API, groups and cache; miss counters; one file per
device.  Hard: lists fail, are empty or partial; writes end later and may fail; the process stops.
Correct means: no device is dropped on one answer, what the memory believes written is on disk, a
light the account has is known to the next start.

**Reachability** (`device-manager/lookups.ts`, `handlers/online-sync.ts`) and the **status question**
(`device-manager.ts: requestStaleStatuses`).  State: five stamps of life that age, the marker, the
rollup, the last question.  Correct means: no green without a sign of life, no grey for a device that
spoke, a failed command is asked about once and in time.

**Library loader** (`device-manager/library-loader.ts`).  State: fetches shared by model, what was
confirmed and when.  Correct means: a call that never ran does not stand for "nothing there", what was
left out for want of a token is asked when there is one.

**State tree** (`lib/state-manager.ts`, `lib/capability-mapper.ts`).  State: a chain of builds per
device, the objects, the remembered values.  Hard: a sweep takes a datapoint with its recording.
Correct means: nothing is swept that may still be there, what is left fits the device, memory and
database agree.

**State changes, confirmation, group fan-out** (`handlers/state-change-router.ts`,
`lib/confirmation.ts`, `lib/group-fanout.ts`).  Correct means: a value is acknowledged when its command
was received or the device reports it, one mode is shown, a group is confirmed when its members are, a
pair of values is one the appliance declares.

**Segments** (`device-manager.ts`, `handlers/wizard-handler.ts`, `lib/segment-wizard.ts`) and **local
snapshots** (`lib/local-snapshots.ts`).  State: count, manual list and segment channels; one wizard
session; the snapshot list in memory and on the device object.  Correct means: tree and list agree, no
segment is given up on a push that shows it, the wizard's lock is released, a start reads the last list.

**Identity and migrations** (`lib/device-id*.ts`, `lib/device-move.ts`, `lib/native-key-migration.ts`).
State: objects, values, aliases and settings that are rewritten once.  Hard: a crash between any two
calls.  Correct means: recordings survive, trees stay apart, the adapter runs on the user's choice.

**Saved login** (`handlers/cloud-creds-handler.ts`, `lib/atomic-file.ts`).  State: the account's session in a file, two older
stores of it, the mark of the last spent verification code.  Hard: writes that fail, break off or land late, and the
end of the process between a write and a deletion.  Correct means: a session is used for its own account, is not lost and
spares a login; a spent code is not sent again.

**Lifecycle** (`main.ts`, `handlers/connection-state.ts`).  State: the phase of the start, timers,
clients, flags of the ready check.  Correct means: "ready" is said once and truly, nothing starts
behind `onUnload`, an older value never lands on a newer report.

**Report jobs** (`diagnostics/report-jobs.ts`) and the card that polls for them
(`src/src-admin/src/diagnosticsApi.ts`).  Correct means: one report a device at a time, handed to the
right card, never dropped under one that asks, none finished behind the stop.

### How they interact

    admin page ──messages──> SegmentWizard, ReportJobs, login probe
    ioBroker states ──> state-change-router ──> CommandRouter ──┬─> LAN client ──> gate ──> UDP
                            (group-fanout)                      └─> RateLimiter ──> Cloud client
    LibraryLoad, state reads, App API ────────────────────────────> RateLimiter       │
    every HTTPS request (Cloud, App API, login) ──────────────────> gate: hold, windows <┘
    outcome of every Cloud call ──contact hook──> cloud-retry-handler ──> info.cloudConnected
    account login ──> bearer ──> App API, libraries;  App API 401 ──callback──> silent refresh
    lists, LAN replies, cache ──> device list ──> builds of the state tree ──> objects, cache files
    reports of devices (LAN status, MQTT, event channel) ──> stamps of life, states, confirmation
    onUnload ──> stop / dispose / disconnect of each part, while answers are still under way

Two kinds of coupling matter most: **shared windows** (limiter and gate below all callers; the login
window of three paths) and **callbacks into shared fields** (the contact hook, the 401 callback, the
phase callbacks that queue builds).  The modules below model both.

The remaining parts - device catalog, protocol frames, problem texts, most of the admin page, build
tools - are listed with their reasons in section 6 and in `PROJECT.json`.

## 2. Modules and how they map to the code

A handler of the code is one action up to its next `await`, timer or socket event; what follows
the wait is an action of its own, and between the two any other handler may run.  Data that no
property tells apart (payloads, names, texts) is left out.  History variables, which the code does
not have, are marked as such where they are declared.  A definition `Mut...`, or another one that stands
just before the definition it resembles, is a version of it with a plausible bug: `PROJECT.json` names it as the
mutant a property has to catch.

| module | models | over | checked in |
| --- | --- | --- | --- |
| `Allowance` | what one counted allowance promises (abstract) | - | `RateLimiter` refines it |
| `RateLimiter` | `lib/rate-limiter.ts`, `lib/call-booking.ts` | - | `MCRateLimiter`, `CommandSend` |
| `CommandSend` | `sendBudgeted`, `sendOnce` of `lib/command-router.ts` | `RateLimiter` (INSTANCE) | `MCCommandSend` |
| `CallGate` | the windows of `lib/call-gate.ts` | - | `HttpGate`, `LanPacing` |
| `HttpGate` | `admit`, `https`, `hold` of `lib/call-gate.ts` | `CallGate` (EXTENDS) | `MCHttpGate` |
| `LanPacing` | the sender of `lib/govee-lan-client.ts` | `CallGate` (INSTANCE) | `MCLanPacing` |
| `AccountMqtt` | `govee-mqtt-client.ts` on `reconnecting-mqtt-client.ts`, the probe | - | itself |
| `Startup` | `main.ts` from `onReady` to `onUnload` | - | itself |
| `CloudConnection` | `cloud-retry-handler.ts`, `cloud-retry.ts`, `cloud-outage.ts`, their callers | - | `MCCloud` |
| `EventChannel` | `govee-openapi-mqtt-client.ts` on `reconnecting-mqtt-client.ts` | - | `MCCloud` |
| `LibraryLoad` | `library-loader.ts`, its jobs in `device-manager.ts` | - | `MCCloud` |
| `Reachability` | `lookups.ts`, the stamps of `cloud-merge.ts` and `device-manager.ts`, the round | - | `MCCloud` |
| `StatusAsk` | `requestStaleStatuses` and what leads to it | - | `MCCloud` |
| `DeviceList` | `device-manager.ts`, `reconciler.ts`, `cloud-merge.ts`, `sku-cache.ts` | `NoValue` | `MCDevices` |
| `LanDiscovery` | the search of `govee-lan-client.ts`, the binding in `device-manager.ts` | `NoValue` | `MCDevices` |
| `IdMove` | `device-id*.ts`, `device-move.ts`, `enum-carry.ts` | `NoValue` | `MCDevices` |
| `KeyMigration` | `native-key-migration.ts`, its use in `main.ts` | `NoValue` | `MCDevices` |
| `SavedLogin` | `cloud-creds-handler.ts`, `account-handler.ts`, `atomic-file.ts`, the callers in `main.ts` and `message-router.ts` | `NoValue` | `MCDevices` |
| `StateTree` | builds and sweeps of `state-manager.ts`, what `capability-mapper.ts` declares | - | `MCTrees` |
| `ShownValues` | markers, groups, rollup, read-only memory of `state-manager.ts`, `device-reaper.ts` | `NoValue` | `MCTrees` |
| `Appliance` | the combined commands: `state-change-router.ts`, `capability-mapper.ts`, `cloud-state-loader.ts` | `NoValue` | `MCTrees` |
| `StateChange` | `state-change-router.ts`, `command-router.ts`, `confirmation.ts`, `device-events.ts` | - | `MCWrites` |
| `GroupFanout` | `group-fanout.ts`, `group-fanout-handler.ts` | - | `MCWrites` |
| `ReportJobs` | `report-jobs.ts`, `diagnosticsApi.ts` | - | `MCWrites` |
| `SegmentTree` | the count, the manual list and `createSegmentStates` | - | `MCSegments` |
| `SegmentWizard` | `segment-wizard.ts`, `wizard-handler.ts` | - | `MCSegments` |
| `SnapshotStore` | `local-snapshots.ts`, `snapshot-handler.ts` | - | `MCSegments` |
| `NoValue` | the constant that stands for `undefined` | - | - |
| `DevicesProofs` | theorems about `DeviceList`, `LanDiscovery`, `KeyMigration`, `SavedLogin`, `IdMove` | TLAPS | - |
| `LifecycleProofs` | theorems about `AccountMqtt`, `Startup` | TLAPS | - |
| `TreesProofs` | theorems about `ShownValues`, `Appliance`, `SnapshotStore`, `StateTree` | TLAPS | - |
| `WritesProofs` | theorems about `StateChange`, `GroupFanout`, `ReportJobs`, `LanPacing`, `CommandSend` | the proofs of the gate and of the limiter (INSTANCE), TLAPS | - |
| `CloudProofs` | theorems about `HttpGate`, `CloudConnection`, `EventChannel`, `LibraryLoad`, `Reachability`, `StatusAsk` | `CallGateProofs`, TLAPS | - |
| `SegmentProofs` | theorems about `SegmentTree`, `SegmentWizard` | TLAPS | - |
| `RateLimiterProofs`, `CallGateProofs` | theorems about the module they are named after | TLAPS | - |
| `MC*` | the instance a configuration checks | - | - |

**RateLimiter.**  A call is a constant with its lane, priority, device allowance and entry point.
`Submit` is what `tryExecute` and `executeTracked` share: the device's allowance, then the lane,
then `enqueue` with its four outcomes.  `Settle` is the return of `runSpent`: refund if the
booking was sealed as never sent.  `ProcessTick`, `ResetMinuteWindow`, `ResetDaily` and `Stop` are
the timers and `stop`.  `processQueue` is one synchronous loop; the model runs it one turn at a
time (`WalkTurn`, position `walk`) and `Idle` keeps every other action out until it ends, so the
turns are readable and the loop is atomic as in the code.  `minuteEpoch` and `dayEpoch` are only
ever compared for equality with the epoch of a booking; `thisMinute` and `thisDay` are the sets of
calls whose booking carries the current epoch, which says the same without counters that grow.
Token buckets hold whole tokens and gain one at any moment (`RefillDevice`, `RefillAccount`).

**Allowance.**  At most `Limit` calls are charged in a window; only an undelivered call is given
back; a new window forgets all.  The day, every minute lane and every appliance's day are
instances of it, under the mapping `charged <- thisDay` and so on (`ImplementsAllowances`).

**CommandSend.**  `Send` draws the sequence number and makes the first attempt, `Continue` is the
`catch`, `Resume` what follows the pause.  Every attempt is a call of the limiter below, whose own
actions run between them (`LimiterStep`).  `inWindow` is the test on `COMMAND_RETRY_WINDOW_MS`.

**CallGate.**  `TryAdmit(h, S)` lets a set of calls through one after the other or, with `S = {}`,
only prunes; a call leaves its window when the window is over, as `window()` does it.  `WaitMs` is
the longest of the waits of the full limits, with the `+ 1` of the code.  Limits count per host or
per account (`PerHost`).

**HttpGate.**  `Request` looks at the hold and then at the windows; `Wake` is one turn of the loop of
`admit` after a delay; `RateLimited` is a 429 and `Hold` keeps the later of two ends.

**LanPacing.**  `SendCommand` has the three outcomes of the code: behind others, at once, first to
wait.  `Release` is the timer of one light.  `Stop` drops what waits.

**AccountMqtt.**  `Connect` is the timer's callback up to the first wait; `ConnectAccepted`,
`ConnectRejected`, `KeyArrived` and `KeyFailed` continue it.  `RefreshBearer` is
`refreshBearerSilently`, reached from its timer and from `requestBearerRefresh`.  The client's
events are `Connack`, `Subscribed`, `BrokerClosed`.  Time is relative: timers, and each login and
dial in its window, are the ticks they have left, the oldest first.  The kinds of answers are those the code tells apart; an HTTP error status
and no answer are not noted in the login window, as in the code.

**CloudConnection.**  Each report is synchronous, so the fields are one record and each function of
the source is an operator from record to record; handlers compose them in the order of the calls.
A list call is asked in one action and answered in another; a timeout settles it, and the answer
that comes later reaches only the contact hook (`CloudCall`).  Answers continue after `Unload`.

**EventChannel.**  `Connect` is the first call or the timer's callback; `Connack`, `SubscribeAnswer` and
`Close` are mqtt.js's events; a forced close ends the socket and lets `close` arm the timer.  The dial
window is relative as in `AccountMqtt`.

**LibraryLoad.**  A run (`LoadRun`) starts after a list, owns the shared fetches of a model, and queues a job
for each light; job and fetch are refused, fail or are answered, and every `await` of the loader is a
step.  `BearerStep` is the follow-up once a token came.

**Reachability.**  Stamps are ages in units of ten minutes, expired at `TTL`.  Each source - LAN, push,
account list, cloud read, gateway - stamps what the code lets it stamp; `Round` is the 20-second
resolution with its writes.

**StatusAsk.**  A failure notes a request, a timer sends it seconds later over the broker as it is then;
`recent` and `after` are the two comparisons the code makes of its stamps.  An appliance or a sensor (`budgeted`) is passed
over by the cloud read.

**DeviceList.**  Three stores: the map `known`, the cache file with what is believed written, and the tree.
A list's answer is any set of devices; `runAccountReconcile` counts misses and evicts; file writes and
tree deletions are steps of their own, and the process may stop at each.

**LanDiscovery.**  Datagrams in flight are a set (lost, late, in any order), the router moves lights and may hand an address
on to another light.  `ScanReply` is `handleScanResponse` with the record and the binding - by id, else by model to the first
device that has no address yet -, `StatusReply` reads a datagram by the address it came from.  Two history variables say
which light gave a device its address (`spokeFor`) and which lights ever had an address (`had`).  The two binds, the scan and `CloseClient` interleave.

**IdMove.**  One step per call to the object database; a crash or a failing call may follow each.  Trees move in the
order of the device's id and, of one device, the old id before the new one, as their names sort.  Where the code takes the
first of a device's trees in the listing, the model takes any fixed one (`FirstListed`): the order is the database's.
**KeyMigration.**  Read, merge, write and the restart a write to the own instance object causes.
**SavedLogin.**  The three places a session was kept in over the versions, the mark of the spent code, and the session
the client holds.  `CarryMeta`, `DropMeta`, `OpenAccount`, `CarryState`, `DropState`, `ConnectAccount` are the steps of the
start between its waits; the writes of a running client (`persisting`, `marking`) land later or not at all.  The
login paths are those of `AccountMqtt` without timers, windows and caps, whose order they leave open.

**StateTree.**  Phases queue builds in `chain`; a build reads what the device declares when its turn comes,
writes and sweeps.  A library run ends in `finishLibraryRun`, which builds, keeps the light as it was, or (`LibraryCancelled`)
leaves what changed to the next build; the refresh button merges the list of every light (`RefreshMerges`) and loads the
libraries of its own (`RefreshLoads`).  **ShownValues.**  A round is a sequence of waits over devices, groups and rollup; a delete of
a tree runs beside it.  `value` is the database, `remembered` the memory compared against.
**Appliance.**  `Shapes` are the kinds of a declared STRUCT; a write reads the sibling from the tree, a
cloud read writes both halves back.  Temperatures are tenths of a degree; the rounding is the code's.

**StateChange.**  A handler of `onStateChange` with a program counter; `Via` is the channel chosen at sending;
resets of the other dropdowns are jobs of their own because the code does not wait for them.
**GroupFanout.**  `fanOut` member by member.  **ReportJobs.**  The card's `exportReport` and the adapter's
`handle`; a question and its answer are two steps, either of which the transport loses.

**SegmentTree.**  A push is a sequence of slots of four classes, parsed as in `lookups.ts`; a build writes the
channels one by one.  **SegmentWizard.**  A message is a handler with a program counter.  Over the LAN a command
is sent without a wait, over the Cloud it is awaited (`OverLan`).  **SnapshotStore.**  Writes of the object read it
first, are chained and may fail (`Unwritten`); the start carries two older stores over, and each file is written over and
removed (`CarryWrite`, `CarryRemove`), dropped (`CarryDrops`) or left for the next start (`CarryFails`).

**Startup.**  A label of `at` is a wait of `onReady`; a step is everything up to the next.  The database (marker,
value, settings) outlives the process.

### Compositions

`CommandSend` composes the router with the limiter, `HttpGate` and `LanPacing` their clients with the gate:
there the parts share state and steps interleave.  `MCCloud`, `MCDevices`, `MCTrees`, `MCWrites` and
`MCSegments` put modules that share **no** variable into one run: a variable `part` chooses the module whose
actions run, the others rest in one of their initial states.  Nothing is lost by it - steps of parts
without common state commute, and no property spans two of them - and the fairness of a module is
restated for the behaviours in which it runs.

## 3. Runs, bounds, fairness

| run | module, configuration | what it asks |
| --- | --- | --- |
| `limiter` | `MCRateLimiter`, `RateLimiter.cfg` | limits, exact counters, order, eviction, no lost caller, refinement of `Allowance` |
| `limiter_liveness` | `MCRateLimiter`, `RateLimiterLiveness.cfg` | every tracked call is answered |
| `commands` | `MCCommandSend`, `CommandSend.cfg` | received at most once, no retry at once after a newer write, every write ends |
| `https` | `MCHttpGate`, `HttpGate.cfg` | windows of both kinds, the wait named, holds, progress of waiters |
| `pacing` | `MCLanPacing`, `LanPacing.cfg` | order, the light's window, every datagram leaves |
| `account` | `AccountMqtt`, `AccountMqtt.cfg` | one loop, nothing after stop, windows, the channel comes back |
| `cloud` | `MCCloud`, `Cloud.cfg` | retries and outages; the event channel; libraries; reachability; the status question |
| `devices` | `MCDevices`, `Devices.cfg` | evictions and cache; addresses on the LAN; the move to new ids; settings; the saved login |
| `trees` | `MCTrees`, `Trees.cfg` | what builds leave; what is shown of reachability; pairs of values of an appliance |
| `writes` | `MCWrites`, `Writes.cfg` | confirmation of a light's datapoints; of a group; report jobs |
| `segments` | `MCSegments`, `Segments.cfg` | segment tree; the wizard's lock; local snapshots |
| `startup` | `Startup`, `Startup.cfg` | ready, reports during the start, stop and crash at any wait |

### Bounds and why they are enough

*limiter*: two commands to a light and three calls of an appliance - a state read and two refreshes -, every limit 1, except
2 a day, a queue of 2: the account's day is spent by calls of both devices, the appliance's by its own.  Every limit can be hit while calls wait for each of
the others, the queue overflows with more and less urgent newcomers, and each call may settle before
or after each reset.  The commands differ in nothing but
their names, nor do the two refreshes, and both pairs are permuted.  Account and App API lanes are two more
counters of the same kind and are exercised in `limiter_liveness` (`lib1`); the proofs cover any
number of everything.

*commands*: two writes, two attempts each, so that a write fails, pauses, is overtaken and resumes;
bursts of 1 and a day of 2 make attempts queue and be refused.

*https*: four requests to two hosts, asked for at time 0, 1 per 2 ticks per host and 2 per 4 ticks per account, so that
the two limits are full with different waits; timers up to one tick late; holds of 1 and 3.
`MaxTime` 10 lets every waiter out: `EveryWaiterGoesOut` would fail if the clock ended early.
*pacing*: five datagrams to one light and one to another, 2 per 2 ticks, so that a release finds more
waiting than fit and arms its timer again; `MaxTime` 9 lets every datagram out.

*account*: every cap and window 2.  With three refusals and windows of 3 the safety
properties hold as well (1,005,092 states).

*cloud*: the loop has no bound but the count of failures in a row, kept up to 2 (that is all a confirmation asks
for); the event channel refuses up to 3 keys with a window of 3 ticks, over 5 troubles; two lights of one model, one run of
the loader and one turn of every light's token, where the scene list of only one light fails and is asked for again
(`ScenesOfOthersCome`); ages up to 3 units, up to 5 reports and 3 questions.

*devices*: five homes of two devices - a light, which the LAN reaches or not, and a sensor, a group or a second light; a sensor
and a group.  The third answer evicts: one that names the device and two of its own source that leave it out.  Three homes
have three answers, in one of them over two sessions, so that a device is also evicted by what a start remembers.  On
the LAN three houses: two listed lights of one model where the chosen network is gone from the host, which binds like no choice,
and the router hands addresses on (two moves: one away from an address, one to it); one listed light and an unlisted one of
its model, which is taken for it until it answers itself; and one light on a network the host has.  The first light is at the
first address (`Placed`: addresses are names); two networks of two addresses, two datagrams in flight and a cap of 2, so
that a light moves while the record is full.  Three starts let a move be interrupted in its continuation.  Four
edits let the user change a setting before, during and after its migration.  Two accounts, one code, two sessions and two
starts let a start carry a store over and the next one read it, with a login, a refresh and a test in between; with two
codes the properties of the login hold as well (1,385,893 states up to the names of accounts and codes).

*trees*: two builds of a lamp and of its group with 4 pieces of news (`news`: an address, a list, a library, the members);
two devices, of which one is a light, one restart and 4 pieces of news (one comes, goes, answers or falls silent); twelve
kinds of appliance: levels that belong to one mode, to both or to all, a range, a range of the bare field, no level, heaters
in °F and °C with and without auto stop, whose range stands on the field `temperature` or elsewhere; every degree of the
largest range is written and read back.

*writes*: two writes to any of four datapoints with a report between them, of a light that starts with LAN and Cloud, the
Cloud or nothing (`Channels`; the broker and the LAN come on the way); two members, with music and the scene or with neither
(`Members`), two fan-outs and one drop of the broker; two equal cards, one of which asks about the first device, two devices,
a restart, and one tick of patience and of keeping, so that reports run out of time.  *segments*: three
strips (described in `MCSegments`), two pushes of any frames and two edits, three of them together (`ThreeInAll`), and one build at a
time where the capability names more segments than the protocol has (`OneByOne`); three wizard messages, one session that started
over the LAN; two names, two saves, two starts, two writes under way (`TwoWrites`), and a list or none in each old store.  With four messages and two LAN sessions the wizard's properties
hold as well (1,177,721 states).

*startup*: two runs of the process, a light of the LAN and a sensor of the Cloud, two words a device can say of itself, every set of configured
channels, one report in a run; a limiter that holds a state read back (`setting.busy`) only together with both
channels and a cache.

Time is in ticks; only the order of the ends of windows, delays and holds matters, not their length.

`CHECK_DEADLOCK FALSE` stands where the system really may stop: the calls, requests, datagrams, writes or
messages of the instance are used up, the clock has reached its bound, or the adapter is unloaded.

Switches among the constants name an assumption about the environment; section 5 says what happens without
it.  `WritesFail`, `ReadsFail`, `EditsEarly`, `SwitchesEarly`, `Returns`: a write of a shown value fails, a read of the settings
fails, the user edits before the migration ran, the user changes the account while a start still reads a session that does not
name its own, a deleted device comes back during its deletion; a mishap of `IdMove` is either a collision of ids or failing
calls.

### Fairness

* Timers fire and time passes: weak fairness of `Tick`, `Release`, `Wake`, `RetryFires`, `IdleFires`,
  `Connect`, `Round`, `EventTick`, `TimerFires`.  Node keeps intervals and timeouts until they are cleared, and
  clearing disables the action.
* The timers and settling of the limiter are strongly fair: `Idle` models a synchronous loop and
  disables them for its turns; in the code they are merely run after it.
* Every request ends, one way or the other, by its timeout: fairness is on the disjunction of outcomes
  (`Settle`, `Captured \/ CaptureFails`, `PhaseStep`, `Fetching`, `JobStep`), never on a good one.
* Something that is asked for again and again succeeds some day, as strong fairness: the device list
  (`ListIsLoaded`) and login, key, CONNACK and subscription (`GetsThrough`).  Both are promises about
  the adapter - it does keep asking - under a Cloud that is not down for ever.  `EventsArrive` and
  `FailureIsAskedAbout` state such a condition in the property instead.
* `GetsThrough` also assumes `OthersCalmDown`: the user stops pressing "Test login" and the App API
  stops turning down every new bearer.  Without it the shared window of logins may always be used up
  by somebody else, which the code allows by design.
* No fairness on answers of a device, `RateLimited`, `Stop`, `Unload`, `Disconnect`, `Dispose`, messages, users,
  crashes or restarts.
* `MaxLateness` bounds how late a timer may be; the event loop being busy is the cause.

### What each property says

A run checks one or two properties of each component; most are the conjunction of named parts, each of
which is stated and explained on its own in the module, above the conjunction:

| property | its parts |
| --- | --- |
| `RateLimiter!BudgetsAddUp` | types, `BookingsExact` |
| `RateLimiter!LanesAreKept` | `QueueKeepsLaneOrder`, `EvictsOnlyOutranked` |
| `CommandSend!SentOnceInOrder` | types, `ReceivedAtMostOnce`, `NoRetryAfterNew` |
| `HttpGate!HostsAreSpared` | types, `WindowsAreSpared`, `WaitIsEnough`, `HoldNeverShortened` |
| `LanPacing!DatagramsLeaveInOrder` | types, `LightsAreSpared`, `InOrderNothingDropped` |
| `AccountMqtt!BudgetsAreKept` | types, `DialsAreSpared`, `LoginsBounded` |
| `CloudConnection!CloudIsTracked` | types, `FailedListIsRetried`, `ShownIsReachable`, `OutageIsReal`, `NothingAskedAfterUnload` |
| `EventChannel!EventsFlow` | types, `OneWayToConnect`, `ShownIsOpen`, `ConnectsAreSpared` |
| `LibraryLoad!LibrariesAreAsked` | types, `EmptyWasSaid`, `ScenesWereSeen` |
| `Reachability!OnlineIsEvidence` | types, `GreenIsProven`, `OfflineStands`, `VoiceIsHeard` |
| `StatusAsk!FailureIsFollowedUp` | types, `NotedIsAsked`, `AskedWithinInterval` |
| `MCCloud!WhatIsOwedComes` | `ListIsLoaded`, `EventsArrive`, `TokenIsUsed`, `SilenceIsShown`, `FailureIsAskedAbout` |
| `DeviceList!CacheHoldsTheList` (and `EvictionIsDebounced`) | types, `SkippedSaveIsOnDisk`, `ListedLightIsCached` |
| `LanDiscovery!LightsAreMet` | types, `MeetsTheOneThatAnswered`, `GuessIsForced`, `SeenIsBounded`, `StoppedIsSilent`, `SearchStaysOnChosen`, `AnswererIsRead`, `OwnAnswerStays` |
| `IdMove!MoveKeepsAll` | types, `RecordingSurvives`, `TreesAreApart`, `AliasesFollow` |
| `KeyMigration!ChoiceSurvives` | types, `RunsOnTheChoice`, `RestartsOnce` |
| `SavedLogin!LoginIsKept` | types, `SessionIsOwn`, `SessionSparesLogin`, `SessionSurvives`, `SpentStaysSilent` |
| `StateTree!TreeConverges` | types, `BuildsConverge`, `SliderNeedsAnswer`, `ForeignStays` |
| `ShownValues!ShownIsTrue` | types, `MemoryIsWritten`, `RollupCountsMarkers`, `MarkersTellEvidence`, `WordOutlivesSilence` |
| `Appliance!PairsFit` | types, `SentIsDeclared`, `WrittenIsSent`; `OnlyListedShown`, `ReadShowsDevice`, `NoDrift` |
| `StateChange!ConfirmedIsTrue` | types, `ConfirmedLeft`, `ConfirmedByReport`, `OneModeShown` |
| `GroupFanout!GroupIsTold` | types, `GroupConfirmed`, `NobodyIsLeftUntold` |
| `ReportJobs!ReportsAreHonest` | types, `OpenJobIsMade`, `GoneHasReason`, `OwnDeviceReported`, `NothingReadyBehindStop` |
| `SegmentTree!SegmentsAgree` | types, `TreeMatchesDevice`, `EchoLandsInTree`, `UnsavedWhileBuilding`, `ShrinkNeedsEvidence` |
| `SegmentWizard!SessionIsWatched` (and `LockIsReleased`) | types, `OpenSessionIsWatched`, `TimerNeedsSession` |
| `SnapshotStore!SnapshotsAreKept` | types, `StartReadsTheLast`, `StoredOnceSettled`, `OfferedIsRestored` |
| `Startup!StartIsOrdered` (and `ReadyIsSaid`) | types, `ReadyMeansBuilt`, `EarlyWritesWait`, `DeviceWordOutlivesStart`, `NoOldClaim`, `NothingStartsBehindStop`, `StoppedIsGrey` |

The ones a reader should look at first:
`BookingsExact` (a late refund never frees a slot of the next window), `NoLostCaller`,
`EvictsOnlyOutranked`, `ReceivedAtMostOnce`, `WaitIsEnough`, `FailedListIsRetried`, `OneConnectLoop`,
`LoginsBounded`, `EventsArrive`, `EmptyWasSaid`, `GreenIsProven`, `EvictionIsDebounced`, `MeetsTheOneThatAnswered`,
`RecordingSurvives`, `BuildsConverge`, `MemoryIsWritten`, `SentIsDeclared`, `ConfirmedByReport`, `GroupConfirmed`,
`TreeMatchesDevice`, `StartReadsTheLast`, `DeviceWordOutlivesStart`, `NothingStartsBehindStop`, `GoneHasReason`.

Four of them name what they leave out, because the code does not keep it and section 5 refutes the stronger form:
`SentOnceInOrder` speaks of writes that leave at once; `MeetsTheOneThatAnswered` of the light that answered for a device, not of
its own; `ShrinkNeedsEvidence` lets a report that looks complete take the segments it hid; `StartReadsTheLast` excepts a
list whose last write failed and one that stands beside an old file.

`LoginsBounded` deserves a word: the three paths look at the login window before they wait for Govee
and count after it.  The account can therefore see up to two logins more than
`MQTT_MAX_LOGINS_PER_WINDOW`; the property shows it is never more than that.

Every part has a mutant of its own, listed under the property it belongs to; with it TLC finds the property violated.

Checked outside the runs: the liveness property `StateChange!TreeTellsTheTruth` (once nobody writes any
more, a light with a LAN path is shown as it is) with one write, under `ChangeSpec`.

## 4. Proofs

TLAPS checks the following for **every** value of the constants: any number of devices, lights, calls, cards,
accounts, starts, writes, answers and any limits.

| theorem | states | hypotheses | inductive invariant |
| --- | --- | --- | --- |
| `BookingsStayExact`, `LimitsHold`, `CallersAreNotLost` (`RateLimiterProofs`) | `BudgetsAddUp`, `WithinLimits`, `NoLostCaller` | | `IInv` |
| `LanesStayInOrder` | `LanesAreKept` | | `IInv`, `LaneInv` |
| `AllowancesImplemented` | `ImplementsAllowances`, the refinement of `Allowance` | | `IInv` |
| `GateKeepsWindows` (`CallGateProofs`) | `WindowsKept` | | `GateInv` |
| `HostsStaySpared` (`CloudProofs`) | `HostsAreSpared` | | `Inv`: `OutIsCounted`, `RequestsTyped`, `GateInv` |
| `CloudIsTold` | `CloudIsTracked` | | `CloudInv` |
| `EventsStayAlive` | `EventsFlow` | | `EventInv` |
| `OnlineIsGrounded` | `OnlineIsEvidence` | | `ReachInv` |
| `FailuresAreAskedAbout` | `FailureIsFollowedUp` | | `AskInv` |
| `RememberedWasSaid` | `LibrariesAreAsked` | | `LoadInv` |
| `OneLoop`, `StopIsFinal` (`LifecycleProofs`) | `OneConnectLoop`, `NoSocketAfterStop` | | `LoopInv` |
| `BudgetsKept` | `BudgetsAreKept` | | `BudgetInv` |
| `StartStaysOrdered` | `StartIsOrdered` | | `StartInv` |
| `CacheIsKept`, `EvictionsAreDebounced` (`DevicesProofs`) | `CacheHoldsTheList`, `EvictionIsDebounced` | | `ListInv` |
| `SearchIsBounded` | `LanTypeOK`, `SeenIsBounded`, `StoppedIsSilent`, `SearchStaysOnChosen` | | `SearchInv` |
| `LightsMeet` | `LightsAreMet` | | `SearchInv`, `MeetInv` |
| `OneRestart` | `RestartsOnce` | | `KeysInv` |
| `ChoiceStays` | `ChoiceSurvives` | `~EditsEarly`, `~ReadsFail` | `ChoiceInv` |
| `LoginStaysKept` | `LoginIsKept` | `~SwitchesEarly` | `LoginInv` |
| `MoveKeepsAllHolds` | `MoveKeepsAll` | no mishap is a collision *and* failing calls | `MoveInv` |
| `DatagramsStayInOrder` (`WritesProofs`) | `DatagramsLeaveInOrder` | | `WireInv`, `TimersTyped`, `OrderInv` |
| `SentOnce` | `SentOnceInOrder` | | `SendInv`, with the limiter's `IInv` |
| `ConfirmedStaysTrue` | `ConfirmedIsTrue` | | `ChangeInv` |
| `GroupIsAlwaysTold` | `GroupIsTold` | | `GroupInv` |
| `ReportsStayHonest` | `ReportsAreHonest` | | `ReportInv` |
| `ShownStaysTrue` (`TreesProofs`) | `ShownIsTrue` | `~WritesFail`, `~Returns` | `ShownInv` |
| `PairsStayFit` | `PairsFit` | | `PairInv` |
| `SnapshotsStayKept` | `SnapshotsAreKept` | | `StoreInv` |
| `TreesConverge` | `TreeConverges` | | `TreeInv` |
| `TreeFollowsDevice` (`SegmentProofs`) | `SegTypeOK`, `TreeMatchesDevice`, `EchoLandsInTree`, `UnsavedWhileBuilding` | | `SegInv` |
| `SegmentsHold` | `SegmentsAgree` | | `SegInv` |
| `WizardIsWatched` | `SessionIsWatched` | | `WizardInv` |

Every safety property a run checks is stated by one of these.

### What the proofs assume

The constants of each module carry one named assumption, evaluated by TLC in the runs.  They say
what the values are, not how they behave: sets of calls, devices and lights are finite, each call has a lane and each request a
host, limits are positive numbers, bounds and waits are numbers, and `None` - JavaScript's `undefined` - is none of the
values it stands beside (`CallAssumption`, `LimitAssumption`, `GateAssumption`, `HttpAssumption`, `PacingAssumption`,
`AccountAssumption`, `StartupAssumption`, `TreeAssumption`, `DeviceBounds`, `NothingIsNoEntry`, `DiscoveryAssumption`, `KeysAssumption`, `LoginAssumption`,
`AbsentAssumption`, `MoveAssumption`, `ChangeAssumption`, `GroupAssumption`, `ReportAssumption`, `CommandAssumption`, `SendLimits`,
`ReachAssumption`, `EventAssumption`, `AskAssumption`, `LoadAssumption`, `WizardAssumption`); a gate has finitely many limits.  Five say more:
`DeviceKinds`, that a device is of one kind; `ApplianceAssumption`, that a declared range has its ends in order and a declared mode a
number, as the cases of `Shapes` do; `ShownAssumption`, that the datapoints of a device and of the summary
are different ones; `SnapshotAssumption`, that an old store names a snapshot once, because its writer replaced by name;
`SegmentAssumption`, that a strip is no longer than the protocol addresses and a packet carries three slots or four.

The hypotheses in the third column are stated by the theorem and exclude what the program does not survive, or
what a caller does not do; the runs make the same choice, and section 5 shows for each what happens without it.

### The arguments

**RateLimiter.**  `WithinLimits` alone is not inductive: a counter may say less than the bookings it
stands for.  `Books` adds that every counter *is* the number of standing bookings and that it is within
its limit; then `Spend` (guarded by `CanMakeCall`) and `Refund` (guarded by membership of the
window) preserve it, by counting lemmas on finite sets.  `NoLostCaller` needs `Flow`: exactly the
queued calls are in the queue, once each, the loop's position lies inside it, a pending promise
belongs to a tracked call that is queued or runs, and `BookedCallsAreOut`: a booking stands only for a call
that runs or has run.  `InsertFacts`, `RemoveFacts` and `FrontFacts` say what the queue's
operations do to a sequence.  `IInv == Books /\ Flow`.  `LaneInv` adds that the queue is sorted by urgency
(`PlaceSplits`: an insertion keeps it so) and that what the loop has passed is blocked; the order within a lane follows.
The refinement takes each action apart by the one call it books, settles or gives back: `charged`, `delivered` and the window of an
allowance change as one step of it, or not at all.

**CallGate.**  The gate forgets calls that left their window, so `WindowsKept` - which looks at all calls
ever made and at every window, wherever it is laid - does not follow from what the gate remembers
now.  `Remembers` relates the two: for the window that ends now, what is remembered is what happened.
`TickKeeps` and `AdmitKeeps` carry the past windows along.  `HttpGate` EXTENDS the gate and inherits
`GateInv`; what has to be shown is that nothing goes out that the gate has not counted
(`OutIsCounted`).  That the wait named is long enough (`WaitsAreEnough`) needs the call a full limit waits for: of at least
`maxOf` calls there is a `maxOf`-th from the end (`LastExists`), once it has left its window fewer than `maxOf` remain
(`RoomIsEnough`), and the gate waits for the longest of finitely many waits (`WaitIsLongest`); `Extremes` supplies greatest and
smallest members of finite sets.  `LanPacing` uses the gate as an instance; its own gate and the one proved
about are shown to take the same steps (`SameGate`), and what is on the wire was counted at the
time it was sent (`WireIsCounted`).  The order needs no gate: `asked = sent \o paced` for each light, which `stop`
cuts to a prefix, and nothing armed behind it (`OrderInv`).

**CommandSend.**  The limiter the router calls and the one proved about take the same steps, so `IInv` holds of it.  On top of it
`SendInv` says of each command that every attempt but its last was given back (`Placed`), hence not received, and that its
number is at most the latest of its datapoint (`Numbered`); a retry looks at both.

**CloudConnection.**  Every report passes through a few operators on one record, so each is shown to keep the record
consistent (`CloudFits`): a loop that is stopped or not needed has no timer armed, what is shown follows what is believed, a
confirmed outage has two failures.  The actions compose the operators, and an answer under way at unload meets a loop that is stopped.

**EventChannel.**  Socket and timer are the token here (`EventShape`); `Spaced` says that an armed reconnect fires no earlier than
the share of connects allows, which the wait computed at each close secures.

**Reachability.**  Two history variables date the newest sign of life and the last "offline".  `Rests` says that what is
known is never dated younger than what was heard; it survives time, because ages keep their order, and each source, because a stamp is
the source's own.  A replayed packet and a broker that calls the device gone are the two cases its parts leave out.

**StatusAsk.**  `Covered`: of a device that is unconfirmed and counts as asked, the question was put or is noted; `NotesOlder`:
what a noted question found before it was older than the failure, so a note that is dropped takes no question back.

**LibraryLoad.**  A job carries what it noted against itself.  `JobHolds`: where it noted nothing, what it passed was answered by
Govee for this light; a stamp is set from such a job, and what was said stays said.

**SegmentTree.**  While one build runs with none beside it, it has come as far as it says (`Serves`); a second one sets
`overlapped`, and then `TreeMatchesDevice` waits for the next build that is alone.  `ReachFacts` and `ResolveFacts` bound the
count.  That a push takes only what it hid (`ShrinkStep`) rests on how a push is read: one that looks complete and whose tail is
no guess reaches over every segment that is neither dark nor in a lost packet (`CompleteReaches`), and it is read with a
layout that finds each of them (`LayoutRead`), although a lost packet can make it take three slots for four or the reverse.

**SegmentWizard.**  The safety property is nearly inductive: `Counted` adds where each handler is and that the answers
counted are at most the handlers begun.

**AccountMqtt.**  The connect loop is a token: the armed timer, the `connect()` under way or the broker client
holds it.  `LoopInv` adds the type of `phase`.  Each handler of the loop hands the token on; refresh
and probe never touch it (`OnlyPhaseOf`).  For the windows `BudgetInv` says that a pending reconnect finds room when it fires
(`RoomIn`: the timer is at least the wait until the oldest dial that counts has left) and that noted logins and paths that
wait for Govee are together at most the cap plus two: that is the overshoot of `LoginsBounded`.

**Startup.**  Each label of `onReady` says what it has done (`StartInv`): clients run only in a start that went on and was
not stopped; what was said early has its tree built or nothing written yet; during the start the word that is kept
is the device's last one, behind it the word that is shown is, unless a held read can still come; behind the first
phases a marker is a claim of this run.

**DeviceList.**  A save is skipped when its payload equals what was last written, so a slot is honest when that is what the
file holds or will hold (`SlotIsHonest`).  Misses survive restarts in the file: `KnownWithin` and `CacheHolds` bound
every counter, in memory or stored, by what was really left out.  `ListedIsPlaced` needs
`JobsOutliveEviction`, the one way in which a light leaves the map while its job still runs.

**LanDiscovery.**  `SeenIsBounded` counts the identities of a finite set; `StoppedIsSilent` and `SearchStaysOnChosen`
follow the sockets through the two binds, wherever `CloseClient` falls.  `LightsMeet` carries `AddressesAreKnown`: whoever holds an
address - light, datagram or, through `spokeFor`, map - is among those it was ever given to, and without a router that hands
addresses on there is only one of them.  `GuessIsForced` keeps itself: a device that has an address keeps one, so the
others stay taken, and a reply of the device's own light replaces a guess.

**KeyMigration.**  A start that stands before its write holds the patch of what is stored now, and the write leaves nothing to
write (`PatchIsFresh`, `NothingLeft`).

**SavedLogin.**  Sessions carry the number of their issue.  `ClientHasNewest`: from the end of the carry-over on the client has
the newest session any store it may read holds for its account, unless the broker turned that down; `StoresAreOwn` and
`ClientIsOwn` follow each session's account through file, meta object, state and the refresh under way; `ToldIsMarked` says
that a code Govee is done with is marked, or its mark is on its way or was lost.

**IdMove.**  Per device, with its old tree and its new one: `OnDisk` is what the database holds at every moment of a
move - one of the two stands whole, a new tree without the mark stands beside a whole old one, two marked trees never
await each other - and this alone must survive the end of the process.  `Listed`, `InOrder` and `Ready` relate
it to the lists a start works through, `UnderWay` to the call the move has reached (`Route` where from and to,
`Copies` before, `Leaves` after the old tree may go).  `NothingFails` is the difference a failing call makes: only then may a
tree go back to its old id.  Each step concerns the trees of one device (`Untouched`, `OneMoves`); that the id handed out
is that device's own (`TargetIs`) is where colliding ids enter, and there the proof needs the order of the moves.

**StateChange.**  That at rest one mode is shown is not inductive; `ModesMeetAReset` is: while two are shown, a reset of
one of them is under way.  `JobHolds` says what a handler can still do at its place.  **GroupFanout.**  `FanHolds`: while
sending, each member counted is still to come, took the command or failed.  **ReportJobs.**  `JobsCounted` bounds what is ready
and being made by what was begun; `CardsServed`: the job of a waiting card is there unless the adapter stops.

**ShownValues.**  `TreesKnown` keeps map, trees, cache and the list of a cleanup in step; with it no deletion meets a device of
the map.  `MarkersShown` relates what a marker was resolved to to what it shows, and `RoundSoFar` says of a round with
nothing beside it what its waits have done.

**Appliance.**  A write that read a pair carries a command the appliance declares (`OpenFits`), and while nothing overtook it
that command still holds the other half as the device has it (`OpenSure`); a reachable device is what Govee remembers.
The level of a bare range and an unclamped temperature are among the commands, so `OpenFits` says of them what the code does.

**StateTree.**  `BuildsConverge` speaks of a light at rest, so the invariant has to say what each place of a build
still owes.  `FullAhead` - a build that has yet to look at what the light declares waits - excuses everything; without
one, the build that looked last is on its way (`OnItsWay`), or its result stands.  A change of what the light declares
appends such a build (`FullBehind`), or its light is in `unbuilt` and nothing is said of it until one is; an address found
changes the declaration by another owner's points only (`LanBehind`).  `SliderKnown` carries why a build may sweep the slider
from where it derived (`noSpeed`) to where it deletes.  That one build runs at a time is what keeps `QueueFits`.

**SnapshotStore.**  Writes read the object in the order they were asked, so the last one puts what memory holds (`WritesInOrder`,
`LastPuts`).  `NothingCutOff` says where the list the user made stands as long as nothing it hangs on was lost: in the old file
that is left - which then is the only one, and is on the object before it is removed -, else on the object while the adapter
starts and in memory while it runs.

### Only model-checked

* Liveness, which TLAPS cannot prove under fairness: `TrackedCallsSettle`, `EveryWriteEnds`, `EveryWaiterGoesOut`,
  `EveryDatagramLeaves`, `GetsThrough`, `WhatIsOwedComes` with its five parts, `LockIsReleased`, `ReadyIsSaid`.
* What needs ENABLED: that the system stops only where it may.
* The parse of a push and the resolved length are proved as far as `SegmentsAgree` needs them; no theorem says what they compute.

## 5. Where code and comments disagree

The definitions below state what a comment, a doc or a reader would expect; TLC finds each of them
violated by what the code does.  They stand in the modules, marked as refuted, and are in no run.  To see a
counterexample, put the name in place of the INVARIANTS and PROPERTIES of a configuration of the module
(those of `SavedLogin` but the first are steps: box them as `[][...]_loginVars`).  None is a
statement about how likely the case is: each needs an overlap or a failure, and the trace shows which.

| definition | expected | what the code does |
| --- | --- | --- |
| `CommandSend!NoOldAfterNew` (three writes, `DeviceBurst = 1`) | `lib/command-router.ts:205-207` "an old value is never delivered after a new one" | the sequence number is looked at after a failure; a write that waits in the limiter's queue is not looked at again |
| `HttpGate!HoldIsKept` | `lib/call-gate.ts:22` "no call goes out before" | the hold is looked at before the wait for a slot, not after it |
| `CloudConnection!ToldWhenStopped` | `lib/cloud-retry.ts:114-115` the user is told once | `:173`: the loop's own rejected retry ends the loop only |
| `CloudConnection!CacheStartWaits` | `handlers/cloud-retry-handler.ts:258-259` wait for the first accepted call | `:212`: an App API answer that ends an outage shows what the cache start believed |
| `CloudConnection!OfflineAfterUnload` | `main.ts:1485-1486` async paths bail before further setState | `cloud-retry-handler.ts:143` writes on an answer after unload |
| `SegmentWizard!FailedStartReleases` | `segment-wizard.ts:396-398` a failed start releases the session | the baseline is read before the `try` and before the timeout is armed |
| `SegmentWizard!RollsBack` (4 messages, `OverLan = {m1, m2}`) | `segment-wizard.ts:441` rolls back to the baseline | `govee-lan-client.ts:691` paints the segment after the restore |
| `SegmentWizard!OnlyOwnSessionClosed` (same) | `:384` do not stomp the newer state | `:451` closes the session that is open now |
| `AccountMqtt!LoginsWithinWindow` | `govee-mqtt-client.ts:154-156` at most so many logins | `:635` counts after the wait |
| `AccountMqtt!CapStopsLogins` | `:225-227` the cap stops logins | `:613` `connect()` does not ask for it |
| `AccountMqtt!AskedPausesLogins` | `:738-739` waits for the user's code | `:1114` a forced refresh does not |
| `AccountMqtt!SpentCodeNotReplayed` | `:653-654` a code is used once | `:1138` the refresh keeps it in the client |
| `AccountMqtt!BearerIsRenewed` (`MaxFails = 3`, `MaxLogins = 4`, `ReuseTries = 1`) | `:1108-1109` every failed attempt is scheduled again | a subscription with the cached certificate takes back the demand for a code, and no timer renews the bearer |
| `LibraryLoad!EmptyIsAskedAgain` (two runs, one light) | `timing-constants.ts:177-183` an empty library is asked again after a week | `device-manager.ts:791-795`: every run that trusts the stamp renews it (`library-loader.ts:143-144`) |
| `Reachability!OfflineStandsAgainstReplay` | Govee's "offline" stands for the window | a packet delivered late lifts it (`lookups.ts:403`) |
| `DeviceList!SyncOnboards` | after a list every device has a tree | a device that entered the map with the refresh of another light (`refreshSceneDataForDevice`, which follows up its target only) is already known to the next list, which builds nothing for it |
| `DeviceList!DeletionNeedsKnowledge` | a tree goes on the word of its own list | the pass of another list removes the tree of a LAN light that entered the map after that pass began, while the cloud list has failed |
| `DeviceList!EvictedStaysGone` | an evicted device is out of the cache | a library job that still runs for the evicted device saves its cache file afterwards |
| `LanDiscovery!KnownAlwaysPass` (3 lights) | `govee-lan-client.ts:859-860` known devices pass the cap | a known light with a new address counts as a new identity |
| `LanDiscovery!MeetsItself` | a command reaches the light it was meant for | an unlisted light of a listed model is bound to the first device without an address (`device-manager.ts:1549-1555`, `:1563-1565`); an address the router handed on is another light's until both have answered |
| `LanDiscovery!OwnDeviceIsRead` | `device-manager.ts:1986-1987` the device that answers on this address | two devices hold one address until the first answers from its new one, and the first in the map is taken |
| `StatusAsk!NobodyIsForgotten` | `device-manager.ts:2404-2406` where no status request can ask a device, a read of the Cloud is the correction | `:2395-2397`: an appliance or a sensor is passed over before it is looked at; with an API key only nothing asks it |
| `IdMove!RoomsSurvive` | `enum-carry.ts:1-3` rooms and functions move along | the process dies after the old tree is deleted and before its rooms are put on the new one; the next start finds a complete tree and does not look for them |
| `IdMove!RecordingSurvives` with a collision *and* failing calls | `device-move.ts:202-203` an object with the mark is a whole copy | `device-id-migration.ts:150-161` takes another device's tree for its own |
| `StateTree!ChangesAreBuilt` | `device-manager/cloud-merge.ts:60-61` a changed list rebuilds the tree | the refresh button merges the list of every light and builds at most its own (`device-manager.ts:1375`, `:1403`); a job with a refused call returns before the build, although a library came (`:806-808`) |
| `StateTree!SpeedKeepsSlider` | a light whose library has a speed keeps its slider | a build that looked before a refresh brought that library sweeps it; the build behind brings it back without its recording |
| `StateTree!GroupScenesNeedAnswers` | absence is no knowledge | the members' scene lists are intersected whether or not they were asked for |
| `ShownValues!GroupTellsMembers` | `state-manager.ts:1584` a group is reachable while its members are | a member whose silence is unproven stays out of the count (`:1958-1965`) |
| `ShownValues!MemoryIsWritten` with `WritesFail` | `state-manager.ts:151-152` the memory is what was written | a failed write of a build leaves the memory ahead (`:526-537`) |
| `ShownValues!LiveTreeStays` with `Returns` | only trees of devices that are gone are deleted | the list of the gone is made before the first wait |
| `Appliance!SlidersKeepTheirRange` | a slider that has a range sends what is inside it | a bare `modeValue` range becomes a slider whose level never goes out (`capability-mapper.ts:1069-1083`, `:962-978`: level 0); a target temperature is clamped only to a field called `temperature` (`state-change-router.ts:259`, `:268-270`) |
| `SegmentTree!TreeMatchesAlways` | builds of a device are chained | `main.ts:841-848` and `state-change-router.ts:322` write segments outside the chain |
| `SegmentTree!EchoAlwaysLands` | an echo lands in datapoints that exist | the count of a cut strip names segments the manual list leaves out |
| `SegmentTree!NeverBeyondTheStrip` (`CountMax = 6`) | a count read from a push is within the strip | a single packet of a strip with three slots is read with four (`lookups.ts:121`), and one push is enough to raise the count |
| `SegmentTree!RealSegmentsStay` | a real segment goes only when the app's masks say so | a report whose last packet is missing, or whose last segments are dark, looks complete, and a complete one needs no second witness (`device-manager.ts:1930-1935`) |
| `SnapshotStore!OfferedIsAlwaysRestored` | an entry restores what it names | until the rebuild a deletion moves the entries |
| `SnapshotStore!StoredAnyhow` | at rest the object holds what memory holds | a write that fails is warned of and not tried again (`local-snapshots.ts:238-240`) |
| `SnapshotStore!NewerListStays` | a start loses no snapshot that reached the object | an old file that could not be carried over or removed is written over a newer list at the next start (`:340-347`, `:372-376`) |
| `SnapshotStore!RootStoreWins` | of two old stores the newer one is kept | the data directory's list, the older one, is carried over last (`:127-130`) |
| `StateChange!OneModeShownAtAll` | one mode is shown | the dropdown of local snapshots is acked after the resets |
| `Startup!NoTimerBehindStop` | no timer is armed behind the stop | `finishStart` arms its timers behind two waits |
| `Startup!WritesHaveObjects` | "createDeviceStates has already run before any update lands" | a light found behind the drain is written to before its tree stands |
| `Startup!DeviceWordLandsLast` | the device's own report lands last | a state read the limiter held back comes behind it |
| `KeyMigration!RunsOnTheChoice` with `EditsEarly` or `ReadsFail` | an installation keeps what its user configured | an edit before the first start of the update, or a read that failed, is overwritten by the old value |
| `SavedLogin!SessionIsOwn` with `SwitchesEarly` | `cloud-creds-handler.ts:203-209` the session belongs to the account it was issued for | a session saved before 2.40.0 names no account and is accepted once; a refresh then saves the new account's bearer with the old one's topic (`govee-mqtt-client.ts:1180`) |
| `SavedLogin!OneMarkIsEnough` (two codes) | `:52-56` a spent code is skipped | one mark: the next spent code takes its place |
| `SavedLogin!TurnedDownStaysSilent` | `:74-77` "consumed or rejected", no later login sends it again | `message-router.ts:207`: the test hears of accepted codes only |
| `SavedLogin!MetaSurvives` | `cloud-creds-handler.ts:310-313` a failed write keeps the meta object for the next start | the file that broke off exists, so the next start carries nothing over and drops the object (`:305`, `:321-327`) |
| `ReportJobs!LostAnswerCostsNothing` | `diagnosticsApi.ts:197` "the report goes on, ask again" | the report was handed over with the lost answer; the next question hears "gone" |

Seen while modelling, without a definition of their own: a held push keeps only the newest push's
capabilities; a numeric level that is clamped is acknowledged as written; a level that changes the mode leaves
`work_mode` old until the next cloud read; two overlapping fan-outs leave members with different values while the
group is acknowledged; a configured broker that is down keeps a failed command from being corrected by a cloud
read; the miss counters start again with the adapter; the marker of a device that left the map stays as it is until
the cleanup; an address is never taken back from a light; the login windows live in memory (`main.ts:242`), and a
refresh answered with an HTTP error status is counted nowhere (`govee-mqtt-client.ts:1189`).

## 6. Not modelled, and why

`PROJECT.json` lists every part with a note.  In groups:

* *Without state of their own*: value labels, command forms, protocol frames, colours,
  PKCS#12, the text of a segment list.  Translations of data; table tests fit them better.
* *Data*: device catalog, quirks, limits, icons, texts.  Limits are CONSTANTS here.
* *Pure I/O*: HTTP client, sockets, file writes, the objects of ioBroker.  Their outcomes are inputs of the
  modelled parts: an answer, an error, no answer.
* *Admin page and tools*: React user interface and generators.  The page's messages are inputs, except for the
  report card, whose polling is modelled.
* *Diagnostics*: the rings and the text of a report; only the jobs have a protocol.
* *One-shot cleanups* of objects earlier versions left (`legacy-cleanup.ts`).

Left out inside modelled parts: logging and its once-only flags; the publishes and packets of the account
channel; the field by field merge of names, capabilities and libraries into a device; the properties of
objects; the texts of the wizard; the encryption and file format of the saved credentials and of
cache files; the delays' exact lengths and jitter; actions of single features that follow the generic write.

`AccountMqtt` covers one run of the adapter; `Startup` and the modules with stores cover restarts.

## 7. Plan

The suite stays at these twelve runs: a new component becomes a part of one of the composed runs.

Proofs worth having next: for a loop that cannot be proved live, the safety half of its promise (a timer is armed, a handler
is under way) wherever it is not yet part of an invariant.

Model next: the publishes of the account channel and the status they ask for, composed with `StatusAsk`; the merge of
a device's fields from its sources; `legacy-cleanup.ts`.
