------------------------------ MODULE Startup ------------------------------
(***************************************************************************)
(* The life of one adapter process: onReady runs its phases one after the   *)
(* other, each ending at a wait, and asks between two of them whether       *)
(* onUnload came (main.ts); meanwhile the LAN scan answers, devices report, *)
(* trees are built and channels connect.  A label of `at` is the wait the   *)
(* start stands at; everything between two waits is one step, because       *)
(* nothing else runs there.  The object and state database outlives the     *)
(* process: marker (info.online), shown (the value in the tree) and         *)
(* leftover (the settings an older version left in the instance object).    *)
(***************************************************************************)
EXTENDS Integers, FiniteSets

CONSTANTS Device,     \* the installation's devices
          LanDevice,  \* those with a local API: found by the scan, the others come with a list
          Word,       \* the values a device can report
          NoWord,     \* nothing reported or written
          MaxRuns,    \* process runs in a behaviour
          MaxSpoken   \* reports in one run

ASSUME StartupAssumption ==
  /\ LanDevice \subseteq Device /\ NoWord \notin Word
  /\ MaxRuns \in Nat \ {0} /\ MaxSpoken \in Nat

VARIABLES
  at,        \* where onReady stands, "down" without a process
  stopping,  \* unloading
  setting,   \* the configured channels, whether a device cache exists, and whether the
             \* limiter is busy enough to queue a state read of the start
  leftover,  \* the instance object still carries a setting the start corrects
  fixes,     \* how often each was corrected
  runs, spoken,
  running,     \* the clients that run
  timers,    \* the timers of main.ts that are armed
  links,     \* the push channels that are connected
  done,      \* the flags of the ready check: "scan", "cloud", "poll", "states"
  readySaid, \* how often the ready line was logged
  tree,      \* a device's tree: nobody asked, the build runs, built
  queue,     \* stateCreationQueue: builds the start waits for
  early,     \* devices whose build was queued when the drain ended
  readable,  \* cloudStateReadable
  late,      \* state reads of the start the limiter still holds
  word,      \* a device's last report of this run
  held,      \* the report kept until the tree is ready
  shown, marker,
  found,     \* lights whose local address is known
  rash       \* devices written to before their tree was built

startVars == <<at, stopping, setting, leftover, fixes, runs, spoken, running, timers, links, done,
               readySaid, tree, queue, early, readable, late, word, held, shown, marker, rash, found>>

Settings ==
  {s \in [apiKey : BOOLEAN, account : BOOLEAN, cache : BOOLEAN, sensor : BOOLEAN, busy : BOOLEAN] :
     s.busy => s.apiKey /\ s.account /\ s.cache /\ ~s.sensor}    \* bound
Corrections == {"messagebox", "keys"}
Waits == {"prepare", "build", "creds", "login", "list", "members", "drain", "read", "migrate", "subscribe"}
Clients == {"lan", "account", "limiter", "events", "retry"}
Timers == {"scan", "appInitial", "appPoll", "cloudInit", "cleanup", "sync", "version", "ready"}

Running == at # "down"
\* The state manager exists: its guards and its last words work from here on.
Managed == at \notin {"down", "prepare", "leaving"}

StartTypeOK ==
  /\ at \in Waits \cup {"down", "leaving", "ended", "up"}
  /\ stopping \in BOOLEAN /\ setting \in Settings /\ leftover \subseteq Corrections
  /\ fixes \in [Corrections -> 0..1]
  /\ runs \in 0..MaxRuns /\ spoken \in 0..MaxSpoken
  /\ running \subseteq Clients /\ timers \subseteq Timers /\ links \subseteq running
  /\ done \subseteq {"scan", "cloud", "poll", "states"} /\ readySaid \in 0..1
  /\ tree \in [Device -> {"none", "building", "built"}]
  /\ queue \subseteq Device /\ early \subseteq Device /\ late \subseteq Device
  /\ readable \in BOOLEAN
  /\ word \in [Device -> Word \cup {NoWord}] /\ held \in [Device -> Word \cup {NoWord}]
  /\ shown \in [Device -> Word \cup {NoWord}] /\ marker \in [Device -> BOOLEAN]
  /\ rash \subseteq Device /\ found \subseteq LanDevice

Nothing == [d \in Device |-> NoWord]

\* What a process knows before onReady ran.
Fresh ==
  /\ running' = {} /\ timers' = {} /\ links' = {} /\ done' = {} /\ readySaid' = 0
  /\ tree' = [d \in Device |-> "none"] /\ queue' = {} /\ early' = {} /\ late' = {}
  /\ readable' = FALSE /\ word' = Nothing /\ held' = Nothing /\ rash' = {} /\ spoken' = 0
  /\ found' = {}

StartInit ==
  /\ at = "down" /\ stopping = FALSE /\ runs = 0 /\ spoken = 0
  /\ setting \in Settings /\ leftover \in SUBSET Corrections
  /\ fixes = [c \in Corrections |-> 0]
  /\ running = {} /\ timers = {} /\ links = {} /\ done = {} /\ readySaid = 0
  /\ tree = [d \in Device |-> "none"] /\ queue = {} /\ early = {} /\ late = {}
  /\ readable = FALSE /\ word = Nothing /\ held = Nothing /\ rash = {} /\ found = {}
  /\ shown = Nothing /\ marker = [d \in Device |-> FALSE]

\* The host starts the process; a controller restart, an update or the user.
Boot ==
  /\ at = "down" /\ runs < MaxRuns
  /\ at' = "prepare" /\ stopping' = FALSE /\ runs' = runs + 1 /\ Fresh
  /\ UNCHANGED <<setting, leftover, fixes, shown, marker>>

\* The next phase starts only when onUnload has not come.
NeverAsked == FALSE
EndedOnStop == stopping
Proceed(next) == at' = IF EndedOnStop THEN "ended" ELSE next

-----------------------------------------------------------------------------
(* prepareInstance and buildRuntime.                                        *)

\* The corrected setting is gone for the next look at it: null, not false.
StillThere(c) == leftover
Cleared(c) == leftover \ {c}

\* The first correction that is stored ends the start: the write restarts the
\* instance.  One that cannot be stored leaves the start going.
Correct(c) ==
  /\ at = "prepare" /\ c \in leftover
  /\ leftover' = Cleared(c) /\ fixes' = [fixes EXCEPT ![c] = @ + 1] /\ at' = "leaving"
  /\ UNCHANGED <<stopping, setting, runs, spoken, running, timers, links, done, readySaid, tree, queue,
                 early, readable, late, word, held, shown, marker, rash, found>>

\* Behind prepareInstance nothing asks whether onUnload came.
Prepared ==
  /\ at = "prepare"
  /\ at' = "build"
  /\ UNCHANGED <<stopping, setting, leftover, fixes, runs, spoken, running, timers, links, done, readySaid,
                 tree, queue, early, readable, late, word, held, shown, marker, rash, found>>

\* markAllOffline: nothing was asked yet, so nothing may still claim to be there.
MarkersStand == marker
OldMarkers == [d \in Device |-> FALSE]

\* startLan: the listener, and the window the first scan gets.
LanStarted == running' = {"lan"} /\ timers' = {"scan"}

\* buildRuntime's waits are over: the id move worked, every marker of the
\* last run is taken back; wireRuntime and startLan follow without a wait.
Built ==
  /\ at = "build"
  /\ marker' = OldMarkers
  /\ Proceed(IF setting.account THEN "creds" ELSE "login")
  /\ IF EndedOnStop THEN UNCHANGED <<running, timers>>
     ELSE LanStarted
  /\ UNCHANGED <<stopping, setting, leftover, fixes, runs, spoken, links, done, readySaid, tree, queue,
                 early, readable, late, word, held, shown, rash, found>>

\* The id move cannot read the tree: the adapter does not start.
IdMoveFails ==
  /\ at = "build" /\ at' = "ended"
  /\ UNCHANGED <<stopping, setting, leftover, fixes, runs, spoken, running, timers, links, done, readySaid,
                 tree, queue, early, readable, late, word, held, shown, marker, rash, found>>

-----------------------------------------------------------------------------
(* The channels: account, Cloud, events.                                    *)

\* connectAccount: the login runs, its client is the start's to stop.
Dialled == running \cup {"account"}

\* openAccount waited for the saved login; connectAccount dials.
AccountOpened ==
  /\ at = "creds" /\ Proceed("login")
  /\ running' = IF EndedOnStop THEN running ELSE Dialled
  /\ UNCHANGED <<stopping, setting, leftover, fixes, runs, spoken, timers, links, done, readySaid, tree,
                 queue, early, readable, late, word, held, shown, marker, rash, found>>

\* A list (cache or Cloud) names the devices: onCloudDataReady builds each tree.
Listed(devices) ==
  /\ tree' = [d \in Device |-> IF d \in devices /\ tree[d] = "none" THEN "building" ELSE tree[d]]
  /\ queue' = IF "states" \in done THEN queue ELSE queue \cup devices

\* startCloud, up to its wait for the device list.
CloudStarted ==
  /\ at = "login"
  /\ Proceed(IF ~setting.apiKey THEN "drain" ELSE IF setting.cache THEN "members" ELSE "list")
  /\ IF EndedOnStop THEN UNCHANGED <<running, timers, tree, queue, readable>>
     ELSE /\ Listed(IF setting.cache THEN Device ELSE {})
          /\ timers' = timers \cup (IF setting.apiKey \/ setting.account THEN {"appInitial", "appPoll"} ELSE {})
                              \cup (IF setting.apiKey /\ ~setting.cache THEN {"cloudInit"} ELSE {})
          /\ running' = running \cup (IF setting.apiKey THEN {"limiter", "events"} ELSE {})
          /\ readable' = (setting.apiKey /\ setting.cache)
  /\ UNCHANGED <<stopping, setting, leftover, fixes, runs, spoken, links, done, readySaid, early, late,
                 word, held, shown, marker, rash, found>>

\* settleCloudStart: the list came, or the retry loop takes over.
ListSettled(ok) ==
  /\ at = "list" /\ Proceed("members")
  /\ timers' = timers \ {"cloudInit"}
  /\ IF EndedOnStop THEN UNCHANGED <<tree, queue, readable, running>>
     ELSE IF ok THEN Listed(Device) /\ readable' = TRUE /\ UNCHANGED running
     ELSE running' = running \cup {"retry"} /\ UNCHANGED <<tree, queue, readable>>
  /\ UNCHANGED <<stopping, setting, leftover, fixes, runs, spoken, links, done, readySaid, early, late,
                 word, held, shown, marker, rash, found>>

\* The group members are loaded; the Cloud part of the start is over.
MembersLoaded ==
  /\ at = "members" /\ Proceed("drain")
  /\ done' = IF EndedOnStop THEN done ELSE done \cup {"cloud"}
  /\ UNCHANGED <<stopping, setting, leftover, fixes, runs, spoken, running, timers, links, readySaid, tree,
                 queue, early, readable, late, word, held, shown, marker, rash, found>>

-----------------------------------------------------------------------------
(* The tree and its first values.                                           *)

\* A build that came during the wait is waited for as well.
DrainsListed == \A d \in queue \ LanDevice : tree[d] = "built"
DrainEnds == \A d \in queue : tree[d] = "built"

Drained ==
  /\ at = "drain" /\ DrainEnds
  /\ early' = queue /\ queue' = {} /\ Proceed("read")
  /\ UNCHANGED <<stopping, setting, leftover, fixes, runs, spoken, running, timers, links, done, readySaid,
                 tree, readable, late, word, held, shown, marker, rash, found>>

\* A local address of the device is known: its values are its own.
OwnWordOnly(d) == d \in found

\* readStartState: Govee's memory of every listed device, a read the limiter
\* queues answers later.
StateRead ==
  /\ at = "read" /\ Proceed("migrate")
  /\ IF readable
       THEN \E queued \in (IF setting.busy THEN SUBSET Device ELSE {{}}) :
              \E memory \in [Device -> Word \cup {NoWord}] :
                /\ \A d \in Device : (d \in queued \/ OwnWordOnly(d)) => memory[d] = NoWord
                /\ late' = queued
                /\ shown' = [d \in Device |-> IF memory[d] = NoWord \/ stopping THEN shown[d] ELSE memory[d]]
                /\ rash' = rash \cup {d \in Device : memory[d] # NoWord /\ tree[d] # "built"}
       ELSE UNCHANGED <<late, shown, rash>>
  /\ UNCHANGED <<stopping, setting, leftover, fixes, runs, spoken, running, timers, links, done, readySaid,
                 tree, queue, early, readable, word, held, marker, found>>

\* A queued read answers; the writer refuses once the adapter is stopping.
LateRead(d, v) ==
  /\ Running /\ d \in late
  /\ late' = late \ {d}
  /\ shown' = IF OwnWordOnly(d) \/ stopping THEN shown ELSE [shown EXCEPT ![d] = v]
  /\ UNCHANGED <<at, stopping, setting, leftover, fixes, runs, spoken, running, timers, links, done, readySaid,
                 tree, queue, early, readable, word, held, marker, rash, found>>

\* Mutant: Govee's memory of the device stands.
MemoryStands == [d \in Device |-> IF shown[d] = NoWord THEN held[d] ELSE shown[d]]

\* What the release writes: every report kept during the start.
Released == [d \in Device |-> IF held[d] = NoWord THEN shown[d] ELSE held[d]]

\* runStartMigrations is over; finishStart opens the tree and releases what
\* was held, then waits for its subscriptions.
StatesReady ==
  /\ at = "migrate" /\ Proceed("subscribe")
  /\ IF EndedOnStop THEN UNCHANGED <<done, shown, held, rash>>
     ELSE /\ done' = done \cup {"states"}
          /\ shown' = Released /\ held' = Nothing
          /\ rash' = rash \cup {d \in Device : held[d] # NoWord /\ tree[d] # "built"}
  /\ UNCHANGED <<stopping, setting, leftover, fixes, runs, spoken, running, timers, links, readySaid, tree,
                 queue, early, readable, late, word, marker, found>>

-----------------------------------------------------------------------------
(* Ready.                                                                   *)

AllReady(flags, up) ==
  /\ {"scan", "states"} \subseteq flags
  /\ setting.apiKey => "cloud" \in flags /\ "events" \in up
  /\ setting.account => "account" \in up
  /\ setting.sensor => "poll" \in flags

\* checkAllReady: said once.
Said(flags, up) == IF readySaid = 0 /\ AllReady(flags, up) THEN 1 ELSE readySaid

\* What the start leaves running: the reaper, the 20 s round, the daily version
\* check, and the ready line in case a channel never connects.
WithoutSafety == {"cleanup", "sync", "version"}
StartTimers == {"cleanup", "sync", "version", "ready"}

\* The rest of finishStart: no stop check between its waits.
Finished ==
  /\ at = "subscribe" /\ Proceed("up")
  /\ timers' = timers \cup StartTimers
  /\ readySaid' = Said(done, links)
  /\ UNCHANGED <<stopping, setting, leftover, fixes, runs, spoken, running, links, done, tree, queue, early,
                 readable, late, word, held, shown, marker, rash, found>>

\* The 60 s after the start: said whatever the channels do.
SafetyTimer ==
  /\ "ready" \in timers
  /\ timers' = timers \ {"ready"}
  /\ readySaid' = IF readySaid = 0 THEN 1 ELSE readySaid
  /\ UNCHANGED <<at, stopping, setting, leftover, fixes, runs, spoken, running, links, done, tree, queue,
                 early, readable, late, word, held, shown, marker, rash, found>>

\* The first scan window, the first App API poll.
FlagTimer(timer, flag) ==
  /\ timer \in timers
  /\ timers' = timers \ {timer} /\ done' = done \cup {flag} /\ readySaid' = Said(done', links)
  /\ UNCHANGED <<at, stopping, setting, leftover, fixes, runs, spoken, running, links, tree, queue, early,
                 readable, late, word, held, shown, marker, rash, found>>

Linked(c) ==
  /\ c \in running \cap {"account", "events"} /\ c \notin links
  /\ links' = links \cup {c} /\ readySaid' = Said(done, links')
  /\ UNCHANGED <<at, stopping, setting, leftover, fixes, runs, spoken, running, timers, done, tree, queue,
                 early, readable, late, word, held, shown, marker, rash, found>>

Unlinked(c) ==
  /\ c \in links /\ links' = links \ {c}
  /\ UNCHANGED <<at, stopping, setting, leftover, fixes, runs, spoken, running, timers, done, readySaid,
                 tree, queue, early, readable, late, word, held, shown, marker, rash, found>>

-----------------------------------------------------------------------------
(* The devices.                                                             *)

\* The scan finds a light: onLanDeviceReady queues its build.
Found(d) ==
  /\ "lan" \in running /\ d \in LanDevice \ found
  /\ found' = found \cup {d}
  /\ Listed({d})
  /\ UNCHANGED <<at, stopping, setting, leftover, fixes, runs, spoken, running, timers, links, done,
                 readySaid, early, readable, late, word, held, shown, marker, rash>>

TreeBuilt(d) ==
  /\ Running /\ tree[d] = "building"
  /\ tree' = [tree EXCEPT ![d] = "built"]
  /\ UNCHANGED <<at, stopping, setting, leftover, fixes, runs, spoken, running, timers, links, done,
                 readySaid, queue, early, readable, late, word, held, shown, marker, rash, found>>

Hears(d) ==
  IF d \in LanDevice THEN d \in found /\ "lan" \in running ELSE tree[d] # "none" /\ "account" \in links

\* onDeviceStateUpdate: written when the tree is ready, kept until then.
Dropped(d, v) == held
Kept(d, v) == [held EXCEPT ![d] = v]

\* writeReadOnly, and the writers of the handlers: nothing once onUnload came.
WritesOn == TRUE
MayWrite == ~stopping

Reports(d, v) ==
  /\ Hears(d) /\ spoken < MaxSpoken
  /\ spoken' = spoken + 1 /\ word' = [word EXCEPT ![d] = v]
  /\ marker' = IF MayWrite THEN [marker EXCEPT ![d] = TRUE] ELSE marker
  /\ IF "states" \in done
       THEN /\ shown' = IF MayWrite THEN [shown EXCEPT ![d] = v] ELSE shown
            /\ rash' = IF tree[d] = "built" THEN rash ELSE rash \cup {d}
            /\ held' = held
       ELSE held' = Kept(d, v) /\ UNCHANGED <<shown, rash>>
  /\ UNCHANGED <<at, stopping, setting, leftover, fixes, runs, running, timers, links, done, readySaid,
                 tree, queue, early, readable, late, found>>

\* The 20 s round ends; a round that began before onUnload writes as well.
SyncRound(d, up) ==
  /\ Managed /\ ("sync" \in timers \/ stopping) /\ tree[d] # "none"
  /\ up => word[d] # NoWord
  /\ marker' = IF MayWrite THEN [marker EXCEPT ![d] = up] ELSE marker
  /\ UNCHANGED <<at, stopping, setting, leftover, fixes, runs, spoken, running, timers, links, done,
                 readySaid, tree, queue, early, readable, late, word, held, shown, rash, found>>

-----------------------------------------------------------------------------
(* The end of a process.                                                    *)

\* onUnload: every timer is cleared, every client stopped, and the last words
\* go out before the callback tells the host that the process may end.
Unload ==
  /\ Running /\ ~stopping
  /\ stopping' = TRUE /\ timers' = {} /\ running' = {} /\ links' = {}
  /\ marker' = IF Managed THEN OldMarkers ELSE marker
  /\ UNCHANGED <<at, setting, leftover, fixes, runs, spoken, done, readySaid, tree, queue, early, readable,
                 late, word, held, shown, rash, found>>

Exit ==
  /\ Running /\ stopping
  /\ at' = "down"
  /\ UNCHANGED <<stopping, setting, leftover, fixes, runs, spoken, running, timers, links, done, readySaid,
                 tree, queue, early, readable, late, word, held, shown, marker, rash, found>>

\* The process dies without onUnload.
Crash ==
  /\ Running /\ ~stopping /\ runs < MaxRuns
  /\ at' = "down" /\ Fresh
  /\ UNCHANGED <<stopping, setting, leftover, fixes, runs, shown, marker>>

PhaseStep ==
  \/ Prepared \/ Built \/ AccountOpened \/ CloudStarted \/ MembersLoaded \/ Drained
  \/ StateRead \/ StatesReady \/ Finished
  \/ \E c \in Corrections : Correct(c)
  \/ \E ok \in BOOLEAN : ListSettled(ok)

TimerStep == SafetyTimer \/ FlagTimer("scan", "scan") \/ FlagTimer("appInitial", "poll")

DeviceStep ==
  \E d \in Device :
    \/ Found(d) \/ TreeBuilt(d)
    \/ \E v \in Word : Reports(d, v) \/ LateRead(d, v)
    \/ \E up \in BOOLEAN : SyncRound(d, up)

StartNext ==
  \/ Boot \/ IdMoveFails \/ PhaseStep \/ TimerStep \/ DeviceStep
  \/ \E c \in Clients : Linked(c) \/ Unlinked(c)
  \/ Unload \/ Exit \/ Crash

\* The waits of the start end, builds end, and the timers fire.
StartFairness ==
  /\ WF_startVars(PhaseStep) /\ WF_startVars(SafetyTimer)
  /\ \A d \in Device : WF_startVars(TreeBuilt(d))

StartSpec == StartInit /\ [][StartNext]_startVars
StartFairSpec == StartSpec /\ StartFairness

-----------------------------------------------------------------------------
\* Behind onUnload no client is started, whatever wait of the start ends then
\* (main.ts: nothing may start behind onUnload, audit B6).
NothingStartsBehindStop == stopping /\ stopping' => running' \subseteq running

\* A tree whose build was queued when the drain ended is complete when the
\* tree is declared ready, also one whose device came during the drain.
ReadyMeansBuilt == "states" \in done => \A d \in early : tree[d] = "built"

\* Only a device the drain never saw can be written to before its tree stands:
\* the reports before are kept, and the state read comes behind the drain.
EarlyWritesWait == rash \cap early = {}

\* Refuted: from the release on the tree shows a device's own last report.  A
\* state read the limiter held back comes behind it.
DeviceWordLandsLast ==
  "states" \in done /\ ~stopping => \A d \in Device : word[d] # NoWord => shown[d] = word[d]

\* As long as no state read of the start waits in the limiter, it does: what came
\* during the start was kept and lands behind Govee's memory of the device.
DeviceWordOutlivesStart == ~setting.busy => DeviceWordLandsLast

Grey == \A d \in Device : ~marker[d]

\* Once the channels start no device is shown as there before it spoke in this
\* run, also behind a crash, where no shutdown code took the markers back.
NoOldClaim == running # {} => \A d \in Device : marker[d] => word[d] # NoWord

\* A stop of a started adapter leaves no device standing green, and nothing
\* that still runs behind onUnload turns one green again.
StoppedIsGrey == stopping' /\ (IF stopping THEN Grey ELSE running # {}) => Grey'

\* A start that is not stopped and whose id move works ends with the ready
\* line, whether or not a channel ever connects (60 s safety timer).
ReadyIsSaid == at = "build" ~> (readySaid = 1 \/ stopping \/ at \in {"down", "ended"})

\* Refuted: finishStart arms its timers behind two waits without asking for
\* the stop, so onUnload can have cleared them before they are armed.
NoTimerBehindStop == stopping => timers = {}

\* Refuted: a light found behind the drain is written to before its tree
\* stands ("createDeviceStates has already run before any update lands").
WritesHaveObjects == rash = {}

\* Nothing is written before its object or behind the stop, and the device's own
\* word is what stands.
StartIsOrdered ==
  /\ [](StartTypeOK /\ ReadyMeansBuilt /\ EarlyWritesWait /\ DeviceWordOutlivesStart /\ NoOldClaim)
  /\ [][NothingStartsBehindStop /\ StoppedIsGrey]_startVars
=============================================================================
