----------------------------- MODULE StateTree -----------------------------
(***************************************************************************)
(* The datapoints of the lights and of an app group: the phase callbacks   *)
(* queue builds (handlers/device-events.ts), a build writes what the       *)
(* device declares and sweeps what it does not (state-manager.ts,          *)
(* capability-mapper.ts).  A swept datapoint takes its value, its          *)
(* recording and its aliases with it, so what a build may sweep is the     *)
(* point of this module: two builds of one device must not interleave,     *)
(* absence is no knowledge, and other owners share the channels.           *)
(***************************************************************************)
EXTENDS Sequences, FiniteSets, Naturals

CONSTANTS Lamps, Group,
          MaxBuilds         \* bound: builds of one device that wait or run

ASSUME TreeAssumption == Group \notin Lamps /\ MaxBuilds \in Nat \ {0}

VARIABLES
    key,         \* an API key is configured
    lamp,        \* what the adapter knows of each light
    members,     \* group.groupMembers, resolved
    points,      \* the datapoints in the object tree, per device
    chain,       \* buildChain: the builds that wait or run, oldest first
    swept,       \* history: lights built in full since the list last changed
    unbuilt      \* history: lights that declare something else since a step no build follows

treeVars == <<key, lamp, members, points, chain, swept, unbuilt>>

Built == Lamps \cup {Group}
LAN_STATE_IDS == {"power"}
SYNTHETIC == {"battery"}
Foreign == LAN_STATE_IDS \cup SYNTHETIC
\* What the cloud list says of a light: a power switch, a toggle, dynamic scenes.
Capability == {"power", "toggle", "light_scene"}
Point == Capability \cup SYNTHETIC \cup {"scene_speed", "snapshot_local", "stale"}

Lib == {"empty", "plain", "speed"}      \* sceneLibrary: no entry, none with a speed, one with a speed
LampState == [ip : BOOLEAN, caps : SUBSET Capability, lib : Lib,
              scenes : BOOLEAN, asked : BOOLEAN, checked : BOOLEAN]

-----------------------------------------------------------------------------
\* What a device declares.
buildLanStateDefs(d) == IF d # Group /\ lamp[d].ip THEN LAN_STATE_IDS ELSE {}

mapCapabilities(l) == {c \in lamp[l].caps : c # "light_scene" /\ (lamp[l].ip => c \notin LAN_STATE_IDS)}

memberHasControlState(l, id) == lamp[l].ip \/ id \in lamp[l].caps

\* What all the members have that can be commanded; channels.cloud is "has capabilities".
buildGroupStateDefs ==
    LET controllable == {l \in members : lamp[l].ip \/ lamp[l].caps # {}} IN
    IF controllable = {} THEN {}
    ELSE {id \in LAN_STATE_IDS : \A l \in controllable : memberHasControlState(l, id)}
         \cup {id \in {"light_scene"} : \A l \in controllable : lamp[l].scenes}

buildCloudStateDefs(d) ==
    IF d = Group THEN buildGroupStateDefs
    ELSE mapCapabilities(d) \cup (lamp[d].caps \cap {"light_scene"}) \cup {"snapshot_local"}
         \cup (IF lamp[d].lib = "speed" THEN {"scene_speed"} ELSE {})

NothingPending(d) == {}

\* What the list could not decide: the library has not been confirmed.
libraryDecidesPending(d) ==
    IF d # Group /\ lamp[d].lib = "empty" /\ ~lamp[d].checked THEN {"scene_speed"} ELSE {}

-----------------------------------------------------------------------------
AnyMayRun(d, i) == i > 0

\* The builds of a device run one after the other.
MayRun(d, i) == i = 1

\* noSpeed (history): the library had answered without a speed when the build derived.
Waiting(kind) == [kind |-> kind, at |-> "queued", defs |-> {}, keep |-> {}, rows |-> {}, noSpeed |-> FALSE]

runDeviceBuild(ch, d, kind) == [ch EXCEPT ![d] = Append(@, Waiting(kind))]

\* onCloudDataReady: a group whose members are not known is not built.
onCloudDataReady(ch, d) ==
    IF d = Group /\ members = {} THEN ch ELSE runDeviceBuild(ch, d, "full")

Room(d) == Len(chain[d]) < MaxBuilds
Step(d, i) == chain[d][i]
Put(d, i, b) == chain' = [chain EXCEPT ![d][i] = b]
Ended(d, i) == SubSeq(chain[d], 1, i - 1) \o SubSeq(chain[d], i + 1, Len(chain[d]))

\* createInfoStates and createLanStates; an "onLanDeviceReady" build ends here.
WriteLan(d, i) ==
    /\ i \in DOMAIN chain[d] /\ MayRun(d, i)
    /\ Step(d, i).at = "queued" /\ Step(d, i).kind \in {"lan", "full"}
    /\ points' = [points EXCEPT ![d] = @ \cup buildLanStateDefs(d)]
    /\ IF Step(d, i).kind = "lan"
       THEN chain' = [chain EXCEPT ![d] = Ended(d, i)]
       ELSE Put(d, i, [Step(d, i) EXCEPT !.at = "derive"])
    /\ UNCHANGED <<key, lamp, members, swept, unbuilt>>

SpeedDenied(d) == d # Group /\ lamp[d].lib # "speed" /\ (lamp[d].lib # "empty" \/ lamp[d].checked)

\* The definitions, and together with them what they leave undecided.
Derive(d, i) ==
    /\ i \in DOMAIN chain[d] /\ MayRun(d, i) /\ Step(d, i).at = "derive"
    /\ Put(d, i, [Step(d, i) EXCEPT !.at = "write", !.defs = buildCloudStateDefs(d),
                                    !.keep = libraryDecidesPending(d), !.noSpeed = SpeedDenied(d)])
    /\ unbuilt' = unbuilt \ {d}
    /\ UNCHANGED <<key, lamp, members, points, swept>>

writeStateDefsToChannels(d, i) ==
    /\ i \in DOMAIN chain[d] /\ MayRun(d, i) /\ Step(d, i).at = "write"
    /\ points' = [points EXCEPT ![d] = @ \cup Step(d, i).defs]
    /\ Put(d, i, [Step(d, i) EXCEPT !.at = "list"])
    /\ UNCHANGED <<key, lamp, members, swept, unbuilt>>

\* cleanupCloudOwnedStates reads the tree once and keeps what other owners wrote ...
SweepsForeign(p, b) == p \notin b.defs /\ p \notin b.keep

IsSwept(p, b) == p \notin b.defs /\ p \notin b.keep /\ p \notin Foreign

ListRows(d, i) ==
    /\ i \in DOMAIN chain[d] /\ MayRun(d, i)
    /\ Step(d, i).at = "list" \/ (Step(d, i).at = "queued" /\ Step(d, i).kind = "sweep")
    /\ Put(d, i, [Step(d, i) EXCEPT !.at = "sweep", !.rows = {p \in points[d] : IsSwept(p, Step(d, i))}])
    /\ UNCHANGED <<key, lamp, members, points, swept, unbuilt>>

\* ... and deletes row by row.
DeleteRow(d, i) ==
    /\ i \in DOMAIN chain[d] /\ MayRun(d, i) /\ Step(d, i).at = "sweep"
    /\ \E p \in Step(d, i).rows :
         /\ points' = [points EXCEPT ![d] = @ \ {p}]
         /\ Put(d, i, [Step(d, i) EXCEPT !.rows = @ \ {p}])
    /\ UNCHANGED <<key, lamp, members, swept, unbuilt>>

EndBuild(d, i) ==
    /\ i \in DOMAIN chain[d] /\ MayRun(d, i) /\ Step(d, i).at = "sweep" /\ Step(d, i).rows = {}
    /\ chain' = [chain EXCEPT ![d] = Ended(d, i)]
    /\ swept' = IF d # Group /\ Step(d, i).kind = "full" THEN swept \cup {d} ELSE swept
    /\ UNCHANGED <<key, lamp, members, points, unbuilt>>

BuildStep(d) ==
    \E i \in 1..MaxBuilds : \/ WriteLan(d, i) \/ Derive(d, i) \/ writeStateDefsToChannels(d, i)
                            \/ ListRows(d, i) \/ DeleteRow(d, i) \/ EndBuild(d, i)

-----------------------------------------------------------------------------
\* What the phases bring.

LanFound(l) ==
    /\ ~lamp[l].ip /\ Room(l)
    /\ lamp' = [lamp EXCEPT ![l].ip = TRUE]
    /\ chain' = runDeviceBuild(chain, l, "lan")
    /\ UNCHANGED <<key, members, points, swept, unbuilt>>

\* loadFromCloud: a list that changes something - more capabilities or fewer - rebuilds
\* every light; an entry without capabilities is filtered out.
CloudList(l, caps) ==
    /\ key /\ caps # {} /\ caps # lamp[l].caps
    /\ \A m \in Lamps : Room(m)
    /\ lamp' = [lamp EXCEPT ![l].caps = caps]
    /\ chain' = [d \in Built |-> IF d \in Lamps THEN Append(chain[d], Waiting("full")) ELSE chain[d]]
    /\ swept' = {}
    /\ UNCHANGED <<key, members, points, unbuilt>>

\* The scene list of a light is in (not awaited by the list call).
ScenesArrive(l, some) ==
    /\ key /\ lamp[l].caps # {} /\ ~lamp[l].asked
    /\ lamp' = [lamp EXCEPT ![l].scenes = @ \/ some, ![l].asked = TRUE]
    /\ UNCHANGED <<key, members, points, chain, swept, unbuilt>>

\* What every run ends with.  A run of which the limiter refused a call keeps what came and
\* returns before the build; otherwise a run that ends with scenes, or with a library that
\* came, is built.
finishLibraryRun(l, n, came, cancelled) ==
    /\ lamp' = [lamp EXCEPT ![l] = n]
    /\ IF cancelled \/ ~(n.scenes \/ came)
         THEN /\ chain' = chain
              /\ unbuilt' = IF n.lib = lamp[l].lib THEN unbuilt ELSE unbuilt \cup {l}
         ELSE /\ Room(l) /\ chain' = onCloudDataReady(chain, l)
              /\ unbuilt' = unbuilt
    /\ UNCHANGED <<key, members, points, swept>>

\* A scene job of the list: it asks for a library that is empty and not confirmed.
LibraryJob(l, lib, confirmed, cancelled) ==
    /\ key /\ lamp[l].asked /\ ~lamp[l].checked
    /\ lamp[l].lib = "empty" \/ lib = lamp[l].lib
    /\ finishLibraryRun(l, [lamp[l] EXCEPT !.lib = lib, !.checked = confirmed], lib # lamp[l].lib, cancelled)

LibraryArrives(l, lib) == LibraryJob(l, lib, TRUE, FALSE)

\* An endpoint failed: what came is kept and nothing is confirmed.
LibraryFails(l, lib) == lib # lamp[l].lib /\ LibraryJob(l, lib, FALSE, FALSE)

\* The limiter gave up a call of the job.
LibraryCancelled(l, lib) == lib # lamp[l].lib /\ LibraryJob(l, lib, FALSE, TRUE)

\* The button "refresh cloud data" of a light reads the whole list first and builds for
\* none of the lights it changes ...
RefreshMerges(l, caps) ==
    /\ key /\ caps # {} /\ caps # lamp[l].caps
    /\ lamp' = [lamp EXCEPT ![l].caps = caps]
    /\ unbuilt' = unbuilt \cup {l}
    /\ UNCHANGED <<key, members, points, chain, swept>>

\* ... and then asks for the scenes and libraries of its own light, whatever it has.
RefreshLoads(l, some, lib, confirmed, cancelled) ==
    /\ key /\ ~(confirmed /\ cancelled)
    /\ finishLibraryRun(l, [lamp[l] EXCEPT !.scenes = @ \/ some, !.asked = TRUE, !.checked = @ \/ confirmed,
                                           !.lib = IF lib = "empty" THEN @ ELSE lib],
                        lib # "empty", cancelled)

\* loadGroupMembers, with at least one member resolved.
ResolveMembers(m) ==
    /\ key /\ m # {} /\ Room(Group)
    /\ members' = m
    /\ chain' = runDeviceBuild(chain, Group, "full")
    /\ UNCHANGED <<key, lamp, points, swept, unbuilt>>

\* updateDeviceState creates a synthetic point with the first value of its kind.
SensorReport(l) ==
    /\ key /\ "battery" \notin points[l]
    /\ points' = [points EXCEPT ![l] = @ \cup {"battery"}]
    /\ UNCHANGED <<key, lamp, members, chain, swept, unbuilt>>

\* runStartMigrations: only without an API key no capabilities means no cloud.
PureLanSweep(l) ==
    /\ ~key /\ lamp[l].ip /\ lamp[l].caps = {} /\ Room(l)
    /\ \E p \in points[l] : p \notin Foreign
    /\ chain' = runDeviceBuild(chain, l, "sweep")
    /\ UNCHANGED <<key, lamp, members, points, swept, unbuilt>>

-----------------------------------------------------------------------------
\* A start with the tree of an earlier run: from a cache, or without one.
CachedLamp == {[ip |-> i, caps |-> c, lib |-> "speed", scenes |-> TRUE, asked |-> TRUE, checked |-> TRUE] :
             i \in BOOLEAN, c \in {Capability \ {"toggle"}}}
NewLamp == {[ip |-> FALSE, caps |-> {}, lib |-> "empty", scenes |-> FALSE, asked |-> FALSE, checked |-> FALSE]}

\* A cached light has capabilities, or an address, or neither.
firePostCachePhaseCallbacks(l) ==
    IF lamp[l].caps # {} THEN <<Waiting("full")>>
    ELSE IF lamp[l].ip THEN <<Waiting("lan")>> ELSE <<>>

TreeInit ==
    /\ key \in BOOLEAN
    /\ lamp \in [Lamps -> IF key THEN CachedLamp \cup NewLamp ELSE NewLamp]
    /\ members = {}
    /\ points = [d \in Built |-> IF d = Group THEN {"power", "light_scene", "stale"}
                                 ELSE {"power", "light_scene", "scene_speed", "snapshot_local", "stale"}]
    /\ chain = [d \in Built |-> IF d \in Lamps THEN firePostCachePhaseCallbacks(d) ELSE <<>>]
    /\ swept = {} /\ unbuilt = {}

TreeNext ==
    \/ \E d \in Built : BuildStep(d)
    \/ \E l \in Lamps :
         \/ LanFound(l) \/ SensorReport(l) \/ PureLanSweep(l)
         \/ \E c \in SUBSET Capability : CloudList(l, c) \/ RefreshMerges(l, c)
         \/ \E some \in BOOLEAN : ScenesArrive(l, some)
         \/ \E x \in Lib : LibraryArrives(l, x) \/ LibraryFails(l, x) \/ LibraryCancelled(l, x)
         \/ \E some, confirmed, cancelled \in BOOLEAN, x \in Lib : RefreshLoads(l, some, x, confirmed, cancelled)
    \/ \E m \in SUBSET Lamps : ResolveMembers(m)

TreeSpec == TreeInit /\ [][TreeNext]_treeVars

-----------------------------------------------------------------------------
BuildRecord == [kind : {"lan", "full", "sweep"}, at : {"queued", "derive", "write", "list", "sweep"},
                defs : SUBSET Point, keep : SUBSET Point, rows : SUBSET Point, noSpeed : BOOLEAN]

TreeTypeOK ==
    /\ key \in BOOLEAN /\ members \subseteq Lamps /\ swept \subseteq Lamps /\ unbuilt \subseteq Lamps
    /\ lamp \in [Lamps -> LampState]
    /\ points \in [Built -> SUBSET Point]
    /\ DOMAIN chain = Built /\ \A d \in Built : Len(chain[d]) <= MaxBuilds
    /\ \A d \in Built : \A i \in DOMAIN chain[d] : chain[d][i] \in BuildRecord

\* Gone(d, p): this step deletes the datapoint.
Gone(d, p) == p \in points[d] /\ p \notin points'[d]

\* The speed slider of a light, its value and its recording are deleted only by a
\* build that looked when the scene library had answered without a speed; an answer
\* that has not come, failed or was dropped proves nothing (libraryDecidesPending;
\* before 3.0.1 a start without the cache deleted it before the library arrived).
SliderNeedsAnswer ==
    \A l \in Lamps : Gone(l, "scene_speed") /\ key =>
      \E i \in DOMAIN chain[l] : chain[l][i].at = "sweep" /\ chain[l][i].noSpeed

\* No build takes away what another path owns in the same channels: the LAN
\* phase's controls and the points a report created (cleanupCloudOwnedStates).
ForeignStays == \A d \in Built : \A p \in Foreign : ~Gone(d, p)

\* When the builds of a light are through, nothing it declares is missing and
\* nothing of an older list is left, whatever arrived while a build ran or in
\* which order the phases queued (runDeviceBuild).  Excepted is a light whose
\* list or library changed in a step that queues no build, until the next one.
BuildsConverge ==
    \A l \in Lamps : chain[l] = <<>> /\ l \in swept /\ l \notin unbuilt =>
        /\ buildCloudStateDefs(l) \cup buildLanStateDefs(l) \subseteq points[l]
        /\ points[l] \subseteq buildCloudStateDefs(l) \cup Foreign \cup {"scene_speed"}

\* Refuted: "only a changed list rebuilds the tree" (cloud-merge.ts:60-61), so a changed
\* one does, and a library that came with a changed run.  The refresh button merges the
\* list of every light and builds at most its own (device-manager.ts:1375, 1403); a job
\* with a refused call returns before the build (:806-808).
ChangesAreBuilt ==
    \A l \in Lamps : chain[l] = <<>> /\ l \in swept =>
        buildCloudStateDefs(l) \cup buildLanStateDefs(l) \subseteq points[l]

\* Refuted: a light whose library has a speed keeps its slider.  A build that looked
\* before a refresh brought that library still sweeps it; the build behind brings it back
\* without its recording.
SpeedKeepsSlider ==
    [][\A l \in Lamps : Gone(l, "scene_speed") /\ key => lamp[l].lib # "speed"]_treeVars

\* Refuted: a group loses its scene list only after
\* the scenes of every member have been asked for.
GroupScenesNeedAnswers ==
    [][Gone(Group, "light_scene") => \A l \in members : lamp[l].asked]_treeVars

\* Builds of a tree end in the datapoints the device calls for, and take away
\* nothing they must not.
TreeConverges ==
  /\ [](TreeTypeOK /\ BuildsConverge)
  /\ [][SliderNeedsAnswer /\ ForeignStays]_treeVars
=============================================================================
