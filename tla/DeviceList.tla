----------------------------- MODULE DeviceList -----------------------------
(***************************************************************************)
(* The device list of the adapter and the three stores that have to agree  *)
(* on it: the map in memory (device-manager.ts), one cache file per device *)
(* (sku-cache.ts) and one object tree per device (state-manager.ts).       *)
(*                                                                         *)
(* Devices enter the map from the cache, from a LAN answer and from the    *)
(* Cloud list; three account lists (Cloud, App API, groups) decide whether *)
(* one has left the account (reconciler.ts).  File writes and tree         *)
(* deletions finish later than they are decided, and the process may stop  *)
(* at any moment.  What a list answers is any set of devices: Govee's      *)
(* answers are empty or partial at times.                                  *)
(*                                                                         *)
(* Left out: what is in a tree, names and capabilities (a device has       *)
(* capabilities or has none), pseudo groups, the 30 days for which a light *)
(* counts as LAN driven without an address.                                *)
(***************************************************************************)
EXTENDS Integers, FiniteSets, NoValue

CONSTANTS
    Lights, Sensors, Groups,   \* the devices, by the list that is authoritative for them
    LanLights,                 \* lights that can answer on the LAN
    Sku,                       \* [Device -> model]
    Homes,                     \* bound: the installations looked at, with their starts and list answers
    MaxPasses                  \* bound: cleanup passes in flight

ASSUME DeviceKinds ==
    /\ IsFiniteSet(Lights \cup Sensors \cup Groups)
    /\ Lights \cap Sensors = {} /\ Lights \cap Groups = {} /\ Sensors \cap Groups = {}
    /\ LanLights \subseteq Lights
    /\ None \notin Lights \cup Sensors \cup Groups

Device == Lights \cup Sensors \cup Groups
Source == {"cloud", "app", "group"}
EvictThreshold == 2

VARIABLES
    phase,        \* "down", "scan" (LAN started, cache not read), "up"
    known,        \* the device map
    cache,        \* per device: file on disk, write queued, payload believed written
    tree,         \* devices with an object tree
    lists,        \* the last answer of each source, this session
    cloudRead,    \* a Cloud list read is due: "no", "once" (gap reload), "retry"
    flags,        \* once-per-session flags
    passes,       \* cleanup passes in flight: the devices each one keeps
    jobs,         \* lights whose scene job runs
    budget,       \* the devices that exist, sessions and answers left (bound)
    omitted       \* history: answers of its own source that left a device out (capped)

deviceVars == <<phase, known, cache, tree, lists, cloudRead, flags, passes, jobs, budget, omitted>>

NoList == [asked |-> FALSE, ok |-> FALSE, keys |-> {}]
ListOfCountingEmpty(ks) == [asked |-> TRUE, ok |-> TRUE, keys |-> ks]   \* mutant

ListOf(ks) == [asked |-> TRUE, ok |-> ks # {}, keys |-> ks]
NoFlags == [reconcile |-> FALSE, emptyRetried |-> FALSE, gapStarted |-> FALSE,
            statesReady |-> FALSE]
Flags == [reconcile : BOOLEAN, emptyRetried : BOOLEAN, gapStarted : BOOLEAN, statesReady : BOOLEAN]

Payload == [cloud : BOOLEAN, checked : BOOLEAN, miss : 0..EvictThreshold]
Entry == [lan : LanLights \cup {None}, cloud : BOOLEAN, checked : BOOLEAN, miss : 0..EvictThreshold]

ASSUME DeviceBounds ==
    /\ Homes \subseteq [there : SUBSET Device, sessions : Nat, answers : Nat]
    /\ MaxPasses \in Nat

ASSUME NothingIsNoEntry == None \notin Payload \cup Entry

Stored == Payload \cup {None}
EmptySlot == [file |-> None, queued |-> None, written |-> None, lost |-> FALSE]

Present(kn) == {d \in Device : kn[d] # None}
Cached(e) == [cloud |-> e.cloud, checked |-> e.checked, miss |-> e.miss]

DeviceTypeOK ==
    /\ phase \in {"down", "scan", "up"}
    /\ known \in [Device -> Entry \cup {None}]
    /\ cache \in [Device -> [file : Stored, queued : Stored, written : Stored, lost : BOOLEAN]]
    /\ tree \subseteq Device
    /\ lists \in [Source -> [asked : BOOLEAN, ok : BOOLEAN, keys : SUBSET Device]]
    /\ \A s \in Source : lists[s].ok <=> lists[s].keys # {}
    /\ cloudRead \in {"no", "once", "retry"}
    /\ flags \in Flags
    /\ passes \subseteq SUBSET Device /\ Cardinality(passes) <= MaxPasses
    /\ jobs \subseteq Lights
    /\ budget \in [there : SUBSET Device, sessions : Nat, answers : Nat]
    /\ omitted \in [Device -> 0..EvictThreshold]

DeviceInit ==
    /\ phase = "down"
    /\ known = [d \in Device |-> None]
    /\ cache = [d \in Device |-> EmptySlot]
    /\ tree = {}
    /\ lists = [s \in Source |-> NoList]
    /\ cloudRead = "no"
    /\ flags = NoFlags
    /\ passes = {}
    /\ jobs = {}
    /\ budget \in Homes
    /\ omitted = [d \in Device |-> 0]

(***************************************************************************)
(* The cache.  A save of the payload believed written is skipped; writes   *)
(* of one file run one after the other, the last one wins.                 *)
(***************************************************************************)

\* Mutant: a light whose scene job failed is not saved.
SaveConfirmed(c, ds, kn) ==
    [d \in Device |->
        IF d \notin ds \/ ~kn[d].checked \/ c[d].written = Cached(kn[d]) THEN c[d]
        ELSE [c[d] EXCEPT !.written = Cached(kn[d]), !.queued = Cached(kn[d]), !.lost = FALSE]]

\* SkuCache.save of the devices ds as kn has them.
Save(c, ds, kn) ==
    [d \in Device |->
        IF d \notin ds \/ c[d].written = Cached(kn[d]) THEN c[d]
        ELSE [c[d] EXCEPT !.written = Cached(kn[d]), !.queued = Cached(kn[d]), !.lost = FALSE]]

\* Mutant: the file goes, what was believed written stays.
UnlinkOnly(c, ds) == [d \in Device |-> IF d \in ds THEN [c[d] EXCEPT !.file = None] ELSE c[d]]

\* evictDevice, pruneStale: the file goes, and what was believed written.
Unlink(c, ds) ==
    [d \in Device |-> IF d \in ds THEN [c[d] EXCEPT !.file = None, !.written = None] ELSE c[d]]

\* saveDevicesToCache: every device but a light whose scenes were not asked.
Cacheable(kn) == {d \in Present(kn) : d \in Lights => kn[d].checked}

WriteLands(d) ==
    /\ phase # "down" /\ cache[d].queued # None
    /\ cache' = [cache EXCEPT ![d].file = cache[d].queued, ![d].queued = None]
    /\ UNCHANGED <<phase, known, tree, lists, cloudRead, flags, passes, jobs, budget, omitted>>

WriteFails(d) ==
    /\ phase # "down" /\ cache[d].queued # None
    /\ cache' = [cache EXCEPT ![d].queued = None, ![d].lost = TRUE,
                              ![d].written = IF @ = cache[d].queued THEN None ELSE @]
    /\ UNCHANGED <<phase, known, tree, lists, cloudRead, flags, passes, jobs, budget, omitted>>

(***************************************************************************)
(* The reconciler: who missed, who goes.                                   *)
(***************************************************************************)

authoritativeKind(d) ==
    IF d \in Groups THEN "group" ELSE IF d \in Sensors THEN "app" ELSE "cloud"

Owned(d, L) == \E s \in Source : L[s].ok /\ d \in L[s].keys

OnLan(e) == e # None /\ e.lan # None

Least(a, b) == IF a < b THEN a ELSE b

\* Mutant: any plausible list counts as a miss.
MissedByAny(d, refreshed, L) == L[refreshed].ok

\* The authoritative source of d has just answered plausibly, without d.
MissedBy(d, refreshed, L) == authoritativeKind(d) = refreshed /\ L[refreshed].ok

MissesAfter(kn, refreshed, L, d) ==
    IF kn[d].lan # None \/ Owned(d, L) THEN 0
    ELSE IF MissedBy(d, refreshed, L) THEN Least(kn[d].miss + 1, EvictThreshold)
    ELSE kn[d].miss

Judging(L) == flags.reconcile /\ \E s \in Source : L[s].ok

\* runAccountReconcile, the counters; an eviction takes an increment.
MissesCounted(kn, refreshed, L) ==
    IF Judging(L)
    THEN [d \in Device |-> IF kn[d] = None THEN None
                           ELSE [kn[d] EXCEPT !.miss = MissesAfter(kn, refreshed, L, d)]]
    ELSE kn

Evicted(kn, refreshed, L) ==
    IF Judging(L)
    THEN {d \in Present(kn) : /\ kn[d].lan = None /\ ~Owned(d, L) /\ MissedBy(d, refreshed, L)
                              /\ kn[d].miss + 1 >= EvictThreshold}
    ELSE {}

Without(kn, ds) == [d \in Device |-> IF d \in ds THEN None ELSE kn[d]]

Noted(refreshed, L) ==
    omitted' = [d \in Device |->
        IF authoritativeKind(d) = refreshed /\ L[refreshed].ok /\ d \notin L[refreshed].keys
        THEN Least(omitted[d] + 1, EvictThreshold) ELSE omitted[d]]

(***************************************************************************)
(* The cleanup of object trees: what to keep is settled at once, the       *)
(* deletion follows a database call later.                                 *)
(***************************************************************************)

hasKnownPopulation(L) == \E s \in Source : L[s].ok
accountListed(L) == UNION {L[s].keys : s \in {t \in Source : L[t].ok}}

Gap(kn, L) ==
    /\ ~flags.gapStarted /\ ~L["cloud"].asked
    /\ \E s \in {"app", "group"} : L[s].ok /\ ~(L[s].keys \subseteq Present(kn))

\* reapStaleDevices with the map kn and the lists L, when a step calls for it.
Reap(called, kn, L) ==
    IF called /\ hasKnownPopulation(L)
    THEN IF Gap(kn, L)
         THEN /\ cloudRead' = "once"
              /\ flags' = [flags EXCEPT !.gapStarted = TRUE]
              /\ UNCHANGED passes
         ELSE /\ passes' = passes \cup {Present(kn) \cup accountListed(L)}
              /\ UNCHANGED <<cloudRead, flags>>
    ELSE UNCHANGED <<cloudRead, flags, passes>>

CleanupTimer ==
    /\ phase = "up"
    /\ passes = {}
    /\ Reap(TRUE, known, lists)
    /\ UNCHANGED <<phase, known, tree, lists, jobs, budget, omitted, cache>>

CleanupDeletes(keep) ==
    /\ phase # "down"
    /\ tree' = tree \cap keep
    /\ passes' = passes \ {keep}
    /\ UNCHANGED <<phase, known, lists, cloudRead, flags, jobs, budget, omitted, cache>>

(***************************************************************************)
(* Start, stop, LAN.                                                       *)
(***************************************************************************)

Boot ==
    /\ phase = "down" /\ budget.sessions > 0
    /\ phase' = "scan"
    /\ budget' = [budget EXCEPT !.sessions = @ - 1]
    /\ UNCHANGED <<known, cache, tree, lists, cloudRead, flags, passes, jobs, omitted>>

\* The process ends: what was only in memory is gone, a queued write is lost.
Stop ==
    /\ phase # "down"
    /\ phase' = "down"
    /\ known' = [d \in Device |-> None]
    /\ cache' = [d \in Device |-> [EmptySlot EXCEPT !.file = cache[d].file]]
    /\ lists' = [s \in Source |-> NoList]
    /\ cloudRead' = "no" /\ flags' = NoFlags /\ passes' = {} /\ jobs' = {}
    /\ UNCHANGED <<tree, budget, omitted>>

cachedToGoveeDevice(f) == [lan |-> None, cloud |-> f.cloud, checked |-> f.checked, miss |-> f.miss]

mergeCachedIntoLive(e, f) == [cachedToGoveeDevice(f) EXCEPT !.lan = e.lan]

\* The phase callbacks after the cache: a group waits for its members.
LoadCache ==
    /\ phase = "scan"
    /\ phase' = "up"
    /\ known' = [d \in Device |->
           IF cache[d].file = None THEN known[d]
           ELSE IF known[d] = None THEN cachedToGoveeDevice(cache[d].file)
           ELSE mergeCachedIntoLive(known[d], cache[d].file)]
    /\ tree' = tree \cup {d \in Present(known') \ Groups : known'[d].cloud \/ known'[d].lan # None}
    /\ cloudRead' = IF (\A d \in Device : cache[d].file = None) \/ Present(known') \cap Lights # {}
                    THEN "retry" ELSE "no"
    /\ UNCHANGED <<lists, flags, passes, jobs, budget, omitted, cache>>

\* The ready line comes once, with the later of the two, and saves the list
\* (checkAllReady; it may also wait for a channel this model does not have).
checkAllReady(f, logged) ==
    cache' = IF f.reconcile /\ f.statesReady /\ logged THEN Save(cache, Cacheable(known), known) ELSE cache

LanScanDone(logged) ==
    /\ phase # "down" /\ ~flags.reconcile
    /\ flags' = [flags EXCEPT !.reconcile = TRUE]
    /\ checkAllReady(flags', logged)
    /\ UNCHANGED <<phase, known, tree, lists, cloudRead, passes, jobs, budget, omitted>>

finishStart(logged) ==
    /\ phase = "up" /\ ~flags.statesReady
    /\ flags' = [flags EXCEPT !.statesReady = TRUE]
    /\ checkAllReady(flags', logged)
    /\ UNCHANGED <<phase, known, tree, lists, cloudRead, passes, jobs, budget, omitted>>

\* findDeviceForLanDiscovery: by id, else the only device of the model without an address.
LanMatch(d) ==
    LET same == {x \in Present(known) : Sku[x] = Sku[d] /\ known[x].lan = None}
    IN  IF known[d] # None THEN {d} ELSE IF Cardinality(same) = 1 THEN same ELSE {}

LanOnly(d) == [lan |-> d, cloud |-> FALSE, checked |-> FALSE, miss |-> 0]

handleLanDiscovery(d) ==
    /\ phase # "down"
    /\ IF LanMatch(d) = {}
       THEN /\ known' = [known EXCEPT ![d] = LanOnly(d)]
            /\ tree' = tree \cup {d}
       ELSE \E x \in LanMatch(d) :
            /\ known' = [known EXCEPT ![x].lan = d]
            /\ tree' = IF known[x].lan = None THEN tree \cup {x} ELSE tree
    /\ UNCHANGED <<phase, lists, cloudRead, flags, passes, jobs, budget, omitted, cache>>

(***************************************************************************)
(* The account lists.                                                      *)
(***************************************************************************)

Answer ==
    /\ phase = "up" /\ budget.answers > 0
    /\ budget' = [budget EXCEPT !.answers = @ - 1]

CloudOnly == [lan |-> None, cloud |-> TRUE, checked |-> FALSE, miss |-> 0]

mergeCloudDevices(ks) ==
    [d \in Device |-> IF d \notin ks THEN known[d]
                      ELSE IF known[d] = None THEN CloudOnly
                      ELSE [known[d] EXCEPT !.cloud = TRUE]]

OtherEvidence == Present(known) # {} \/ lists["app"].keys # {}

\* The first empty list of a session that contradicts what is known is retried.
EmptyCloudList ==
    /\ Answer /\ cloudRead # "no"
    /\ ~flags.emptyRetried /\ OtherEvidence
    /\ flags' = [flags EXCEPT !.emptyRetried = TRUE]
    /\ cloudRead' = IF cloudRead = "once" THEN "no" ELSE cloudRead
    /\ UNCHANGED <<phase, known, tree, lists, passes, jobs, omitted, cache>>

\* loadFromCloud with an accepted list: merge, start the scene jobs, reconcile,
\* prune old files, save, build the trees when the merge changed something.
loadFromCloud(ks, old) ==
    LET merged == mergeCloudDevices(ks)
        L == [lists EXCEPT !["cloud"] = ListOf(ks)]
        out == Evicted(merged, "cloud", L)
        kept == Without(MissesCounted(merged, "cloud", L), out)
        changed == merged # known
    IN  /\ Answer /\ cloudRead # "no"
        /\ ks = {} => flags.emptyRetried \/ ~OtherEvidence
        /\ old \subseteq {d \in Device : cache[d].file # None /\ ~OnLan(known[d])}
        /\ ks = {} => old = {}
        /\ known' = kept
        /\ lists' = L
        /\ jobs' = jobs \cup (ks \cap Lights)
        /\ cache' = LET evicted == IF out = {} THEN cache ELSE Save(Unlink(cache, out), Cacheable(kept), kept)
                    IN  Save(Unlink(evicted, old), Cacheable(kept), kept)
        /\ tree' = IF changed THEN tree \cup (Present(kept) \ Groups) ELSE tree
        /\ passes' = IF out # {} \/ (changed /\ flags.statesReady)
                     THEN passes \cup (IF hasKnownPopulation(L) THEN {Present(kept) \cup accountListed(L)} ELSE {})
                     ELSE passes
        /\ cloudRead' = "no"
        /\ flags' = IF ks # {} THEN [flags EXCEPT !.emptyRetried = FALSE] ELSE flags
        /\ Noted("cloud", L)
        /\ UNCHANGED phase

CloudListFails ==
    /\ Answer /\ cloudRead = "once"
    /\ cloudRead' = "no"
    /\ UNCHANGED <<phase, known, tree, lists, flags, passes, jobs, omitted, cache>>

\* The button info.manualSyncDevices asks for the Cloud list and runs a cleanup
\* after it (CleanupTimer may follow the answer).
ManualSync ==
    /\ phase = "up" /\ cloudRead = "no" /\ budget.answers > 0
    /\ cloudRead' = "retry"
    /\ UNCHANGED <<phase, known, tree, lists, flags, passes, jobs, budget, omitted, cache>>

\* The per-device refresh of a light: the fresh list is merged, and only the
\* target is followed up.
refreshSceneDataForDevice(d, ks) ==
    /\ Answer /\ d \in Lights /\ known[d] # None
    /\ known' = mergeCloudDevices(ks)
    /\ jobs' = jobs \cup {d}
    /\ UNCHANGED <<phase, tree, lists, cloudRead, flags, passes, omitted, cache>>

hasDeviceNeedingAppApi ==
    \E d \in Present(known) : d \in Sensors \/ (d \in Lights /\ known[d].lan = None)

\* pollAppApi: a sensor whose gateway became known is saved and rebuilt.
pollAppApi(ks, gatewayFound) ==
    LET L == [lists EXCEPT !["app"] = ListOf(ks)]
        out == Evicted(known, "app", L)
        kept == Without(MissesCounted(known, "app", L), out)
        noted == IF gatewayFound = {} THEN cache ELSE Save(cache, Cacheable(known), known)
    IN  /\ Answer /\ hasDeviceNeedingAppApi
        /\ gatewayFound \subseteq ks \cap Sensors \cap Present(known)
        /\ known' = kept
        /\ lists' = L
        /\ cache' = IF out = {} THEN noted ELSE Save(Unlink(noted, out), Cacheable(kept), kept)
        /\ tree' = tree \cup gatewayFound
        /\ Reap(out # {} \/ (gatewayFound # {} /\ flags.statesReady), kept, L)
        /\ Noted("app", L)
        /\ UNCHANGED <<phase, jobs>>

\* loadGroupMembers; some of the listed groups have members in the map.
loadGroupMembers(ks, resolved) ==
    LET L == [lists EXCEPT !["group"] = ListOf(ks)]
        out == IF ks = {} THEN {} ELSE Evicted(known, "group", L)
        kept == IF ks = {} THEN known ELSE Without(MissesCounted(known, "group", L), out)
        built == resolved # {}
    IN  /\ Answer
        /\ resolved \subseteq ks \cap Present(known)
        /\ resolved # {} => Present(known) \ Groups # {}
        /\ known' = kept
        /\ lists' = L
        /\ cache' = IF out = {} THEN cache ELSE Save(Unlink(cache, out), Cacheable(kept), kept)
        /\ tree' = tree \cup resolved
        /\ Reap(out # {} \/ (built /\ flags.statesReady), kept, L)
        /\ Noted("group", L)
        /\ UNCHANGED <<phase, jobs>>

GroupListFails ==
    /\ Answer
    /\ lists' = [lists EXCEPT !["group"] = [NoList EXCEPT !.asked = TRUE]]
    /\ UNCHANGED <<phase, known, tree, cloudRead, flags, passes, jobs, omitted, cache>>

(***************************************************************************)
(* A scene job ends: answered, or cancelled or failed (then the light is   *)
(* saved unconfirmed).  It works on the device it was started for, even    *)
(* when that one has left the map meanwhile.                               *)
(***************************************************************************)
SceneJobEnds(d, answered, changed) ==
    LET e == IF known[d] = None THEN [CloudOnly EXCEPT !.miss = EvictThreshold] ELSE known[d]
        after == [e EXCEPT !.checked = answered]
    IN  /\ phase = "up" /\ d \in jobs
        /\ changed => answered
        /\ jobs' = jobs \ {d}
        /\ known' = IF known[d] = None THEN known ELSE [known EXCEPT ![d] = after]
        /\ cache' = Save(cache, {d}, [known EXCEPT ![d] = after])
        /\ tree' = IF changed THEN tree \cup {d} ELSE tree
        /\ Reap(changed /\ flags.statesReady, known, lists)
        /\ UNCHANGED <<phase, lists, budget, omitted>>

Lists ==
    \/ EmptyCloudList
    \/ CloudListFails
    \/ \E ks \in SUBSET budget.there, old \in SUBSET Device : loadFromCloud(ks, old)
    \/ ManualSync
    \/ \E d \in Lights, ks \in SUBSET budget.there : refreshSceneDataForDevice(d, ks)
    \/ \E ks \in SUBSET (budget.there \ Groups), gw \in SUBSET Sensors : pollAppApi(ks, gw)
    \/ \E ks \in SUBSET (budget.there \cap Groups), res \in SUBSET Groups : loadGroupMembers(ks, res)
    \/ GroupListFails

DeviceNext ==
    \/ Boot \/ Stop \/ LoadCache
    \/ \E logged \in BOOLEAN : LanScanDone(logged) \/ finishStart(logged)
    \/ \E d \in LanLights \cap budget.there : handleLanDiscovery(d)
    \/ \E d \in Device : WriteLands(d) \/ WriteFails(d)
    \/ \E d \in Lights, a, c \in BOOLEAN : SceneJobEnds(d, a, c)
    \/ CleanupTimer
    \/ \E keep \in passes : CleanupDeletes(keep)
    \/ Lists

DeviceSpec == DeviceInit /\ [][DeviceNext /\ Cardinality(passes') <= MaxPasses]_deviceVars

(***************************************************************************)
(* Properties.                                                             *)
(***************************************************************************)

\* A save is skipped only against a file that holds the payload, or is about
\* to: whatever was evicted, pruned or failed in between (sku-cache.ts, save).
SkippedSaveIsOnDisk ==
    \A d \in Device : cache[d].written # None => cache[d].written \in {cache[d].queued, cache[d].file}

\* A light the Cloud list named keeps its place in the cache once its scene
\* job is over, however that job ended and whatever was pruned: the next start
\* from the cache has to know it (H6).  A failed write excuses.
ListedLightIsCached ==
    \A d \in Lights :
        (known[d] # None /\ lists["cloud"].ok /\ d \in lists["cloud"].keys /\ d \notin jobs)
            => cache[d].file # None \/ cache[d].queued # None \/ cache[d].lost

\* No device leaves the map on the word of one answer: over its whole life, its
\* own source has left it out at least twice (reconciler.ts, the debounce).
EvictionIsDebounced ==
    [][\A d \in Device :
        (phase = "up" /\ phase' = "up" /\ known[d] # None /\ known'[d] = None)
            => omitted'[d] >= EvictThreshold]_deviceVars

\* Refuted: after an accepted Cloud list every device of the map is onboarded.
SyncOnboards ==
    [][lists'["cloud"] # lists["cloud"] /\ lists'["cloud"].ok
        => \A d \in lists'["cloud"].keys \ Groups : known'[d] # None => d \in tree']_deviceVars

\* Refuted: a tree goes only when the list that is authoritative for its device
\* has answered in this session.
DeletionNeedsKnowledge ==
    [][\A d \in tree \ tree' : lists[authoritativeKind(d)].ok]_deviceVars

\* Refuted: an evicted device is out of the cache too.
EvictedStaysGone ==
    \A d \in Device : (phase = "up" /\ cache[d].file # None /\ cache[d].file.miss >= EvictThreshold) => known[d] # None

\* The cache file of a device is what the map believes of it, and no listed
\* light is without one.
CacheHoldsTheList ==
  /\ DeviceTypeOK
  /\ SkippedSaveIsOnDisk
  /\ ListedLightIsCached
=============================================================================
