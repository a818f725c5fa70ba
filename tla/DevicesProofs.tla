--------------------------- MODULE DevicesProofs ---------------------------
(***************************************************************************)
(* Proofs about the parts MCDevices checks side by side.  Each theorem is  *)
(* about the specification of one part.                                    *)
(***************************************************************************)
EXTENDS DeviceList, LanDiscovery, IdMove, KeyMigration, SavedLogin,
        FiniteSetTheorems, WellFoundedInduction, TLAPS

-----------------------------------------------------------------------------
(* DeviceList                                                              *)

DeviceMap == [Device -> Entry \cup {None}]
CacheSlot == [file : Stored, queued : Stored, written : Stored, lost : BOOLEAN]
AccountLists == {L \in [Source -> [asked : BOOLEAN, ok : BOOLEAN, keys : SUBSET Device]] :
               \A s \in Source : L[s].ok <=> L[s].keys # {}}
Omissions == [Device -> 0..EvictThreshold]

(* What a save believes written is the payload of the last write of the    *)
(* file, queued or landed.                                                 *)
SlotIsHonest(s) == s.written # None => s.written = IF s.queued # None THEN s.queued ELSE s.file
HasPlace(s) == s.file # None \/ s.queued # None \/ s.lost

(* The misses on a device, in memory or in its file, were all answers that *)
(* left it out.                                                            *)
KnownWithin(kn, om) == \A d \in Device : kn[d] # None => kn[d].miss <= om[d]
SlotWithin(s, m) == (s.file # None => s.file.miss <= m) /\ (s.queued # None => s.queued.miss <= m)

CacheHolds(c, om) ==
  /\ c \in [Device -> CacheSlot]
  /\ \A d \in Device : SlotIsHonest(c[d]) /\ SlotWithin(c[d], om[d])

NotedAfter(om, s, L) ==
  [d \in Device |-> IF authoritativeKind(d) = s /\ L[s].ok /\ d \notin L[s].keys
                    THEN Least(om[d] + 1, EvictThreshold) ELSE om[d]]

(* A device the Cloud list names stays in the map, and its light has a     *)
(* place in the cache or a job that will give it one.                      *)
ListedIsKnown == lists["cloud"].ok => \A d \in lists["cloud"].keys : known[d] # None
ListedIsPlaced ==
  \A d \in Lights :
    (lists["cloud"].ok /\ d \in lists["cloud"].keys /\ d \notin jobs) => HasPlace(cache[d])

(* A device left the map under its scene job by an eviction only.          *)
JobsOutliveEviction == \A d \in jobs : known[d] = None => omitted[d] = EvictThreshold

(* The types of everything but the map and the cache.                      *)
OthersTyped ==
  /\ phase \in {"down", "scan", "up"} /\ tree \subseteq Device
  /\ lists \in AccountLists /\ cloudRead \in {"no", "once", "retry"}
  /\ flags \in Flags
  /\ passes \subseteq SUBSET Device /\ Cardinality(passes) <= MaxPasses
  /\ jobs \subseteq Lights /\ budget \in [there : SUBSET Device, sessions : Nat, answers : Nat]
  /\ omitted \in Omissions

ListInv ==
  /\ OthersTyped
  /\ known \in DeviceMap
  /\ CacheHolds(cache, omitted)
  /\ KnownWithin(known, omitted)
  /\ ListedIsKnown
  /\ ListedIsPlaced
  /\ JobsOutliveEviction

(* A save keeps every slot honest and leaves its devices with a place      *)
(* (SkuCache.save).                                                        *)
LEMMA SaveHolds ==
  ASSUME NEW c, NEW om \in Omissions, CacheHolds(c, om), NEW kn \in DeviceMap, KnownWithin(kn, om),
         NEW ds \in SUBSET Present(kn)
  PROVE  /\ CacheHolds(Save(c, ds, kn), om)
         /\ \A d \in Device : HasPlace(c[d]) \/ d \in ds => HasPlace(Save(c, ds, kn)[d])
<1> DEFINE s == Save(c, ds, kn)
<1> SUFFICES ASSUME NEW d \in Device
             PROVE  /\ s[d] \in CacheSlot /\ SlotIsHonest(s[d]) /\ SlotWithin(s[d], om[d])
                    /\ HasPlace(c[d]) \/ d \in ds => HasPlace(s[d])
  BY DEF CacheHolds, Save
<1>1. c[d] \in CacheSlot /\ SlotIsHonest(c[d]) /\ SlotWithin(c[d], om[d])
  BY DEF CacheHolds
<1>2. CASE d \notin ds
  <2>1. s[d] = c[d]
    BY <1>2 DEF Save
  <2> QED
    BY <1>1, <1>2, <2>1
<1>3. CASE d \in ds
  <2>1. kn[d] \in Entry /\ kn[d].miss <= om[d]
    BY <1>3 DEF DeviceMap, Present, KnownWithin
  <2>2. Cached(kn[d]) \in Payload /\ Cached(kn[d]) # None /\ Cached(kn[d]).miss = kn[d].miss
    BY <2>1, NothingIsNoEntry DEF Cached, Payload, Entry
  <2>3. CASE c[d].written = Cached(kn[d])
    <3>1. s[d] = c[d]
      BY <2>3 DEF Save
    <3> QED
      BY <1>1, <2>2, <2>3, <3>1 DEF SlotIsHonest, HasPlace
  <2>4. CASE c[d].written # Cached(kn[d])
    <3>1. s[d] = [c[d] EXCEPT !.written = Cached(kn[d]), !.queued = Cached(kn[d]), !.lost = FALSE]
      BY <1>3, <2>4 DEF Save
    <3> HIDE DEF s
    <3> QED
      BY <1>1, <2>1, <2>2, <3>1 DEF SlotIsHonest, SlotWithin, HasPlace, CacheSlot, Stored
  <2> QED
    BY <2>3, <2>4
<1> QED
  BY <1>2, <1>3

(* A deleted file takes what was believed written along (evictDevice,      *)
(* pruneStale).                                                            *)
LEMMA UnlinkHolds ==
  ASSUME NEW c, NEW om \in Omissions, CacheHolds(c, om), NEW ds
  PROVE  /\ CacheHolds(Unlink(c, ds), om)
         /\ \A d \in Device \ ds : Unlink(c, ds)[d] = c[d]
  BY DEF CacheHolds, Unlink, SlotIsHonest, SlotWithin, CacheSlot, Stored

(* More omissions only leave more room.                                    *)
LEMMA OmissionsGrow ==
  ASSUME NEW om \in Omissions, NEW s \in Source, NEW L \in AccountLists
  PROVE  /\ NotedAfter(om, s, L) \in Omissions
         /\ \A d \in Device : om[d] <= NotedAfter(om, s, L)[d]
         /\ \A c : CacheHolds(c, om) => CacheHolds(c, NotedAfter(om, s, L))
         /\ \A kn \in DeviceMap : KnownWithin(kn, om) => KnownWithin(kn, NotedAfter(om, s, L))
<1>1. NotedAfter(om, s, L) \in Omissions /\ \A d \in Device : om[d] <= NotedAfter(om, s, L)[d]
  BY DEF NotedAfter, Omissions, Least, EvictThreshold
<1>2. \A d \in Device : om[d] \in Int /\ NotedAfter(om, s, L)[d] \in Int
  BY <1>1 DEF Omissions, EvictThreshold
<1>3. \A kn \in DeviceMap : KnownWithin(kn, om) => KnownWithin(kn, NotedAfter(om, s, L))
  <2> SUFFICES ASSUME NEW kn \in DeviceMap, KnownWithin(kn, om), NEW d \in Device, kn[d] # None
               PROVE  kn[d].miss <= NotedAfter(om, s, L)[d]
    BY DEF KnownWithin
  <2>1. kn[d] \in Entry /\ kn[d].miss <= om[d]
    BY DEF DeviceMap, KnownWithin
  <2>2. kn[d].miss \in Int
    BY <2>1 DEF Entry, EvictThreshold
  <2> QED
    BY <1>1, <1>2, <2>1, <2>2
<1>4. ASSUME NEW c, CacheHolds(c, om)
      PROVE  CacheHolds(c, NotedAfter(om, s, L))
  <2> SUFFICES ASSUME NEW d \in Device
               PROVE  SlotWithin(c[d], NotedAfter(om, s, L)[d])
    BY <1>4 DEF CacheHolds
  <2>1. c[d] \in CacheSlot /\ SlotWithin(c[d], om[d])
    BY <1>4 DEF CacheHolds
  <2>2. /\ c[d].file # None => c[d].file.miss \in Int
        /\ c[d].queued # None => c[d].queued.miss \in Int
    BY <2>1 DEF CacheSlot, Stored, Payload, EvictThreshold
  <2> QED
    BY <1>1, <1>2, <2>1, <2>2 DEF SlotWithin
<1> QED
  BY <1>1, <1>3, <1>4

(* The reconciler evicts only who was left out by its own source for the   *)
(* second time, and nobody another list names (runAccountReconcile).       *)
LEMMA ReconcilerIsFair ==
  ASSUME NEW kn \in DeviceMap, NEW om \in Omissions, KnownWithin(kn, om), NEW s \in Source,
         NEW L \in AccountLists
  PROVE  LET out == Evicted(kn, s, L)
             kept == Without(MissesCounted(kn, s, L), out)
             after == NotedAfter(om, s, L)
         IN  /\ kept \in DeviceMap /\ out \subseteq Present(kn)
             /\ \A d \in Device : kept[d] # None <=> kn[d] # None /\ d \notin out
             /\ \A d \in out : after[d] = EvictThreshold /\ ~Owned(d, L)
             /\ KnownWithin(kept, after)
<1> DEFINE out == Evicted(kn, s, L)
           counted == MissesCounted(kn, s, L)
           after == NotedAfter(om, s, L)
           kept == Without(counted, out)
<1>1. out \subseteq Present(kn) /\ \A d \in out : after[d] = EvictThreshold /\ ~Owned(d, L)
  <2> SUFFICES ASSUME NEW d \in out
               PROVE  d \in Present(kn) /\ after[d] = EvictThreshold /\ ~Owned(d, L)
    OBVIOUS
  <2>1. d \in Present(kn) /\ ~Owned(d, L) /\ MissedBy(d, s, L)
        /\ kn[d].miss + 1 >= EvictThreshold
    BY DEF Evicted
  <2>2. d \in Device /\ kn[d] \in Entry /\ kn[d].miss <= om[d]
    BY <2>1 DEF Present, DeviceMap, KnownWithin
  <2>3. d \notin L[s].keys /\ L[s].ok /\ authoritativeKind(d) = s
    BY <2>1 DEF Owned, MissedBy
  <2>4. after[d] = Least(om[d] + 1, EvictThreshold)
    BY <2>2, <2>3 DEF NotedAfter
  <2> QED
    BY <2>1, <2>2, <2>4 DEF Least, EvictThreshold, Entry, Omissions
<1>2. counted \in DeviceMap /\ \A d \in Device : counted[d] # None <=> kn[d] # None
  <2> SUFFICES ASSUME NEW d \in Device
               PROVE  counted[d] \in Entry \cup {None} /\ (counted[d] # None <=> kn[d] # None)
    BY DEF MissesCounted, DeviceMap
  <2>1. CASE counted[d] = kn[d]
    BY <2>1 DEF DeviceMap
  <2>2. CASE kn[d] # None /\ counted[d] = [kn[d] EXCEPT !.miss = MissesAfter(kn, s, L, d)]
    <3>1. kn[d] \in Entry
      BY <2>2 DEF DeviceMap
    <3>2. MissesAfter(kn, s, L, d) \in 0..EvictThreshold
      BY <3>1 DEF MissesAfter, Least, EvictThreshold, Entry
    <3>3. counted[d] \in Entry
      BY <2>2, <3>1, <3>2 DEF Entry
    <3> QED
      BY <2>2, <3>3, NothingIsNoEntry
  <2> QED
    BY <2>1, <2>2 DEF MissesCounted
<1>3. ASSUME NEW d \in Device, kn[d] # None
      PROVE  counted[d].miss <= after[d]
  <2>1. kn[d] \in Entry /\ kn[d].miss <= om[d] /\ om[d] \in 0..EvictThreshold
    BY <1>3 DEF DeviceMap, KnownWithin, Omissions
  <2>2. om[d] <= after[d] /\ after[d] \in 0..EvictThreshold
    BY OmissionsGrow DEF Omissions
  <2>3. CASE counted[d] = kn[d]
    BY <2>1, <2>2, <2>3 DEF Entry, EvictThreshold
  <2>4. CASE counted[d] = [kn[d] EXCEPT !.miss = MissesAfter(kn, s, L, d)]
    <3>1. counted[d].miss = MissesAfter(kn, s, L, d)
      BY <2>1, <2>4 DEF Entry
    <3>2. CASE kn[d].lan # None \/ Owned(d, L)
      BY <2>2, <3>1, <3>2 DEF MissesAfter
    <3>3. CASE ~Owned(d, L) /\ MissedBy(d, s, L) /\ kn[d].lan = None
      <4>1. after[d] = Least(om[d] + 1, EvictThreshold)
        BY <3>3 DEF NotedAfter, MissedBy, Owned
      <4>2. counted[d].miss = Least(kn[d].miss + 1, EvictThreshold)
        BY <3>1, <3>3 DEF MissesAfter
      <4> QED
        BY <2>1, <4>1, <4>2 DEF Least, EvictThreshold, Entry
    <3>4. CASE ~MissedBy(d, s, L) /\ ~Owned(d, L) /\ kn[d].lan = None
      BY <2>1, <2>2, <3>1, <3>4 DEF MissesAfter, Entry, EvictThreshold
    <3> QED
      BY <3>2, <3>3, <3>4
  <2> QED
    BY <1>3, <2>3, <2>4 DEF MissesCounted
<1>4. /\ kept \in DeviceMap
      /\ \A d \in Device : kept[d] # None <=> kn[d] # None /\ d \notin out
      /\ KnownWithin(kept, after)
  <2> HIDE DEF counted, out, after
  <2> QED
    BY <1>2, <1>3 DEF Without, DeviceMap, KnownWithin
<1> QED
  BY <1>1, <1>4

(* A fresh installation has nothing to disagree on.                        *)
LEMMA ListInvStarts == DeviceInit => ListInv
<1> SUFFICES ASSUME DeviceInit PROVE ListInv
  OBVIOUS
<1> USE DEF DeviceInit
<1>1. OthersTyped
  <2>1. lists \in AccountLists
    BY DEF AccountLists, NoList, Source
  <2>2. flags \in Flags
    BY DEF NoFlags, Flags
  <2>3. passes \subseteq SUBSET Device /\ Cardinality(passes) <= MaxPasses
    BY FS_EmptySet, DeviceBounds
  <2>4. budget \in [there : SUBSET Device, sessions : Nat, answers : Nat]
    BY DeviceBounds
  <2>5. omitted \in Omissions
    BY DEF Omissions, EvictThreshold
  <2> QED
    BY <2>1, <2>2, <2>3, <2>4, <2>5 DEF OthersTyped
<1>2. known \in DeviceMap /\ KnownWithin(known, omitted)
  BY DEF DeviceMap, KnownWithin
<1>3. CacheHolds(cache, omitted)
  BY DEF CacheHolds, SlotIsHonest, SlotWithin, EmptySlot, CacheSlot, Stored
<1>4. ListedIsKnown /\ ListedIsPlaced /\ JobsOutliveEviction
  BY DEF ListedIsKnown, ListedIsPlaced, JobsOutliveEviction, NoList, Source
<1> QED
  BY <1>1, <1>2, <1>3, <1>4 DEF ListInv

(* The invariant says of the types what DeviceTypeOK says.                 *)
LEMMA ListIsTyped == ListInv => DeviceTypeOK
  BY DEF ListInv, OthersTyped, DeviceTypeOK, AccountLists, Omissions, CacheHolds, DeviceMap,
     CacheSlot

(* The steps that change neither the map, the cache nor the lists.         *)
LEMMA OthersStep ==
  ASSUME ListInv, OthersTyped', UNCHANGED <<known, cache, lists, jobs, omitted>>
  PROVE  ListInv'
  BY DEF ListInv, CacheHolds, KnownWithin, ListedIsKnown, ListedIsPlaced, JobsOutliveEviction

(* A cleanup keeps devices.                                                *)
LEMMA ReapTyped ==
  ASSUME OthersTyped, NEW kn, NEW L \in AccountLists, NEW called \in BOOLEAN, Reap(called, kn, L)
  PROVE  /\ cloudRead' \in {"no", "once", "retry"} /\ flags' \in Flags
         /\ passes' \subseteq SUBSET Device
<1>1. Present(kn) \cup accountListed(L) \subseteq Device
  BY DEF Present, accountListed, AccountLists
<1> QED
  BY <1>1 DEF Reap, OthersTyped, NoFlags, Flags

(* The map after a fresh Cloud list: nobody leaves, the listed are there   *)
(* (mergeCloudDevices).                                                    *)
LEMMA MergeAdds ==
  ASSUME NEW om \in Omissions, NEW ks \in SUBSET Device, known \in DeviceMap, KnownWithin(known, om)
  PROVE  /\ mergeCloudDevices(ks) \in DeviceMap /\ KnownWithin(mergeCloudDevices(ks), om)
         /\ \A d \in Device : mergeCloudDevices(ks)[d] # None <=> known[d] # None \/ d \in ks
<1> DEFINE merged == mergeCloudDevices(ks)
<1> SUFFICES ASSUME NEW d \in Device
             PROVE  /\ merged[d] \in Entry \cup {None}
                    /\ merged[d] # None => merged[d].miss <= om[d]
                    /\ merged[d] # None <=> known[d] # None \/ d \in ks
  BY DEF DeviceMap, KnownWithin, mergeCloudDevices
<1>1. known[d] \in Entry \cup {None} /\ (known[d] # None => known[d].miss <= om[d])
      /\ om[d] \in 0..EvictThreshold
  BY DEF DeviceMap, KnownWithin, Omissions
<1>2. CASE d \notin ks
  BY <1>1, <1>2 DEF mergeCloudDevices
<1>3. CASE d \in ks /\ known[d] = None
  <2>1. merged[d] = CloudOnly
    BY <1>3 DEF mergeCloudDevices
  <2>2. CloudOnly \in Entry /\ CloudOnly.miss = 0
    BY DEF CloudOnly, Entry, EvictThreshold
  <2> QED
    BY <1>1, <1>3, <2>1, <2>2, NothingIsNoEntry DEF EvictThreshold
<1>4. CASE d \in ks /\ known[d] # None
  <2>1. merged[d] = [known[d] EXCEPT !.cloud = TRUE]
    BY <1>4 DEF mergeCloudDevices
  <2>2. merged[d] \in Entry /\ merged[d].miss = known[d].miss
    BY <1>1, <1>4, <2>1 DEF Entry
  <2> QED
    BY <1>1, <1>4, <2>2, NothingIsNoEntry
<1> QED
  BY <1>2, <1>3, <1>4

(* One more answer keeps the lists typed.                                  *)
LEMMA AnswerTyped ==
  ASSUME OthersTyped, NEW s \in Source, NEW ks \in SUBSET Device
  PROVE  [lists EXCEPT ![s] = ListOf(ks)] \in AccountLists
  BY DEF OthersTyped, AccountLists, ListOf

(* Every step keeps the map, the cache and the counters in agreement.      *)
LEMMA ListInvKept ==
  ASSUME ListInv, DeviceNext, Cardinality(passes') <= MaxPasses
  PROVE  ListInv'
<1> USE DEF EvictThreshold
<1>1. CASE Boot
  BY <1>1, OthersStep DEF Boot, ListInv, OthersTyped
<1>2. CASE Stop
  <2>1. OthersTyped'
    <3>1. lists' \in AccountLists
      BY <1>2 DEF Stop, AccountLists, NoList, Source
    <3> QED
      BY <1>2, <3>1 DEF Stop, ListInv, OthersTyped, NoFlags, Flags
  <2>2. known' \in DeviceMap /\ KnownWithin(known', omitted')
    BY <1>2 DEF Stop, DeviceMap, KnownWithin
  <2>3. CacheHolds(cache', omitted')
    BY <1>2 DEF Stop, ListInv, CacheHolds, SlotIsHonest, SlotWithin, EmptySlot, CacheSlot,
       Stored
  <2>4. ListedIsKnown' /\ ListedIsPlaced' /\ JobsOutliveEviction'
    BY <1>2 DEF Stop, ListedIsKnown, ListedIsPlaced, JobsOutliveEviction, NoList, Source
  <2> QED
    BY <2>1, <2>2, <2>3, <2>4 DEF ListInv
<1>3. CASE LoadCache
  <2>1. \A d \in Device : /\ known'[d] \in Entry \cup {None}
                          /\ known[d] # None => known'[d] # None
                          /\ known'[d] # None => known'[d].miss <= omitted[d]
    <3> SUFFICES ASSUME NEW d \in Device
                 PROVE  /\ known'[d] \in Entry \cup {None}
                        /\ known[d] # None => known'[d] # None
                        /\ known'[d] # None => known'[d].miss <= omitted[d]
      OBVIOUS
    <3>1. /\ cache[d] \in CacheSlot /\ SlotWithin(cache[d], omitted[d])
          /\ known[d] \in Entry \cup {None} /\ (known[d] # None => known[d].miss <= omitted[d])
      BY DEF ListInv, CacheHolds, DeviceMap, KnownWithin
    <3>2. CASE cache[d].file = None
      BY <1>3, <3>1, <3>2 DEF LoadCache
    <3>3. CASE cache[d].file # None
      <4>1. cache[d].file \in Payload /\ cache[d].file.miss <= omitted[d]
        BY <3>1, <3>3 DEF CacheSlot, Stored, SlotWithin
      <4>2. /\ known'[d] \in Entry
            /\ known'[d].miss = cache[d].file.miss
        BY <1>3, <3>1, <3>3, <4>1 DEF LoadCache, cachedToGoveeDevice, mergeCachedIntoLive,
           Payload, Entry
      <4> QED
        BY <4>1, <4>2, NothingIsNoEntry
    <3> QED
      BY <3>2, <3>3
  <2>2. known' \in DeviceMap
    BY <1>3, <2>1 DEF LoadCache, DeviceMap
  <2>3. OthersTyped'
    BY <1>3 DEF LoadCache, ListInv, OthersTyped, Present
  <2>4. UNCHANGED <<cache, lists, jobs, omitted>>
    BY <1>3 DEF LoadCache
  <2>5. KnownWithin(known', omitted')
    BY <2>1, <2>4 DEF KnownWithin
  <2>6. ListedIsKnown' /\ ListedIsPlaced' /\ JobsOutliveEviction'
    BY <2>1, <2>4 DEF ListInv, OthersTyped, AccountLists, Source, ListedIsKnown, ListedIsPlaced,
       JobsOutliveEviction, Device
  <2> QED
    BY <2>2, <2>3, <2>4, <2>5, <2>6 DEF ListInv
<1>4. ASSUME NEW logged \in BOOLEAN, LanScanDone(logged) \/ finishStart(logged)
      PROVE  ListInv'
  <2>1. CacheHolds(cache', omitted) /\ \A d \in Device : HasPlace(cache[d]) => HasPlace(cache'[d])
    <3>1. CASE cache' = cache
      BY <3>1 DEF ListInv
    <3>2. CASE cache' = Save(cache, Cacheable(known), known)
      <4>1. Cacheable(known) \in SUBSET Present(known)
        BY DEF Cacheable
      <4> QED
        BY <3>2, <4>1, SaveHolds DEF ListInv, OthersTyped
    <3> QED
      BY <1>4, <3>1, <3>2 DEF LanScanDone, finishStart, checkAllReady
  <2>2. UNCHANGED <<known, lists, jobs, omitted, phase, tree, cloudRead, passes, budget>>
    BY <1>4 DEF LanScanDone, finishStart
  <2>3. flags' \in Flags
    BY <1>4 DEF LanScanDone, finishStart, ListInv, OthersTyped, NoFlags, Flags
  <2>4. OthersTyped'
    BY <2>2, <2>3 DEF ListInv, OthersTyped
  <2> QED
    BY <2>1, <2>2, <2>4 DEF ListInv, KnownWithin, ListedIsKnown, ListedIsPlaced,
       JobsOutliveEviction, Device
<1>5. ASSUME NEW d \in LanLights, handleLanDiscovery(d)
      PROVE  ListInv'
  <2>1. UNCHANGED <<phase, lists, cloudRead, flags, passes, jobs, budget, omitted, cache>>
    BY <1>5 DEF handleLanDiscovery
  <2>2. PICK x \in Device, e \in Entry :
          /\ known' = [known EXCEPT ![x] = e]
          /\ (known[x] # None => e.miss = known[x].miss) /\ (known[x] = None => e.miss = 0)
    <3>1. CASE LanMatch(d) = {}
      <4>1. known[d] = None
        BY <3>1 DEF LanMatch
      <4>2. d \in Device /\ LanOnly(d) \in Entry /\ LanOnly(d).miss = 0
        BY DeviceKinds DEF LanOnly, Entry, Device
      <4> QED
        BY <1>5, <3>1, <4>1, <4>2 DEF handleLanDiscovery
    <3>2. CASE LanMatch(d) # {}
      <4>1. PICK x \in LanMatch(d) : known' = [known EXCEPT ![x].lan = d]
        BY <1>5, <3>2 DEF handleLanDiscovery
      <4>2. x \in Device /\ known[x] # None
        BY DeviceKinds DEF LanMatch, Present, Device
      <4>3. known[x] \in Entry
        BY <4>2 DEF ListInv, DeviceMap
      <4>4. [known[x] EXCEPT !.lan = d] \in Entry
            /\ [known[x] EXCEPT !.lan = d].miss = known[x].miss
        BY <4>3 DEF Entry
      <4>5. known' = [known EXCEPT ![x] = [known[x] EXCEPT !.lan = d]]
        BY <4>1
      <4> QED
        BY <4>2, <4>4, <4>5
    <3> QED
      BY <3>1, <3>2
  <2>3. known' \in DeviceMap /\ \A y \in Device : known[y] # None => known'[y] # None
    BY <2>2, NothingIsNoEntry DEF ListInv, DeviceMap
  <2>4. KnownWithin(known', omitted)
    <3> SUFFICES ASSUME NEW y \in Device, known'[y] # None
                 PROVE  known'[y].miss <= omitted[y]
      BY DEF KnownWithin
    <3>1. omitted[y] \in 0..EvictThreshold
      BY DEF ListInv, OthersTyped, Omissions
    <3>2. CASE y = x
      BY <2>2, <3>1, <3>2 DEF ListInv, DeviceMap, KnownWithin
    <3>3. CASE y # x
      BY <2>2, <3>3 DEF ListInv, DeviceMap, KnownWithin
    <3> QED
      BY <3>2, <3>3
  <2>5. tree' \subseteq Device
    <3>1. LanMatch(d) \subseteq Device /\ d \in Device
      BY DeviceKinds DEF LanMatch, Present, Device
    <3> QED
      BY <1>5, <3>1 DEF handleLanDiscovery, ListInv, OthersTyped
  <2> QED
    BY <2>1, <2>3, <2>4, <2>5 DEF ListInv, OthersTyped, AccountLists, Source, ListedIsKnown,
       ListedIsPlaced, JobsOutliveEviction, Device
<1>6. ASSUME NEW d \in Device, WriteLands(d)
      PROVE  ListInv'
  <2>1. UNCHANGED <<phase, known, tree, lists, cloudRead, flags, passes, jobs, budget, omitted>>
    BY <1>6 DEF WriteLands
  <2>2. cache[d] \in CacheSlot /\ cache[d].queued # None /\ SlotIsHonest(cache[d])
        /\ SlotWithin(cache[d], omitted[d])
    BY <1>6 DEF WriteLands, ListInv, CacheHolds
  <2> DEFINE s == [cache[d] EXCEPT !.file = cache[d].queued, !.queued = None]
  <2>3. s \in CacheSlot /\ SlotIsHonest(s) /\ SlotWithin(s, omitted[d]) /\ HasPlace(s)
    BY <2>2 DEF CacheSlot, Stored, SlotIsHonest, SlotWithin, HasPlace
  <2>4. cache' = [cache EXCEPT ![d] = s]
    BY <1>6 DEF WriteLands, ListInv, CacheHolds, CacheSlot
  <2> HIDE DEF s
  <2>5. CacheHolds(cache', omitted) /\ \A x \in Device : HasPlace(cache[x]) => HasPlace(cache'[x])
    BY <2>3, <2>4 DEF ListInv, CacheHolds
  <2> QED
    BY <2>1, <2>5 DEF ListInv, OthersTyped, KnownWithin, ListedIsKnown, ListedIsPlaced,
       JobsOutliveEviction, Device
<1>7. ASSUME NEW d \in Device, WriteFails(d)
      PROVE  ListInv'
  <2>1. UNCHANGED <<phase, known, tree, lists, cloudRead, flags, passes, jobs, budget, omitted>>
    BY <1>7 DEF WriteFails
  <2>2. cache[d] \in CacheSlot /\ cache[d].queued # None /\ SlotIsHonest(cache[d])
        /\ SlotWithin(cache[d], omitted[d])
    BY <1>7 DEF WriteFails, ListInv, CacheHolds
  <2> DEFINE s == [cache[d] EXCEPT !.queued = None, !.lost = TRUE,
                     !.written = IF @ = cache[d].queued THEN None ELSE @]
  <2>3. s \in CacheSlot /\ SlotIsHonest(s) /\ SlotWithin(s, omitted[d]) /\ HasPlace(s)
    BY <2>2 DEF CacheSlot, Stored, SlotIsHonest, SlotWithin, HasPlace
  <2>4. cache' = [cache EXCEPT ![d] = s]
    BY <1>7 DEF WriteFails, ListInv, CacheHolds, CacheSlot
  <2> HIDE DEF s
  <2>5. CacheHolds(cache', omitted) /\ \A x \in Device : HasPlace(cache[x]) => HasPlace(cache'[x])
    BY <2>3, <2>4 DEF ListInv, CacheHolds
  <2> QED
    BY <2>1, <2>5 DEF ListInv, OthersTyped, KnownWithin, ListedIsKnown, ListedIsPlaced,
       JobsOutliveEviction, Device
<1>8. ASSUME NEW d \in Lights, NEW a \in BOOLEAN, NEW c \in BOOLEAN, SceneJobEnds(d, a, c)
      PROVE  ListInv'
  <2> DEFINE e == IF known[d] = None THEN [CloudOnly EXCEPT !.miss = EvictThreshold] ELSE known[d]
             after == [e EXCEPT !.checked = a]
             kn == [known EXCEPT ![d] = after]
  <2>1. d \in Device /\ d \in jobs /\ omitted[d] \in 0..EvictThreshold
    BY <1>8 DEF SceneJobEnds, Device, ListInv, OthersTyped, Omissions
  <2>2. e \in Entry /\ e.miss <= omitted[d]
    <3>1. CASE known[d] = None
      <4>1. e = [lan |-> None, cloud |-> TRUE, checked |-> FALSE, miss |-> 2]
        BY <3>1 DEF CloudOnly
      <4>2. omitted[d] = 2
        BY <2>1, <3>1 DEF ListInv, JobsOutliveEviction
      <4> HIDE DEF e
      <4> QED
        BY <4>1, <4>2 DEF Entry
    <3>2. CASE known[d] # None
      BY <2>1, <3>2 DEF ListInv, DeviceMap, KnownWithin
    <3> QED
      BY <3>1, <3>2
  <2>3. after \in Entry /\ after.miss <= omitted[d] /\ after # None
    BY <2>2, NothingIsNoEntry DEF Entry
  <2>4. UNCHANGED <<phase, lists, budget, omitted>> /\ jobs' = jobs \ {d}
    BY <1>8 DEF SceneJobEnds
  <2>5. known' = known \/ known' = kn
    BY <1>8 DEF SceneJobEnds
  <2>6. cache' = Save(cache, {d}, kn)
    BY <1>8 DEF SceneJobEnds
  <2>7. tree' \subseteq Device
    BY <1>8, <2>1 DEF SceneJobEnds, ListInv, OthersTyped
  <2>8. Reap(c /\ flags.statesReady, known, lists)
    BY <1>8 DEF SceneJobEnds
  <2>9. (c /\ flags.statesReady) \in BOOLEAN
    BY DEF ListInv, OthersTyped, NoFlags, Flags
  <2>10. OthersTyped'
    BY <2>4, <2>7, <2>8, <2>9, ReapTyped DEF ListInv, OthersTyped
  <2> HIDE DEF after
  <2>11. kn \in DeviceMap /\ KnownWithin(kn, omitted) /\ {d} \in SUBSET Present(kn)
    BY <2>1, <2>3 DEF ListInv, DeviceMap, KnownWithin, Present
  <2>12. CacheHolds(cache', omitted) /\ \A x \in Device : HasPlace(cache[x]) \/ x = d => HasPlace(cache'[x])
    BY <2>6, <2>11, SaveHolds DEF ListInv, OthersTyped
  <2>13. /\ known' \in DeviceMap /\ KnownWithin(known', omitted)
         /\ \A x \in Device :
              known'[x] = None <=> known[x] = None /\ (known' = known \/ x # d)
    BY <2>1, <2>3, <2>5, <2>11 DEF ListInv, DeviceMap
  <2>14. ListedIsKnown' /\ ListedIsPlaced' /\ JobsOutliveEviction'
    BY <2>4, <2>12, <2>13 DEF ListInv, OthersTyped, AccountLists, Source, ListedIsKnown,
       ListedIsPlaced, JobsOutliveEviction, Device
  <2> QED
    BY <2>4, <2>10, <2>12, <2>13, <2>14 DEF ListInv
<1>9. CASE CleanupTimer
  BY <1>9, ReapTyped, OthersStep DEF CleanupTimer, ListInv, OthersTyped
<1>10. ASSUME NEW keep \in passes, CleanupDeletes(keep)
      PROVE  ListInv'
  BY <1>10, OthersStep DEF CleanupDeletes, ListInv, OthersTyped
<1>11. CASE EmptyCloudList \/ CloudListFails \/ ManualSync
  <2>1. budget' \in [there : SUBSET Device, sessions : Nat, answers : Nat]
    BY <1>11 DEF EmptyCloudList, CloudListFails, ManualSync, Answer, ListInv, OthersTyped
  <2>2. flags' \in Flags
    BY <1>11 DEF EmptyCloudList, CloudListFails, ManualSync, NoFlags, Flags, ListInv,
       OthersTyped
  <2> QED
    BY <1>11, <2>1, <2>2, OthersStep DEF EmptyCloudList, CloudListFails, ManualSync, Answer,
       ListInv, OthersTyped
<1>12. ASSUME NEW d \in Lights, NEW ks \in SUBSET budget.there, refreshSceneDataForDevice(d, ks)
      PROVE  ListInv'
  <2>1. UNCHANGED <<phase, tree, lists, cloudRead, flags, passes, omitted, cache>>
    BY <1>12 DEF refreshSceneDataForDevice
  <2>2. budget' \in [there : SUBSET Device, sessions : Nat, answers : Nat]
        /\ ks \in SUBSET Device
    BY <1>12 DEF refreshSceneDataForDevice, Answer, ListInv, OthersTyped
  <2>3. jobs' = jobs \cup {d} /\ known' = mergeCloudDevices(ks) /\ known[d] # None
        /\ d \in Device
    BY <1>12 DEF refreshSceneDataForDevice, Device
  <2>4. OthersTyped'
    BY <2>1, <2>2, <2>3 DEF ListInv, OthersTyped
  <2>5. /\ known' \in DeviceMap /\ KnownWithin(known', omitted)
        /\ \A x \in Device : known'[x] # None <=> known[x] # None \/ x \in ks
    BY <2>2, <2>3, MergeAdds DEF ListInv, OthersTyped
  <2>6. ListedIsKnown' /\ ListedIsPlaced' /\ JobsOutliveEviction'
    BY <2>1, <2>3, <2>5 DEF ListInv, OthersTyped, AccountLists, Source, ListedIsKnown,
       ListedIsPlaced, JobsOutliveEviction, Device
  <2> QED
    BY <2>1, <2>4, <2>5, <2>6 DEF ListInv
<1>13. ASSUME NEW ks \in SUBSET budget.there, NEW old \in SUBSET Device, loadFromCloud(ks, old)
      PROVE  ListInv'
  <2> DEFINE merged == mergeCloudDevices(ks)
             L == [lists EXCEPT !["cloud"] = ListOf(ks)]
             out == Evicted(merged, "cloud", L)
             kept == Without(MissesCounted(merged, "cloud", L), out)
             after == NotedAfter(omitted, "cloud", L)
  <2>1. budget' \in [there : SUBSET Device, sessions : Nat, answers : Nat]
        /\ ks \in SUBSET Device
    BY <1>13 DEF loadFromCloud, Answer, ListInv, OthersTyped
  <2>2. L \in AccountLists /\ (L["cloud"].ok <=> ks # {}) /\ L["cloud"].keys = ks
    <3>1. L \in AccountLists
      BY <2>1, AnswerTyped DEF ListInv, Source
    <3>2. L["cloud"] = ListOf(ks)
      BY DEF ListInv, OthersTyped, AccountLists, Source
    <3> HIDE DEF L
    <3>3. L["cloud"].keys = ks
      BY <3>2 DEF ListOf
    <3> QED
      BY <3>1, <3>3 DEF AccountLists, Source
  <2>3. merged \in DeviceMap /\ KnownWithin(merged, omitted) /\ omitted \in Omissions
        /\ \A x \in Device : merged[x] # None <=> known[x] # None \/ x \in ks
    BY <2>1, MergeAdds DEF ListInv, OthersTyped
  <2>4. /\ kept \in DeviceMap /\ out \subseteq Present(merged)
        /\ \A d \in Device : kept[d] # None <=> merged[d] # None /\ d \notin out
        /\ \A d \in out : after[d] = EvictThreshold /\ ~Owned(d, L)
        /\ KnownWithin(kept, after)
    BY <2>2, <2>3, ReconcilerIsFair DEF Source
  <2>5. /\ after \in Omissions /\ (\A d \in Device : omitted[d] <= after[d])
        /\ CacheHolds(cache, after)
    BY <2>2, <2>3, OmissionsGrow DEF Source, ListInv
  <2>6. known' = kept /\ lists' = L /\ jobs' = jobs \cup (ks \cap Lights) /\ phase' = phase
        /\ omitted' = after
    BY <1>13 DEF loadFromCloud, Noted, NotedAfter
  <2>7. Cacheable(kept) \in SUBSET Present(kept)
    BY DEF Cacheable
  <2>8. CacheHolds(cache', after)
    <3> DEFINE evicted == IF out = {} THEN cache ELSE Save(Unlink(cache, out), Cacheable(kept), kept)
    <3>1. cache' = Save(Unlink(evicted, old), Cacheable(kept), kept)
      BY <1>13 DEF loadFromCloud
    <3> HIDE DEF kept, after, out
    <3>2. CacheHolds(evicted, after)
      BY <2>4, <2>5, <2>7, SaveHolds, UnlinkHolds
    <3> HIDE DEF evicted
    <3> QED
      BY <2>4, <2>5, <2>7, <3>1, <3>2, SaveHolds, UnlinkHolds
  <2>9. cloudRead' = "no" /\ flags' \in Flags
    BY <1>13 DEF loadFromCloud, ListInv, OthersTyped, Flags
  <2>10. tree' \subseteq Device /\ passes' \subseteq SUBSET Device
    <3>1. Present(kept) \cup accountListed(L) \subseteq Device
      BY <2>2 DEF Present, accountListed, AccountLists
    <3>2. tree' \subseteq tree \cup Present(kept)
      BY <1>13 DEF loadFromCloud
    <3>3. passes' \subseteq passes \cup {Present(kept) \cup accountListed(L)}
      BY <1>13 DEF loadFromCloud
    <3> HIDE DEF kept, L
    <3> QED
      BY <3>1, <3>2, <3>3 DEF ListInv, OthersTyped
  <2> HIDE DEF kept, after, out, merged, L
  <2>11. OthersTyped'
    <3>1. jobs' \subseteq Lights /\ phase' \in {"down", "scan", "up"}
      BY <2>6 DEF ListInv, OthersTyped
    <3>2. lists' \in AccountLists /\ omitted' \in Omissions
      BY <2>2, <2>5, <2>6
    <3> QED
      BY <2>1, <2>9, <2>10, <3>1, <3>2 DEF OthersTyped
  <2>12. ListedIsKnown'
    BY <2>1, <2>2, <2>3, <2>4, <2>6 DEF ListedIsKnown, Owned, Source
  <2>13. ListedIsPlaced'
    BY <2>2, <2>6 DEF ListedIsPlaced
  <2>14. JobsOutliveEviction'
    <3> SUFFICES ASSUME NEW d \in jobs \cup (ks \cap Lights), kept[d] = None
                 PROVE  after[d] = EvictThreshold
      BY <2>6 DEF JobsOutliveEviction
    <3>1. d \in Device
      BY DEF ListInv, OthersTyped, Device
    <3>2. CASE d \in out
      BY <2>4, <3>2
    <3>3. CASE d \notin out
      <4>1. known[d] = None /\ d \in jobs
        BY <2>3, <2>4, <3>1, <3>3
      <4>2. omitted[d] = EvictThreshold
        BY <4>1 DEF ListInv, JobsOutliveEviction
      <4> QED
        BY <2>5, <3>1, <4>2 DEF Omissions
    <3> QED
      BY <3>2, <3>3
  <2> QED
    BY <2>4, <2>6, <2>8, <2>11, <2>12, <2>13, <2>14 DEF ListInv
<1>14. ASSUME NEW ks \in SUBSET (budget.there \ Groups), NEW gw \in SUBSET Sensors, pollAppApi(ks, gw)
      PROVE  ListInv'
  <2> DEFINE L == [lists EXCEPT !["app"] = ListOf(ks)]
             out == Evicted(known, "app", L)
             kept == Without(MissesCounted(known, "app", L), out)
             after == NotedAfter(omitted, "app", L)
             noted == IF gw = {} THEN cache ELSE Save(cache, Cacheable(known), known)
  <2>1. budget' \in [there : SUBSET Device, sessions : Nat, answers : Nat]
        /\ ks \in SUBSET Device
    BY <1>14 DEF pollAppApi, Answer, ListInv, OthersTyped
  <2>2. L \in AccountLists /\ L["cloud"] = lists["cloud"]
    BY <2>1, AnswerTyped DEF ListInv, Source, OthersTyped, AccountLists
  <2>3. known \in DeviceMap /\ KnownWithin(known, omitted) /\ omitted \in Omissions
    BY DEF ListInv, OthersTyped
  <2>4. /\ kept \in DeviceMap /\ out \subseteq Present(known)
        /\ \A d \in Device : kept[d] # None <=> known[d] # None /\ d \notin out
        /\ \A d \in out : after[d] = EvictThreshold /\ ~Owned(d, L)
        /\ KnownWithin(kept, after)
    BY <2>2, <2>3, ReconcilerIsFair DEF Source
  <2>5. /\ after \in Omissions /\ (\A d \in Device : omitted[d] <= after[d])
        /\ \A c : CacheHolds(c, omitted) => CacheHolds(c, after)
    BY <2>2, <2>3, OmissionsGrow DEF Source
  <2>6. known' = kept /\ lists' = L /\ omitted' = after /\ UNCHANGED <<phase, jobs>>
    BY <1>14 DEF pollAppApi, Noted, NotedAfter
  <2>7. Cacheable(kept) \in SUBSET Present(kept) /\ Cacheable(known) \in SUBSET Present(known)
    BY DEF Cacheable
  <2>8. CacheHolds(noted, after) /\ \A d \in Device : HasPlace(cache[d]) => HasPlace(noted[d])
    BY <2>3, <2>5, <2>7, SaveHolds DEF ListInv
  <2>9. cache' = IF out = {} THEN noted ELSE Save(Unlink(noted, out), Cacheable(kept), kept)
    BY <1>14 DEF pollAppApi
  <2>10. tree' \subseteq Device
    BY <1>14 DEF pollAppApi, ListInv, OthersTyped, Device
  <2>11. Reap(out # {} \/ (gw # {} /\ flags.statesReady), kept, L)
    BY <1>14 DEF pollAppApi
  <2>12. flags.statesReady \in BOOLEAN
    BY DEF ListInv, OthersTyped, Flags
  <2> HIDE DEF kept, after, out, noted, L
  <2>13. OthersTyped'
    BY <2>1, <2>2, <2>5, <2>6, <2>10, <2>11, <2>12, ReapTyped DEF ListInv, OthersTyped
  <2>14. CacheHolds(cache', after) /\ \A d \in Device \ out : HasPlace(cache[d]) => HasPlace(cache'[d])
    BY <2>4, <2>5, <2>7, <2>8, <2>9, SaveHolds, UnlinkHolds
  <2>15. ListedIsKnown'
    BY <2>2, <2>4, <2>6 DEF ListInv, ListedIsKnown, Owned, Source, OthersTyped, AccountLists
  <2>16. ListedIsPlaced'
    BY <2>2, <2>4, <2>6, <2>14 DEF ListInv, ListedIsPlaced, Owned, Source, OthersTyped,
       AccountLists, Device
  <2>17. JobsOutliveEviction'
    <3> SUFFICES ASSUME NEW d \in jobs, kept[d] = None
                 PROVE  after[d] = EvictThreshold
      BY <2>6 DEF JobsOutliveEviction
    <3>1. d \in Device
      BY DEF ListInv, OthersTyped, Device
    <3>2. CASE d \notin out
      <4>1. omitted[d] = EvictThreshold
        BY <2>4, <3>1, <3>2 DEF ListInv, JobsOutliveEviction
      <4> QED
        BY <2>5, <3>1, <4>1 DEF Omissions
    <3> QED
      BY <2>4, <3>2
  <2> QED
    BY <2>4, <2>6, <2>13, <2>14, <2>15, <2>16, <2>17 DEF ListInv
<1>15. ASSUME NEW ks \in SUBSET (budget.there \cap Groups), NEW res \in SUBSET Groups, loadGroupMembers(ks, res)
      PROVE  ListInv'
  <2> DEFINE L == [lists EXCEPT !["group"] = ListOf(ks)]
             out == IF ks = {} THEN {} ELSE Evicted(known, "group", L)
             kept == IF ks = {} THEN known ELSE Without(MissesCounted(known, "group", L), out)
             after == NotedAfter(omitted, "group", L)
  <2>1. budget' \in [there : SUBSET Device, sessions : Nat, answers : Nat]
        /\ ks \in SUBSET Device
    BY <1>15 DEF loadGroupMembers, Answer, ListInv, OthersTyped
  <2>2. L \in AccountLists /\ L["cloud"] = lists["cloud"]
    BY <2>1, AnswerTyped DEF ListInv, Source, OthersTyped, AccountLists
  <2>3. known \in DeviceMap /\ KnownWithin(known, omitted) /\ omitted \in Omissions
    BY DEF ListInv, OthersTyped
  <2>4. /\ after \in Omissions /\ (\A d \in Device : omitted[d] <= after[d])
        /\ CacheHolds(cache, after) /\ KnownWithin(known, after)
    BY <2>2, <2>3, OmissionsGrow DEF Source, ListInv
  <2>5. /\ kept \in DeviceMap /\ out \subseteq Present(known)
        /\ \A d \in Device : kept[d] # None <=> known[d] # None /\ d \notin out
        /\ \A d \in out : after[d] = EvictThreshold /\ ~Owned(d, L)
        /\ KnownWithin(kept, after)
    <3>1. CASE ks = {}
      BY <2>3, <2>4, <3>1
    <3>2. CASE ks # {}
      <4>1. /\ out = Evicted(known, "group", L)
            /\ kept = Without(MissesCounted(known, "group", L), Evicted(known, "group", L))
        BY <3>2
      <4> HIDE DEF out, kept, after, L
      <4> QED
        BY <2>2, <2>3, <4>1, ReconcilerIsFair DEF Source, after
    <3> QED
      BY <3>1, <3>2
  <2>6. known' = kept /\ lists' = L /\ omitted' = after /\ UNCHANGED <<phase, jobs>>
    BY <1>15 DEF loadGroupMembers, Noted, NotedAfter
  <2>7. Cacheable(kept) \in SUBSET Present(kept)
    BY DEF Cacheable
  <2>8. cache' = IF out = {} THEN cache ELSE Save(Unlink(cache, out), Cacheable(kept), kept)
    BY <1>15 DEF loadGroupMembers
  <2>9. tree' \subseteq Device
    BY <1>15 DEF loadGroupMembers, ListInv, OthersTyped, Device
  <2>10. Reap(out # {} \/ (res # {} /\ flags.statesReady), kept, L)
    BY <1>15 DEF loadGroupMembers
  <2>11. flags.statesReady \in BOOLEAN
    BY DEF ListInv, OthersTyped, Flags
  <2> HIDE DEF kept, after, out, L
  <2>12. OthersTyped'
    BY <2>1, <2>2, <2>4, <2>6, <2>9, <2>10, <2>11, ReapTyped DEF ListInv, OthersTyped
  <2>13. CacheHolds(cache', after) /\ \A d \in Device \ out : HasPlace(cache[d]) => HasPlace(cache'[d])
    BY <2>4, <2>5, <2>7, <2>8, SaveHolds, UnlinkHolds
  <2>14. ListedIsKnown'
    BY <2>2, <2>5, <2>6 DEF ListInv, ListedIsKnown, Owned, Source, OthersTyped, AccountLists
  <2>15. ListedIsPlaced'
    BY <2>2, <2>5, <2>6, <2>13 DEF ListInv, ListedIsPlaced, Owned, Source, OthersTyped,
       AccountLists, Device
  <2>16. JobsOutliveEviction'
    <3> SUFFICES ASSUME NEW d \in jobs, kept[d] = None
                 PROVE  after[d] = EvictThreshold
      BY <2>6 DEF JobsOutliveEviction
    <3>1. d \in Device
      BY DEF ListInv, OthersTyped, Device
    <3>2. CASE d \notin out
      <4>1. omitted[d] = EvictThreshold
        BY <2>5, <3>1, <3>2 DEF ListInv, JobsOutliveEviction
      <4> QED
        BY <2>4, <3>1, <4>1 DEF Omissions
    <3> QED
      BY <2>5, <3>2
  <2> QED
    BY <2>5, <2>6, <2>12, <2>13, <2>14, <2>15, <2>16 DEF ListInv
<1>16. CASE GroupListFails
  <2>1. lists' \in AccountLists /\ lists'["cloud"] = lists["cloud"]
    BY <1>16 DEF GroupListFails, ListInv, OthersTyped, AccountLists, NoList, Source
  <2>2. UNCHANGED <<phase, known, tree, cloudRead, flags, passes, jobs, omitted, cache>>
    BY <1>16 DEF GroupListFails
  <2>3. OthersTyped'
    BY <1>16, <2>1, <2>2 DEF GroupListFails, Answer, ListInv, OthersTyped
  <2> QED
    BY <2>1, <2>2, <2>3 DEF ListInv, KnownWithin, ListedIsKnown, ListedIsPlaced,
       JobsOutliveEviction
<1>17. CASE Lists
  BY <1>11, <1>12, <1>13, <1>14, <1>15, <1>16, <1>17 DEF Lists
<1> QED
  BY <1>1, <1>2, <1>3, <1>4, <1>5, <1>6, <1>7, <1>8, <1>9, <1>10, <1>17 DEF DeviceNext

(* The invariant both theorems on the list rest on.                        *)
LEMMA ListInvHolds == DeviceSpec => []ListInv
<1>1. ListInv /\ UNCHANGED deviceVars => ListInv'
  BY DEF ListInv, deviceVars, OthersTyped, CacheHolds, KnownWithin, ListedIsKnown,
     ListedIsPlaced, JobsOutliveEviction
<1>2. ListInv /\ [DeviceNext /\ Cardinality(passes') <= MaxPasses]_deviceVars => ListInv'
  BY <1>1, ListInvKept
<1> QED
  BY <1>2, ListInvStarts, PTL DEF DeviceSpec

(* A save is skipped only for a payload the file holds or is about to, and *)
(* every light the Cloud list named keeps its place in the cache, for      *)
(* every account and every order of answers, deletions and writes.         *)
THEOREM CacheIsKept == DeviceSpec => []CacheHoldsTheList
<1>1. ListInv => CacheHoldsTheList
  <2> SUFFICES ASSUME ListInv PROVE SkippedSaveIsOnDisk /\ ListedLightIsCached
    BY ListIsTyped DEF CacheHoldsTheList
  <2> QED
    BY DEF ListInv, CacheHolds, SlotIsHonest, SkippedSaveIsOnDisk, ListedIsPlaced, HasPlace,
       ListedLightIsCached
<1> QED
  BY <1>1, ListInvHolds, PTL

(* Who leaves the map of a running adapter has been left out twice by its  *)
(* own source (runAccountReconcile).                                       *)
LEMMA EvictionsAreEarned ==
  ASSUME ListInv, DeviceNext, NEW d \in Device,
         phase = "up", phase' = "up", known[d] # None, known'[d] = None
  PROVE  omitted'[d] >= EvictThreshold
<1> USE DEF EvictThreshold
<1>1. known \in DeviceMap /\ KnownWithin(known, omitted) /\ omitted \in Omissions /\ OthersTyped
  BY DEF ListInv, OthersTyped
<1>2. ASSUME NEW ks \in SUBSET Device, NEW kn \in DeviceMap, KnownWithin(kn, omitted), kn[d] # None,
             NEW s \in Source,
             known' = Without(MissesCounted(kn, s, [lists EXCEPT ![s] = ListOf(ks)]),
                              Evicted(kn, s, [lists EXCEPT ![s] = ListOf(ks)])),
             Noted(s, [lists EXCEPT ![s] = ListOf(ks)])
      PROVE  omitted'[d] >= EvictThreshold
  <2> DEFINE L == [lists EXCEPT ![s] = ListOf(ks)]
  <2>1. L \in AccountLists
    BY <1>1, AnswerTyped
  <2>2. omitted' = NotedAfter(omitted, s, L)
    BY <1>2 DEF Noted, NotedAfter
  <2>3. d \in Evicted(kn, s, L)
    BY <1>1, <1>2, <2>1, ReconcilerIsFair
  <2>4. omitted'[d] = EvictThreshold
    BY <1>1, <1>2, <2>1, <2>2, <2>3, ReconcilerIsFair
  <2> QED
    BY <2>4
<1>3. ASSUME NEW ks \in SUBSET budget.there, NEW old \in SUBSET Device, loadFromCloud(ks, old)
      PROVE  omitted'[d] >= EvictThreshold
  <2>1. ks \in SUBSET Device
    BY <1>1 DEF OthersTyped
  <2>2. mergeCloudDevices(ks) \in DeviceMap /\ KnownWithin(mergeCloudDevices(ks), omitted)
        /\ mergeCloudDevices(ks)[d] # None
    BY <1>1, <2>1, MergeAdds
  <2> QED
    BY <1>2, <1>3, <2>1, <2>2 DEF loadFromCloud, Source
<1>4. ASSUME NEW ks \in SUBSET (budget.there \ Groups), NEW gw \in SUBSET Sensors, pollAppApi(ks, gw)
      PROVE  omitted'[d] >= EvictThreshold
  <2>1. ks \in SUBSET Device
    BY <1>1 DEF OthersTyped
  <2> QED
    BY <1>1, <1>2, <1>4, <2>1 DEF pollAppApi, Source
<1>5. ASSUME NEW ks \in SUBSET (budget.there \cap Groups), NEW res \in SUBSET Groups, loadGroupMembers(ks, res)
      PROVE  omitted'[d] >= EvictThreshold
  <2>1. ks \in SUBSET Device
    BY <1>1 DEF OthersTyped
  <2>2. ks # {}
    BY <1>5 DEF loadGroupMembers
  <2> QED
    BY <1>1, <1>2, <1>5, <2>1, <2>2 DEF loadGroupMembers, Source
<1>6. ASSUME NEW e \in LanLights, handleLanDiscovery(e)
      PROVE  omitted'[d] >= EvictThreshold
  <2>1. PICK x, r : known' = [known EXCEPT ![x] = r] /\ r # None
    <3>1. CASE LanMatch(e) = {}
      <4>1. LanOnly(e) \in Entry
        BY DEF LanOnly, Entry
      <4> QED
        BY <1>6, <3>1, <4>1, NothingIsNoEntry DEF handleLanDiscovery
    <3>2. CASE LanMatch(e) # {}
      <4>1. PICK x \in LanMatch(e) : known' = [known EXCEPT ![x].lan = e]
        BY <1>6, <3>2 DEF handleLanDiscovery
      <4>2. x \in Device /\ known[x] # None
        BY DeviceKinds DEF LanMatch, Present, Device
      <4>3. [known[x] EXCEPT !.lan = e] \in Entry
        BY <1>1, <4>2 DEF DeviceMap, Entry
      <4> QED
        BY <4>1, <4>3, NothingIsNoEntry
    <3> QED
      BY <3>1, <3>2
  <2> QED
    BY <1>1, <2>1 DEF DeviceMap
<1>7. ASSUME NEW e \in Lights, NEW ks \in SUBSET budget.there, refreshSceneDataForDevice(e, ks)
      PROVE  omitted'[d] >= EvictThreshold
  BY <1>1, <1>7, MergeAdds DEF refreshSceneDataForDevice, OthersTyped
<1>8. ASSUME NEW e \in Lights, NEW a \in BOOLEAN, NEW c \in BOOLEAN, SceneJobEnds(e, a, c)
      PROVE  omitted'[d] >= EvictThreshold
  <2>1. e \in Device
    BY DEF Device
  <2>2. CASE known' = known
    BY <2>2
  <2>3. CASE known[e] # None /\ known' = [known EXCEPT ![e] = [known[e] EXCEPT !.checked = a]]
    <3>1. [known[e] EXCEPT !.checked = a] \in Entry
      BY <1>1, <2>1, <2>3 DEF DeviceMap, Entry
    <3> QED
      BY <1>1, <2>3, <3>1, NothingIsNoEntry DEF DeviceMap
  <2> QED
    BY <1>8, <2>2, <2>3 DEF SceneJobEnds
<1>9. ASSUME Boot \/ Stop \/ LoadCache \/ (\E logged \in BOOLEAN : LanScanDone(logged) \/ finishStart(logged))
             \/ (\E e \in Device : WriteLands(e) \/ WriteFails(e)) \/ CleanupTimer
             \/ (\E keep \in passes : CleanupDeletes(keep)) \/ EmptyCloudList \/ CloudListFails
             \/ ManualSync \/ GroupListFails
      PROVE  omitted'[d] >= EvictThreshold
  <2>1. known' = known
    BY <1>9 DEF Boot, Stop, LoadCache, LanScanDone, finishStart, WriteLands, WriteFails,
       CleanupTimer, CleanupDeletes, EmptyCloudList, CloudListFails, ManualSync, GroupListFails
  <2> QED
    BY <2>1
<1> QED
  BY <1>3, <1>4, <1>5, <1>6, <1>7, <1>8, <1>9 DEF DeviceNext, Lists

(* Of every device that leaves the map of a running adapter it is true     *)
(* that its own source has left it out twice, over all its life.           *)
THEOREM EvictionsAreDebounced == DeviceSpec => EvictionIsDebounced
<1>1. ListInv /\ [DeviceNext /\ Cardinality(passes') <= MaxPasses]_deviceVars
        => [\A d \in Device : (phase = "up" /\ phase' = "up" /\ known[d] # None /\ known'[d] = None)
               => omitted'[d] >= EvictThreshold]_deviceVars
  BY EvictionsAreEarned
<1> QED
  BY <1>1, ListInvHolds, PTL DEF DeviceSpec, EvictionIsDebounced

-----------------------------------------------------------------------------
(* LanDiscovery                                                            *)

(* The types of everything but the device map.                             *)
SearchTyped ==
  /\ home \in HomeType
  /\ at \in [Bulbs -> LanAddresses \cup {None}] /\ had \in [LanAddresses -> SUBSET Bulbs]
  /\ moves \in 0..MaxMoves
  /\ sock \in {"off", "listen", "scan", "open", "busy"}
  /\ scanTimer \in BOOLEAN /\ stopped \in BOOLEAN /\ brokerConnected \in BOOLEAN
  /\ seenDeviceIps \subseteq Bulbs \X LanAddresses
  /\ lanIp \in [Bulbs -> LanAddresses \cup {None}]
  /\ recent \subseteq Bulbs /\ readBack \subseteq LanAddresses /\ air \subseteq Datagrams
  /\ spokeFor \in [Bulbs -> Bulbs \cup {None}]

(* No device is in the map twice.                                          *)
MapIsPlain ==
  /\ devices \in Seq(Bulbs)
  /\ \A i, j \in DOMAIN devices : devices[i] = devices[j] => i = j

(* Scan replies come from the chosen network only, on the air as in what   *)
(* the client remembers.                                                   *)
RepliesFromChosen ==
  multicastBind # None =>
    /\ \A s \in seenDeviceIps : s[2][1] = multicastBind
    /\ \A d \in air : d.kind = "scan" => d.from[1] = multicastBind

SearchInv ==
  /\ SearchTyped /\ MapIsPlain
  /\ IsFiniteSet(seenDeviceIps) /\ SeenIsBounded
  /\ StoppedIsSilent
  /\ RepliesFromChosen

(* A nonempty set of numbers has a least one: the one with the least       *)
(* numbers of the set below it.                                            *)
LEMMA LeastOfNumbers ==
  ASSUME NEW S \in SUBSET Nat, S # {}
  PROVE  \E m \in S : \A k \in S : m <= k
<1> DEFINE below(m) == {k \in S : k < m}
           all == {below(m) : m \in S}
<1>1. \A m \in S : below(m) \in FiniteSubsetsOf(Nat)
  <2> SUFFICES ASSUME NEW m \in S PROVE below(m) \in FiniteSubsetsOf(Nat)
    OBVIOUS
  <2>1. m \in Nat /\ \A k \in S : k \in Nat
    OBVIOUS
  <2>2. below(m) \in SUBSET Nat
    OBVIOUS
  <2>3. \A k \in below(m) : k <= m
    BY <2>1
  <2>4. IsFiniteSet(below(m))
    <3> HIDE DEF below
    <3> QED
      BY <2>1, <2>2, <2>3, FS_BoundedSetOfNaturals
  <2> QED
    BY <2>2, <2>4 DEF FiniteSubsetsOf
<1>2. all \subseteq FiniteSubsetsOf(Nat) /\ all # {}
  BY <1>1
<1>3. \E T \in all : \A U \in all : ~(<<U, T>> \in StrictSubsetOrdering(Nat))
  <2> HIDE DEF all
  <2> QED
    BY <1>2, FS_StrictSubsetOrderingWellFounded, WFMin
<1>4. PICK m \in S : \A k \in S : ~(<<below(k), below(m)>> \in StrictSubsetOrdering(Nat))
  BY <1>3
<1>5. ASSUME NEW k \in S, k < m
      PROVE  FALSE
  <2>1. \A j \in S : j \in Nat
    OBVIOUS
  <2>2. k \in below(m) /\ k \notin below(k)
    BY <1>5, <2>1
  <2>3. ASSUME NEW j \in below(k)
        PROVE  j \in below(m)
    BY <1>5, <2>1
  <2>4. below(k) \in SUBSET Nat /\ below(m) \in SUBSET Nat
    OBVIOUS
  <2> HIDE DEF below
  <2> QED
    BY <1>4, <2>2, <2>3, <2>4 DEF StrictSubsetOrdering
<1> QED
  BY <1>5

(* The lookup by address finds a device of the map that has it, if any     *)
(* does (deviceByLanIp).                                                   *)
LEMMA HolderHolds ==
  ASSUME NEW list \in Seq(Bulbs), NEW ips, NEW ip
  PROVE  /\ \A i \in DOMAIN list : ips[list[i]] = ip => HolderIn(list, ips, ip) # None
         /\ HolderIn(list, ips, ip) # None =>
              /\ HolderIn(list, ips, ip) \in Bulbs /\ ips[HolderIn(list, ips, ip)] = ip
<1> DEFINE holders == {i \in DOMAIN list : ips[list[i]] = ip}
<1>1. CASE holders = {}
  <2>1. HolderIn(list, ips, ip) = None
    BY <1>1 DEF HolderIn
  <2> QED
    BY <1>1, <2>1
<1>2. CASE holders # {}
  <2>1. holders \subseteq Nat
    OBVIOUS
  <2>2. \E i \in holders : \A j \in holders : i <= j
    BY <1>2, <2>1, LeastOfNumbers
  <2>3. PICK i \in holders : HolderIn(list, ips, ip) = list[i]
    BY <1>2, <2>2 DEF HolderIn
  <2>4. list[i] \in Bulbs /\ list[i] # None
    BY <2>3, DiscoveryAssumption
  <2> QED
    BY <2>3, <2>4
<1> QED
  BY <1>1, <1>2

(* The device map in the type the runs check.                              *)
LEMMA SearchIsTyped == SearchTyped /\ MapIsPlain => LanTypeOK
<1> SUFFICES ASSUME SearchTyped, MapIsPlain
             PROVE  devices \in UNION {[1..n -> Bulbs] : n \in 0..Cardinality(Bulbs)}
  BY DEF SearchTyped, LanTypeOK
<1>1. devices \in [1..Len(devices) -> Bulbs] /\ Len(devices) \in Nat
  BY DEF MapIsPlain
<1>2. devices \in Injection(1..Len(devices), Bulbs)
  BY <1>1 DEF MapIsPlain, Injection, IsInjective
<1>3. Cardinality(1..Len(devices)) <= Cardinality(Bulbs) /\ Cardinality(Bulbs) \in Nat
  <2>1. Cardinality(1..Len(devices)) <= Cardinality(Bulbs)
    BY <1>2, FS_Injection, DiscoveryAssumption
  <2> QED
    BY <2>1, FS_CardinalityType, DiscoveryAssumption
<1>4. Cardinality(1..Len(devices)) = Len(devices)
  <2> DEFINE n == Len(devices)
  <2>1. n \in Nat
    BY <1>1
  <2> HIDE DEF n
  <2>2. Cardinality(1..n) = n
    BY <2>1, FS_Interval
  <2> QED
    BY <2>2 DEF n
<1> QED
  BY <1>1, <1>3, <1>4

(* The account's devices fill the map at the start, each once.             *)
LEMMA SearchStarts == DiscoveryInit => SearchInv /\ InMap = home.account
<1> SUFFICES ASSUME DiscoveryInit PROVE SearchInv /\ InMap = home.account
  OBVIOUS
<1> USE DEF DiscoveryInit
<1>1. home \in HomeType /\ home.account \subseteq Bulbs /\ IsFiniteSet(home.account)
      /\ Cardinality(home.account) \in Nat
  BY DiscoveryAssumption, FS_Subset, FS_CardinalityType DEF HomeType
<1>2. MapIsPlain
  <2>1. devices \in Seq(Bulbs) /\ DOMAIN devices = 1..Cardinality(home.account)
    BY <1>1
  <2>2. \A i, j \in DOMAIN devices : i < j => devices[i] < devices[j]
    OBVIOUS
  <2>3. \A i \in DOMAIN devices : devices[i] \in Nat
    BY <1>1, DiscoveryAssumption
  <2> QED
    BY <2>1, <2>2, <2>3 DEF MapIsPlain
<1>3. InMap = home.account
  <2>1. devices \in Injection(1..Cardinality(home.account), home.account)
    BY <1>1, <1>2 DEF MapIsPlain, Injection, IsInjective
  <2>2. Cardinality(1..Cardinality(home.account)) = Cardinality(home.account)
    BY <1>1, FS_Interval
  <2>3. devices \in Surjection(1..Cardinality(home.account), home.account)
    BY <1>1, <2>1, <2>2, FS_Injection
  <2> QED
    BY <2>3 DEF Surjection, InMap
<1>4. SearchTyped
  <2>1. had \in [LanAddresses -> SUBSET Bulbs]
    BY DEF LightsAt
  <2>2. lanIp \in [Bulbs -> LanAddresses \cup {None}] /\ spokeFor \in [Bulbs -> Bulbs \cup {None}]
    OBVIOUS
  <2>3. at \in [Bulbs -> LanAddresses \cup {None}] /\ home \in HomeType
    BY <1>1
  <2>4. moves \in 0..MaxMoves
    BY DiscoveryAssumption
  <2>5. seenDeviceIps = {} /\ recent = {} /\ readBack = {} /\ air = {}
    OBVIOUS
  <2>6. sock = "off" /\ scanTimer = FALSE /\ stopped = FALSE /\ brokerConnected = FALSE
    OBVIOUS
  <2> HIDE DEF DiscoveryInit
  <2> QED
    BY <2>1, <2>2, <2>3, <2>4, <2>5, <2>6 DEF SearchTyped
<1>5. IsFiniteSet(seenDeviceIps) /\ SeenIsBounded
  BY FS_EmptySet, DiscoveryAssumption DEF SeenIsBounded
<1>6. StoppedIsSilent /\ RepliesFromChosen
  BY DEF StoppedIsSilent, RepliesFromChosen
<1> QED
  BY <1>2, <1>3, <1>4, <1>5, <1>6 DEF SearchInv

(* What a scan is sent to, and what may come back.                         *)
LEMMA RepliesAreTyped ==
  ASSUME SearchTyped, NEW kind \in {"scan", "devStatus"}, NEW ips \in SUBSET LanAddresses
  PROVE  /\ Answers(kind, ips) \subseteq Datagrams
         /\ \A d \in Answers(kind, ips) : d.kind = kind /\ d.from \in ips
  BY DEF Answers, Datagrams, SearchTyped

(* A scan brings back replies of the chosen network only (Targets,         *)
(* interfaceBroadcasts).                                                   *)
LEMMA ScansStayOnChosen ==
  ASSUME SearchTyped, RepliesFromChosen, SendScan
  PROVE  /\ air' \subseteq Datagrams
         /\ multicastBind # None => \A d \in air' : d.kind = "scan" => d.from[1] = multicastBind
<1>1. Targets \subseteq LanAddresses
  BY DEF Targets, SearchTyped
<1>2. air' \subseteq air \cup Answers("scan", Targets)
  BY DEF SendScan, OnTheAir
<1>3. multicastBind # None => \A ip \in Targets : ip[1] = multicastBind
  BY DEF Targets, interfaceBroadcasts, RepliesFromChosen
<1> QED
  BY <1>1, <1>2, <1>3, RepliesAreTyped DEF SearchTyped, RepliesFromChosen

(* One light more in what the client remembers takes no more room than it  *)
(* has (handleScanResponse).                                               *)
LEMMA SeenStaysBounded ==
  ASSUME IsFiniteSet(seenDeviceIps), SeenIsBounded, NEW key \in Bulbs \X LanAddresses, ~TurnedAway(key)
  PROVE  /\ IsFiniteSet(SeenWith(key)) /\ Cardinality(SeenWith(key)) <= MaxDistinct
         /\ \A s, t \in SeenWith(key) : s[1] = t[1] => s = t
<1>1. CASE ~IsNewIdentity(key)
  BY <1>1 DEF SeenWith, SeenIsBounded
<1>2. CASE IsNewIdentity(key)
  <2> DEFINE rest == seenDeviceIps \ StaleEntries(key)
  <2>1. IsFiniteSet(rest) /\ Cardinality(rest) <= Cardinality(seenDeviceIps)
    <3>1. rest \in SUBSET seenDeviceIps
      OBVIOUS
    <3> HIDE DEF rest
    <3> QED
      BY <3>1, FS_Subset
  <2>2. /\ IsFiniteSet(rest \cup {key})
        /\ Cardinality(rest \cup {key}) = IF key \in rest THEN Cardinality(rest) ELSE Cardinality(rest) + 1
    <3> HIDE DEF rest
    <3> QED
      BY <2>1, FS_AddElement
  <2>3. Cardinality(seenDeviceIps) \in Nat /\ Cardinality(rest) \in Nat
    <3> HIDE DEF rest
    <3> QED
      BY <2>1, FS_CardinalityType
  <2>4. SeenWith(key) = rest \cup {key} /\ Cardinality(seenDeviceIps) < MaxDistinct
    BY <1>2, <2>3, DiscoveryAssumption DEF SeenWith, TurnedAway
  <2>5. \A s, t \in rest \cup {key} : s[1] = t[1] => s = t
    BY DEF SeenIsBounded, StaleEntries
  <2> QED
    BY <2>1, <2>2, <2>3, <2>4, <2>5, DiscoveryAssumption
<1> QED
  BY <1>1, <1>2

(* The reply is taken for a device of the map, or makes one.               *)
LEMMA FoundIsInMap ==
  ASSUME MapIsPlain, NEW l \in Bulbs
  PROVE  /\ findDeviceForLanDiscovery(l) \in InMap \cup {None}
         /\ findDeviceForLanDiscovery(l) = None => l \notin InMap
         /\ InMap \subseteq Bulbs
<1>1. InMap \subseteq Bulbs
  BY DEF MapIsPlain, InMap
<1>2. IsFiniteSet(SkuMatches)
  BY <1>1, FS_Subset, DiscoveryAssumption DEF SkuMatches
<1>3. Cardinality(SkuMatches) = 1 => (CHOOSE d \in SkuMatches : TRUE) \in InMap
  BY <1>2, FS_Singleton DEF SkuMatches
<1> QED
  BY <1>1, <1>3, DiscoveryAssumption DEF findDeviceForLanDiscovery

(* A scan reply that is let in: the device it is taken for gets the        *)
(* address, and a device that has the address is asked.                    *)
LEMMA ReplyIsTaken ==
  ASSUME SearchInv, NEW d \in air, ScanReply(d), ~TurnedAway(<<d.light, d.from>>)
  PROVE  /\ SearchTyped' /\ MapIsPlain' /\ seenDeviceIps' = SeenWith(<<d.light, d.from>>)
         /\ \A x \in air' : x \in air \/ x.kind = "devStatus"
<1> DEFINE key == <<d.light, d.from>>
           found == findDeviceForLanDiscovery(d.light)
           target == IF found = None THEN d.light ELSE found
           holder == HolderIn(devices', lanIp', d.from)
<1>1. d.light \in Bulbs /\ d.from \in LanAddresses /\ key \in Bulbs \X LanAddresses
  BY DEF SearchInv, SearchTyped, Datagrams
<1>2. /\ seenDeviceIps' = SeenWith(key)
      /\ devices' = IF found = None THEN Append(devices, target) ELSE devices
      /\ lanIp' = [lanIp EXCEPT ![target] = d.from]
      /\ recent' \subseteq recent \cup {holder}
      /\ air' \subseteq air \cup Answers("devStatus", {d.from})
      /\ spokeFor' = [spokeFor EXCEPT ![target] = d.light]
      /\ UNCHANGED <<home, at, had, moves, sock, scanTimer, stopped, brokerConnected, readBack>>
  BY DEF ScanReply, routerVars, clientVars
<1>3. found \in InMap \cup {None} /\ (found = None => d.light \notin InMap)
      /\ InMap \subseteq Bulbs
  BY <1>1, FoundIsInMap DEF SearchInv
<1>4. target \in Bulbs
  BY <1>1, <1>3
<1> HIDE DEF found, target, holder, key
<1>5. MapIsPlain' /\ \E i \in DOMAIN devices' : devices'[i] = target
  <2>1. CASE found = None
    <3>1. target = d.light /\ devices' = Append(devices, target)
      BY <1>2, <2>1 DEF target
    <3>2. \A i \in DOMAIN devices : devices[i] # target
      BY <1>3, <2>1, <3>1 DEF InMap
    <3>3. /\ devices' \in Seq(Bulbs) /\ DOMAIN devices' = 1..(Len(devices) + 1)
          /\ DOMAIN devices = 1..Len(devices) /\ Len(devices) \in Nat
          /\ devices'[Len(devices) + 1] = target
          /\ \A i \in 1..Len(devices) : devices'[i] = devices[i]
      BY <1>4, <3>1 DEF SearchInv, MapIsPlain
    <3>4. \A i, j \in DOMAIN devices' : devices'[i] = devices'[j] => i = j
      <4> SUFFICES ASSUME NEW i \in 1..(Len(devices) + 1), NEW j \in 1..(Len(devices) + 1), devices'[i] = devices'[j]
                   PROVE  i = j
        BY <3>3
      <4>1. i \in 1..Len(devices) \/ i = Len(devices) + 1
        BY <3>3
      <4>2. j \in 1..Len(devices) \/ j = Len(devices) + 1
        BY <3>3
      <4> QED
        BY <3>2, <3>3, <4>1, <4>2 DEF SearchInv, MapIsPlain
    <3>5. Len(devices) + 1 \in DOMAIN devices'
      BY <3>3
    <3> QED
      BY <3>3, <3>4, <3>5 DEF MapIsPlain
  <2>2. CASE found # None
    BY <1>2, <1>3, <2>2 DEF SearchInv, MapIsPlain, InMap, target
  <2> QED
    BY <2>1, <2>2
<1>6. /\ lanIp' \in [Bulbs -> LanAddresses \cup {None}] /\ lanIp'[target] = d.from
      /\ spokeFor' \in [Bulbs -> Bulbs \cup {None}]
  BY <1>1, <1>2, <1>4 DEF SearchInv, SearchTyped
<1>7. holder \in Bulbs
  BY <1>5, <1>6, HolderHolds DEF MapIsPlain, holder
<1>8. seenDeviceIps' \subseteq Bulbs \X LanAddresses
  BY <1>1, <1>2 DEF SearchInv, SearchTyped, SeenWith
<1>9. air' \subseteq Datagrams /\ \A x \in air' : x \in air \/ x.kind = "devStatus"
  BY <1>1, <1>2, RepliesAreTyped DEF SearchInv, SearchTyped
<1>10. SearchTyped'
  BY <1>2, <1>6, <1>7, <1>8, <1>9 DEF SearchInv, SearchTyped
<1> QED
  BY <1>2, <1>5, <1>9, <1>10 DEF key

(* No step leaves the bounds of the search; the house stays what it is.    *)
LEMMA SearchInvKept ==
  ASSUME SearchInv, [DiscoveryNext]_discoveryVars
  PROVE  SearchInv' /\ UNCHANGED home
<1> USE DEF SearchInv, routerVars, clientVars
<1>1. ASSUME NEW l \in Bulbs, PlugIn(l) \/ Unplug(l)
      PROVE  SearchInv' /\ UNCHANGED home
  <2>1. UNCHANGED <<home, sock, scanTimer, stopped, seenDeviceIps, devices, lanIp, recent,
                    brokerConnected, readBack, air, spokeFor>>
    BY <1>1 DEF PlugIn, Unplug
  <2>2. at' \in [Bulbs -> LanAddresses \cup {None}]
        /\ had' \in [LanAddresses -> SUBSET Bulbs]
    BY <1>1 DEF PlugIn, Unplug, SearchTyped
  <2>3. moves' \in 0..MaxMoves
    BY <1>1, DiscoveryAssumption DEF PlugIn, Unplug, SearchTyped
  <2> QED
    BY <2>1, <2>2, <2>3 DEF SearchTyped, MapIsPlain, SeenIsBounded, StoppedIsSilent,
       RepliesFromChosen,
       multicastBind
<1>2. ASSUME (\E d \in Bulbs : GoesStale(d)) \/ BrokerChanges \/ UNCHANGED discoveryVars
      PROVE  SearchInv' /\ UNCHANGED home
  <2>1. UNCHANGED <<home, at, had, moves, sock, scanTimer, stopped, seenDeviceIps, devices, lanIp,
                    readBack, air, spokeFor>>
    BY <1>2 DEF GoesStale, BrokerChanges, discoveryVars
  <2>2. recent' \subseteq Bulbs /\ brokerConnected' \in BOOLEAN
    BY <1>2 DEF GoesStale, BrokerChanges, discoveryVars, SearchTyped
  <2> QED
    BY <2>1, <2>2 DEF SearchTyped, MapIsPlain, SeenIsBounded, StoppedIsSilent,
       RepliesFromChosen,
       multicastBind
<1>3. ASSUME NEW d \in Bulbs, LanCommand(d)
      PROVE  SearchInv' /\ UNCHANGED home
  <2>1. UNCHANGED <<home, at, had, moves, sock, scanTimer, stopped, seenDeviceIps, devices,
                    lanIp, recent, brokerConnected, air, spokeFor>>
    BY <1>3 DEF LanCommand
  <2>2. readBack' \subseteq LanAddresses
    BY <1>3 DEF LanCommand, SearchTyped
  <2> QED
    BY <2>1, <2>2 DEF SearchTyped, MapIsPlain, SeenIsBounded, StoppedIsSilent,
       RepliesFromChosen,
       multicastBind
<1>4. CASE Lose
  <2>1. UNCHANGED <<home, at, had, moves, sock, scanTimer, stopped, seenDeviceIps, devices, lanIp,
                    recent, brokerConnected, readBack, spokeFor>> /\ air' \subseteq air
    BY <1>4 DEF Lose
  <2> QED
    BY <2>1 DEF SearchTyped, MapIsPlain, SeenIsBounded, StoppedIsSilent, RepliesFromChosen,
       multicastBind
<1>5. CASE StartLan \/ ListenFails \/ ListenReady
  <2>1. UNCHANGED <<home, at, had, moves, stopped, seenDeviceIps, devices, lanIp,
                    recent, brokerConnected, readBack, air, spokeFor>>
    BY <1>5 DEF StartLan, ListenFails, ListenReady
  <2>2. sock' \in {"listen", "busy", "scan", "off"} /\ scanTimer' \in BOOLEAN
        /\ (stopped => scanTimer' = scanTimer)
    BY <1>5 DEF StartLan, ListenFails, ListenReady, GoesOn, SearchTyped
  <2> QED
    BY <2>1, <2>2 DEF SearchTyped, MapIsPlain, SeenIsBounded, StoppedIsSilent,
       RepliesFromChosen,
       multicastBind
<1>6. CASE ScanReady \/ ScanAgain
  <2>1. UNCHANGED <<home, at, had, moves, scanTimer, stopped, seenDeviceIps, devices, lanIp,
                    recent, brokerConnected, readBack, spokeFor>>
    BY <1>6 DEF ScanReady, ScanAgain
  <2>2. \/ SendScan /\ ~stopped /\ sock' = "open"
        \/ sock' = "off" /\ air' = air
    BY <1>6 DEF ScanReady, ScanAgain, GoesOn, StoppedIsSilent
  <2> QED
    BY <2>1, <2>2, ScansStayOnChosen DEF SearchTyped, MapIsPlain, SeenIsBounded,
       StoppedIsSilent,
       RepliesFromChosen, multicastBind
<1>7. CASE CloseClient
  <2>1. UNCHANGED <<home, at, had, moves, devices, lanIp, recent, brokerConnected, readBack, spokeFor>>
    BY <1>7 DEF CloseClient
  <2>2. stopped' = TRUE /\ scanTimer' = FALSE /\ sock' \in {"off", "listen", "scan"}
        /\ seenDeviceIps' = {} /\ air' = {}
    BY <1>7 DEF CloseClient
  <2>3. IsFiniteSet(seenDeviceIps') /\ SeenIsBounded'
    BY <2>2, FS_EmptySet, DiscoveryAssumption DEF SeenIsBounded
  <2> QED
    BY <2>1, <2>2, <2>3 DEF SearchTyped, MapIsPlain, StoppedIsSilent, RepliesFromChosen,
       multicastBind
<1>8. ASSUME NEW d \in air, StatusReply(d)
      PROVE  SearchInv' /\ UNCHANGED home
  <2>1. UNCHANGED <<home, at, had, moves, sock, scanTimer, stopped, seenDeviceIps, devices,
                    lanIp, brokerConnected, readBack, spokeFor>> /\ air' = air \ {d}
    BY <1>8 DEF StatusReply
  <2>2. recent' \subseteq Bulbs
    <3>1. deviceByLanIp(d.from) \in Bulbs \cup {None} /\ d.light \in Bulbs
      BY HolderHolds DEF deviceByLanIp, MapIsPlain, SearchTyped, Datagrams
    <3> QED
      BY <1>8, <3>1 DEF StatusReply, SearchTyped
  <2> QED
    BY <2>1, <2>2 DEF SearchTyped, MapIsPlain, SeenIsBounded, StoppedIsSilent,
       RepliesFromChosen,
       multicastBind
<1>9. ASSUME NEW d \in air, ScanReply(d)
      PROVE  SearchInv' /\ UNCHANGED home
  <2>1. UNCHANGED <<home, sock, scanTimer, stopped, at, had, moves, brokerConnected, readBack>>
    BY <1>9 DEF ScanReply
  <2>2. d.kind = "scan" /\ ~stopped
    BY <1>9 DEF ScanReply, StoppedIsSilent
  <2>3. CASE TurnedAway(<<d.light, d.from>>)
    <3>1. UNCHANGED <<seenDeviceIps, devices, lanIp, recent, spokeFor>> /\ air' = air \ {d}
      BY <1>9, <2>3 DEF ScanReply
    <3> QED
      BY <2>1, <3>1 DEF SearchTyped, MapIsPlain, SeenIsBounded, StoppedIsSilent,
         RepliesFromChosen,
         multicastBind
  <2>4. CASE ~TurnedAway(<<d.light, d.from>>)
    <3>1. /\ SearchTyped' /\ MapIsPlain' /\ seenDeviceIps' = SeenWith(<<d.light, d.from>>)
          /\ \A x \in air' : x \in air \/ x.kind = "devStatus"
      BY <1>9, <2>4, ReplyIsTaken
    <3>2. <<d.light, d.from>> \in Bulbs \X LanAddresses
      BY DEF SearchTyped, Datagrams
    <3>3. IsFiniteSet(seenDeviceIps') /\ SeenIsBounded'
      BY <2>4, <3>1, <3>2, SeenStaysBounded DEF SeenIsBounded
    <3>4. StoppedIsSilent'
      BY <2>1, <2>2 DEF StoppedIsSilent
    <3>5. RepliesFromChosen'
      <4>1. \A s \in seenDeviceIps' : s \in seenDeviceIps \/ s = <<d.light, d.from>>
        BY <3>1 DEF SeenWith
      <4> QED
        BY <2>1, <2>2, <3>1, <4>1 DEF RepliesFromChosen, multicastBind
    <3> QED
      BY <2>1, <3>1, <3>3, <3>4, <3>5
  <2> QED
    BY <2>3, <2>4
<1>10. ASSUME NEW ip \in LanAddresses, ReadBackFires(ip)
      PROVE  SearchInv' /\ UNCHANGED home
  <2>1. UNCHANGED <<home, at, had, moves, sock, scanTimer, stopped, seenDeviceIps, devices,
                    lanIp, recent, brokerConnected, spokeFor>> /\ readBack' = readBack \ {ip} /\ ~stopped
    BY <1>10 DEF ReadBackFires
  <2>2. air' \subseteq air \cup Answers("devStatus", {ip})
    BY <1>10 DEF ReadBackFires, OnTheAir
  <2>3. air' \subseteq Datagrams /\ \A x \in air' : x \in air \/ x.kind = "devStatus"
    BY <2>2, RepliesAreTyped DEF SearchTyped
  <2> QED
    BY <2>1, <2>3 DEF SearchTyped, MapIsPlain, SeenIsBounded, StoppedIsSilent,
       RepliesFromChosen,
       multicastBind
<1> QED
  BY <1>1, <1>2, <1>3, <1>4, <1>5, <1>6, <1>7, <1>8, <1>9, <1>10 DEF DiscoveryNext

(* A search stays on the chosen network, within its bound, and ends with   *)
(* the stop, in every household.                                           *)
THEOREM SearchIsBounded ==
  DiscoverySpec => [](LanTypeOK /\ SeenIsBounded /\ StoppedIsSilent /\ SearchStaysOnChosen)
<1>1. SearchInv => LanTypeOK /\ SeenIsBounded /\ StoppedIsSilent /\ SearchStaysOnChosen
  BY SearchIsTyped DEF SearchInv, RepliesFromChosen, SearchStaysOnChosen
<1>2. DiscoveryInit => SearchInv
  BY SearchStarts
<1>3. SearchInv /\ [DiscoveryNext]_discoveryVars => SearchInv'
  BY SearchInvKept
<1> QED
  BY <1>1, <1>2, <1>3, PTL DEF DiscoverySpec

(* What an address says: whoever has it, answers from it or answered for a *)
(* device from it was once given it, and only a router that hands          *)
(* addresses on gives one to two lights.                                   *)
AddressesAreKnown ==
  /\ \A l \in Bulbs : at[l] # None => l \in had[at[l]]
  /\ \A d \in air : d.light \in had[d.from]
  /\ \A l \in Bulbs : (lanIp[l] = None) = (spokeFor[l] = None)
  /\ \A l \in Bulbs : lanIp[l] # None => spokeFor[l] \in had[lanIp[l]]
  /\ ~home.reuse => \A ip \in LanAddresses : \A l, m \in had[ip] : l = m

MeetInv ==
  /\ SearchInv /\ home.account \subseteq InMap
  /\ AddressesAreKnown /\ GuessIsForced

(* A light that had the address of a device may be taken for it.           *)
LEMMA HadIsTaken ==
  ASSUME SearchTyped, AddressesAreKnown, NEW d \in Bulbs, lanIp[d] # None, NEW l \in had[lanIp[d]]
  PROVE  TakenFor(d, l)
<1>1. lanIp[d] \in LanAddresses /\ spokeFor[d] \in had[lanIp[d]]
  BY DEF SearchTyped, AddressesAreKnown
<1>2. ~home.reuse => l = spokeFor[d]
  BY <1>1 DEF AddressesAreKnown
<1> QED
  BY <1>1, <1>2 DEF TakenFor

(* Whoever has, or answered from, the address of a device had it: a device *)
(* only meets lights it may be taken for.                                  *)
LEMMA DevicesMeet == MeetInv => MeetsTheOneThatAnswered
<1> SUFFICES ASSUME MeetInv, NEW d \in InMap, lanIp[d] # None
             PROVE  /\ \A l \in LightsAt(lanIp[d]) : TakenFor(d, l)
                    /\ \A x \in air : deviceByLanIp(x.from) = d => TakenFor(d, x.light)
  BY DEF MeetsTheOneThatAnswered
<1>1. d \in Bulbs /\ d # None /\ SearchTyped /\ AddressesAreKnown
  BY DiscoveryAssumption DEF MeetInv, SearchInv, MapIsPlain, InMap
<1>2. \A l \in LightsAt(lanIp[d]) : l \in had[lanIp[d]]
  BY <1>1 DEF LightsAt, AddressesAreKnown
<1>3. ASSUME NEW x \in air, deviceByLanIp(x.from) = d
      PROVE  x.light \in had[lanIp[d]]
  <2>1. lanIp[d] = x.from
    BY <1>1, <1>3, HolderHolds DEF deviceByLanIp, MeetInv, SearchInv, MapIsPlain
  <2> QED
    BY <1>1, <2>1 DEF AddressesAreKnown
<1> QED
  BY <1>1, <1>2, <1>3, HadIsTaken

(* What is sent comes from a light that has the address.                   *)
LEMMA RepliesAreKnown ==
  ASSUME SearchTyped, AddressesAreKnown, NEW kind, NEW ips \in SUBSET LanAddresses
  PROVE  \A d \in Answers(kind, ips) : d.light \in had[d.from]
  BY DiscoveryAssumption DEF SearchTyped, AddressesAreKnown, Answers

(* A reply is taken for the device of its light; for another only when no  *)
(* device is its light's, and that other is the last of its model without  *)
(* an address (findDeviceForLanDiscovery).                                 *)
LEMMA GuessesAreLast ==
  ASSUME MapIsPlain, NEW l \in Bulbs, findDeviceForLanDiscovery(l) \notin {l, None}
  PROVE  /\ home.sameSku /\ l \notin InMap
         /\ lanIp[findDeviceForLanDiscovery(l)] = None
         /\ \A e \in InMap : lanIp[e] = None => e = findDeviceForLanDiscovery(l)
<1>1. l \notin InMap /\ Cardinality(SkuMatches) = 1
      /\ findDeviceForLanDiscovery(l) = CHOOSE d \in SkuMatches : TRUE
  BY DEF findDeviceForLanDiscovery
<1>2. IsFiniteSet(SkuMatches)
  <2>1. InMap \subseteq Bulbs
    BY DEF MapIsPlain, InMap
  <2> QED
    BY <2>1, FS_Subset, DiscoveryAssumption DEF SkuMatches
<1>3. PICK d : SkuMatches = {d}
  BY <1>1, <1>2, FS_Singleton
<1>4. findDeviceForLanDiscovery(l) = d
  BY <1>1, <1>3
<1>5. d \in InMap /\ lanIp[d] = None /\ home.sameSku
  BY <1>3 DEF SkuMatches
<1>6. \A e \in InMap : lanIp[e] = None => e = d
  BY <1>3, <1>5 DEF SkuMatches
<1> QED
  BY <1>1, <1>4, <1>5, <1>6

(* What a reply that is let in changes for the devices: one of them gets   *)
(* the address, its own light's if there is one.                           *)
LEMMA ReplyIsTied ==
  ASSUME MeetInv, NEW d \in air, ScanReply(d), ~TurnedAway(<<d.light, d.from>>),
         NEW target, target = IF findDeviceForLanDiscovery(d.light) = None THEN d.light
                              ELSE findDeviceForLanDiscovery(d.light)
  PROVE  /\ target \in Bulbs /\ InMap \subseteq InMap' /\ target \in InMap'
         /\ lanIp' = [lanIp EXCEPT ![target] = d.from]
         /\ spokeFor' = [spokeFor EXCEPT ![target] = d.light]
         /\ d.light \in InMap => target = d.light
         /\ UNCHANGED <<home, at, had>>
<1> DEFINE found == findDeviceForLanDiscovery(d.light)
<1>1. d.light \in Bulbs /\ d.from \in LanAddresses /\ d.light # None
  BY DiscoveryAssumption DEF MeetInv, SearchInv, SearchTyped, Datagrams
<1>2. /\ devices' = IF found = None THEN Append(devices, d.light) ELSE devices
      /\ lanIp' = [lanIp EXCEPT ![target] = d.from]
      /\ spokeFor' = [spokeFor EXCEPT ![target] = d.light]
      /\ UNCHANGED <<home, at, had>>
  BY DEF ScanReply, routerVars
<1>3. /\ found \in InMap \cup {None} /\ InMap \subseteq Bulbs
      /\ d.light \in InMap => found = d.light
  BY <1>1, FoundIsInMap DEF MeetInv, SearchInv, findDeviceForLanDiscovery
<1>4. devices \in Seq(Bulbs)
  BY DEF MeetInv, SearchInv, MapIsPlain
<1> HIDE DEF found
<1>5. InMap \subseteq InMap' /\ target \in InMap'
  <2>1. CASE found = None
    <3>1. target = d.light /\ devices' = Append(devices, d.light)
      BY <1>2, <2>1 DEF found
    <3>2. /\ DOMAIN devices' = 1..(Len(devices) + 1) /\ DOMAIN devices = 1..Len(devices)
          /\ devices'[Len(devices) + 1] = d.light /\ Len(devices) \in Nat
          /\ \A i \in 1..Len(devices) : devices'[i] = devices[i]
      BY <1>1, <1>4, <3>1
    <3>3. Len(devices) + 1 \in DOMAIN devices' /\ DOMAIN devices \subseteq DOMAIN devices'
      BY <3>2
    <3> QED
      BY <3>1, <3>2, <3>3 DEF InMap
  <2>2. CASE found # None
    <3>1. devices' = devices /\ target \in InMap
      BY <1>2, <1>3, <2>2 DEF found
    <3> QED
      BY <3>1 DEF InMap
  <2> QED
    BY <2>1, <2>2
<1>6. target \in Bulbs
  BY <1>1, <1>3 DEF found
<1>7. d.light \in InMap => target = d.light
  BY <1>1, <1>3 DEF found
<1> QED
  BY <1>2, <1>5, <1>6, <1>7

(* At the start every address was given to the light that has it.          *)
LEMMA MeetStarts == DiscoveryInit => MeetInv
<1> SUFFICES ASSUME DiscoveryInit PROVE MeetInv
  OBVIOUS
<1>1. SearchInv /\ InMap = home.account
  BY SearchStarts
<1>2. AddressesAreKnown
  <2>1. \A l \in Bulbs : at[l] \in LanAddresses /\ l \in had[at[l]]
    BY DEF DiscoveryInit, LightsAt
  <2>2. \A ip \in LanAddresses : \A l, m \in had[ip] : l = m
    BY DEF DiscoveryInit, LightsAt
  <2>3. air = {} /\ \A l \in Bulbs : lanIp[l] = None /\ spokeFor[l] = None
    BY DEF DiscoveryInit
  <2> QED
    BY <2>1, <2>2, <2>3 DEF AddressesAreKnown
<1>3. GuessIsForced
  BY DEF GuessIsForced, DiscoveryInit
<1> QED
  BY <1>1, <1>2, <1>3 DEF MeetInv

(* A reply that is let in makes a guess only where the code has to, and    *)
(* ends one where it can.                                                  *)
LEMMA GuessesStayForced ==
  ASSUME MeetInv, NEW d \in air, ScanReply(d), ~TurnedAway(<<d.light, d.from>>)
  PROVE  GuessIsForced' /\ OwnAnswerStays
<1> DEFINE found == findDeviceForLanDiscovery(d.light)
           target == IF found = None THEN d.light ELSE found
<1>1. /\ target \in Bulbs /\ home' = home
      /\ lanIp' = [lanIp EXCEPT ![target] = d.from]
      /\ spokeFor' = [spokeFor EXCEPT ![target] = d.light]
  BY ReplyIsTied
<1>2. /\ lanIp \in [Bulbs -> LanAddresses \cup {None}]
      /\ spokeFor \in [Bulbs -> Bulbs \cup {None}]
      /\ d.light \in Bulbs /\ d.light # None /\ d.from # None
      /\ home.account \subseteq InMap /\ home.account \subseteq Bulbs
  BY DiscoveryAssumption DEF MeetInv, SearchInv, SearchTyped, Datagrams, HomeType
<1>3. target # d.light =>
        /\ home.sameSku /\ d.light \notin InMap /\ lanIp[target] = None
        /\ \A e \in InMap : lanIp[e] = None => e = target
  BY <1>2, GuessesAreLast DEF MeetInv, SearchInv
<1> HIDE DEF target
<1>4. \A e \in home.account : lanIp[e] # None => lanIp'[e] # None
  BY <1>1, <1>2
<1>5. \A x \in Bulbs : x # target => spokeFor'[x] = spokeFor[x]
  BY <1>1, <1>2
<1>6. spokeFor'[target] = d.light /\ lanIp'[target] = d.from
  BY <1>1, <1>2
<1>7. ASSUME NEW x \in Bulbs, spokeFor'[x] \notin {None, x}
      PROVE  /\ home'.sameSku /\ spokeFor'[x] \notin home'.account
             /\ \A e \in home'.account : lanIp'[e] # None
  <2>1. CASE x = target
    <3>1. target # d.light
      BY <1>6, <1>7, <2>1
    <3>2. \A e \in home.account : e # target => lanIp[e] # None
      BY <1>2, <1>3, <3>1
    <3>3. \A e \in home.account : lanIp'[e] # None
      BY <1>2, <1>4, <1>6, <3>2
    <3> QED
      BY <1>1, <1>2, <1>3, <1>6, <2>1, <3>1, <3>3
  <2>2. CASE x # target
    <3>1. spokeFor'[x] = spokeFor[x]
      BY <1>5, <2>2
    <3>2. /\ home.sameSku /\ spokeFor[x] \notin home.account
          /\ \A e \in home.account : lanIp[e] # None
      BY <1>7, <3>1 DEF MeetInv, GuessIsForced
    <3> QED
      BY <1>1, <1>4, <3>1, <3>2
  <2> QED
    BY <2>1, <2>2
<1>8. ASSUME NEW x \in Bulbs, spokeFor[x] = x
      PROVE  spokeFor'[x] = x
  <2>1. CASE x = target
    <3>1. lanIp[target] # None
      BY <1>8, <2>1, DiscoveryAssumption DEF MeetInv, AddressesAreKnown
    <3> QED
      BY <1>3, <1>6, <2>1, <3>1
  <2> QED
    BY <1>5, <1>8, <2>1
<1> QED
  BY <1>7, <1>8 DEF GuessIsForced, OwnAnswerStays

(* No step ties a device to a light it may not be taken for.               *)
LEMMA MeetInvKept ==
  ASSUME MeetInv, [DiscoveryNext]_discoveryVars
  PROVE  MeetInv' /\ OwnAnswerStays
<1>1. SearchInv' /\ home' = home
  BY SearchInvKept DEF MeetInv
<1> USE DEF routerVars, clientVars
<1>2. ASSUME UNCHANGED <<devices, lanIp, spokeFor>>, AddressesAreKnown'
      PROVE  MeetInv' /\ OwnAnswerStays
  BY <1>1, <1>2 DEF MeetInv, GuessIsForced, OwnAnswerStays, InMap
<1>3. ASSUME NEW l \in Bulbs, PlugIn(l)
      PROVE  MeetInv' /\ OwnAnswerStays
  <2>1. PICK ip \in LanAddresses :
          /\ MayHave(l, ip)
          /\ at' = [at EXCEPT ![l] = ip] /\ had' = [had EXCEPT ![ip] = @ \cup {l}]
    BY <1>3 DEF PlugIn
  <2>2. UNCHANGED <<devices, lanIp, air, spokeFor>>
    BY <1>3 DEF PlugIn
  <2>3. /\ at \in [Bulbs -> LanAddresses \cup {None}]
        /\ had \in [LanAddresses -> SUBSET Bulbs]
        /\ lanIp \in [Bulbs -> LanAddresses \cup {None}] /\ air \subseteq Datagrams
    BY DEF MeetInv, SearchInv, SearchTyped
  <2>4. \A a \in LanAddresses : had[a] \subseteq had'[a]
    BY <2>1, <2>3
  <2>5. l \in had'[ip] /\ \A a \in LanAddresses : a # ip => had'[a] = had[a]
    BY <2>1, <2>3
  <2>6. \A x \in Bulbs : at'[x] # None => x \in had'[at'[x]]
    <3> SUFFICES ASSUME NEW x \in Bulbs, at'[x] # None PROVE x \in had'[at'[x]]
      OBVIOUS
    <3>1. CASE x = l
      BY <2>1, <2>3, <2>5, <3>1
    <3>2. CASE x # l
      BY <2>1, <2>3, <2>4, <3>2 DEF MeetInv, AddressesAreKnown
    <3> QED
      BY <3>1, <3>2
  <2>7. \A d \in air' : d.light \in had'[d.from]
    BY <2>2, <2>3, <2>4 DEF MeetInv, AddressesAreKnown, Datagrams
  <2>8. \A x \in Bulbs : lanIp'[x] # None => spokeFor'[x] \in had'[lanIp'[x]]
    BY <2>2, <2>3, <2>4 DEF MeetInv, AddressesAreKnown
  <2>9. ~home.reuse => \A a \in LanAddresses : \A x, y \in had'[a] : x = y
    <3> SUFFICES ASSUME ~home.reuse, NEW a \in LanAddresses, NEW x \in had'[a], NEW y \in had'[a]
                 PROVE  x = y
      OBVIOUS
    <3>1. CASE a = ip
      <4>1. had[ip] \subseteq {l}
        BY <2>1 DEF MayHave
      <4> QED
        BY <2>1, <2>3, <3>1, <4>1
    <3>2. CASE a # ip
      BY <2>5, <3>2 DEF MeetInv, AddressesAreKnown
    <3> QED
      BY <3>1, <3>2
  <2>10. AddressesAreKnown'
    BY <1>1, <2>2, <2>6, <2>7, <2>8, <2>9 DEF MeetInv, AddressesAreKnown
  <2> QED
    BY <1>2, <2>2, <2>10
<1>4. ASSUME NEW l \in Bulbs, Unplug(l)
      PROVE  MeetInv' /\ OwnAnswerStays
  <2>1. at' = [at EXCEPT ![l] = None] /\ UNCHANGED <<had, devices, lanIp, air, spokeFor>>
    BY <1>4 DEF Unplug
  <2>2. AddressesAreKnown'
    BY <1>1, <2>1 DEF MeetInv, SearchInv, SearchTyped, AddressesAreKnown
  <2> QED
    BY <1>2, <2>1, <2>2
<1>5. ASSUME (\E l \in Bulbs : GoesStale(l) \/ LanCommand(l)) \/ Lose \/ BrokerChanges \/ StartLan
             \/ ListenFails \/ ListenReady \/ CloseClient \/ UNCHANGED discoveryVars
             \/ (\E d \in air : StatusReply(d))
      PROVE  MeetInv' /\ OwnAnswerStays
  <2>1. UNCHANGED <<at, had, devices, lanIp, spokeFor>> /\ air' \subseteq air
    BY <1>5 DEF GoesStale, LanCommand, Lose, BrokerChanges, StartLan, ListenFails, ListenReady,
       CloseClient, StatusReply, discoveryVars
  <2>2. AddressesAreKnown'
    BY <1>1, <2>1 DEF MeetInv, AddressesAreKnown
  <2> QED
    BY <1>2, <2>1, <2>2
<1>6. ASSUME NEW kind, NEW ips \in SUBSET LanAddresses, OnTheAir(Answers(kind, ips)),
             UNCHANGED <<at, had, devices, lanIp, spokeFor>>
      PROVE  MeetInv' /\ OwnAnswerStays
  <2>1. air' \subseteq air \cup Answers(kind, ips)
    BY <1>6 DEF OnTheAir
  <2>2. \A d \in air' : d.light \in had[d.from]
    BY <2>1, RepliesAreKnown DEF MeetInv, SearchInv, AddressesAreKnown
  <2>3. AddressesAreKnown'
    BY <1>1, <1>6, <2>2 DEF MeetInv, AddressesAreKnown
  <2> QED
    BY <1>2, <1>6, <2>3
<1>7. CASE ScanReady \/ ScanAgain
  <2>1. UNCHANGED <<at, had, devices, lanIp, spokeFor>> /\ (SendScan \/ air' = air)
    BY <1>7 DEF ScanReady, ScanAgain
  <2>2. CASE SendScan
    <3>1. Targets \in SUBSET LanAddresses
      BY DEF Targets, MeetInv, SearchInv, SearchTyped
    <3> QED
      BY <1>6, <2>1, <2>2, <3>1 DEF SendScan
  <2>3. CASE air' = air
    <3>1. AddressesAreKnown'
      BY <1>1, <2>1, <2>3 DEF MeetInv, AddressesAreKnown
    <3> QED
      BY <1>2, <2>1, <3>1
  <2> QED
    BY <2>1, <2>2, <2>3
<1>8. ASSUME NEW ip \in LanAddresses, ReadBackFires(ip)
      PROVE  MeetInv' /\ OwnAnswerStays
  BY <1>6, <1>8 DEF ReadBackFires
<1>9. ASSUME NEW d \in air, ScanReply(d)
      PROVE  MeetInv' /\ OwnAnswerStays
  <2>1. CASE TurnedAway(<<d.light, d.from>>)
    <3>1. UNCHANGED <<at, had, devices, lanIp, spokeFor>> /\ air' = air \ {d}
      BY <1>9, <2>1 DEF ScanReply
    <3>2. AddressesAreKnown'
      BY <1>1, <3>1 DEF MeetInv, AddressesAreKnown
    <3> QED
      BY <1>2, <3>1, <3>2
  <2>2. CASE ~TurnedAway(<<d.light, d.from>>)
    <3> DEFINE target == IF findDeviceForLanDiscovery(d.light) = None THEN d.light
                         ELSE findDeviceForLanDiscovery(d.light)
    <3>1. /\ target \in Bulbs /\ InMap \subseteq InMap'
          /\ lanIp' = [lanIp EXCEPT ![target] = d.from]
          /\ spokeFor' = [spokeFor EXCEPT ![target] = d.light]
          /\ UNCHANGED <<home, at, had>>
      BY <1>9, <2>2, ReplyIsTied
    <3> HIDE DEF target
    <3>2. /\ d.from \in LanAddresses /\ d.light \in Bulbs /\ None \notin LanAddresses \cup Bulbs
          /\ d.light \in had[d.from] /\ {d.from} \in SUBSET LanAddresses
          /\ lanIp \in [Bulbs -> LanAddresses \cup {None}]
          /\ spokeFor \in [Bulbs -> Bulbs \cup {None}]
      BY DiscoveryAssumption
         DEF MeetInv, SearchInv, SearchTyped, Datagrams, AddressesAreKnown
    <3>3. air' \subseteq air \cup Answers("devStatus", {d.from})
      BY <1>9, <2>2 DEF ScanReply
    <3>4. \A x \in air' : x.light \in had[x.from]
      BY <3>2, <3>3, RepliesAreKnown DEF MeetInv, SearchInv, AddressesAreKnown
    <3>5. /\ \A l \in Bulbs : (lanIp'[l] = None) = (spokeFor'[l] = None)
          /\ \A l \in Bulbs : lanIp'[l] # None => spokeFor'[l] \in had[lanIp'[l]]
      BY <3>1, <3>2 DEF MeetInv, AddressesAreKnown
    <3>6. AddressesAreKnown'
      BY <3>1, <3>4, <3>5 DEF MeetInv, AddressesAreKnown
    <3>7. GuessIsForced' /\ OwnAnswerStays
      BY <1>9, <2>2, GuessesStayForced
    <3> QED
      BY <1>1, <3>1, <3>6, <3>7 DEF MeetInv
  <2> QED
    BY <2>1, <2>2
<1> QED
  BY <1>3, <1>4, <1>5, <1>7, <1>8, <1>9 DEF DiscoveryNext

(* The address a reply came from is held by a device it may be taken for,  *)
(* and the device of its own light has it.                                 *)
LEMMA AnswererIsHeard ==
  ASSUME MeetInv, [DiscoveryNext]_discoveryVars, MeetInv'
  PROVE  AnswererIsRead
<1> SUFFICES ASSUME NEW d \in air, ScanReply(d), <<d.light, d.from>> \in seenDeviceIps'
             PROVE  /\ deviceByLanIp(d.from)' # None
                    /\ TakenFor(deviceByLanIp(d.from), d.light)'
                    /\ d.light \in InMap => spokeFor'[d.light] = d.light /\ lanIp'[d.light] = d.from
  BY DEF AnswererIsRead
<1> DEFINE target == IF findDeviceForLanDiscovery(d.light) = None THEN d.light
                     ELSE findDeviceForLanDiscovery(d.light)
<1>1. ~TurnedAway(<<d.light, d.from>>)
  BY DEF ScanReply, TurnedAway, IsNewIdentity
<1>2. /\ target \in Bulbs /\ target \in InMap'
      /\ lanIp' = [lanIp EXCEPT ![target] = d.from]
      /\ spokeFor' = [spokeFor EXCEPT ![target] = d.light]
      /\ d.light \in InMap => target = d.light
      /\ had' = had
  BY <1>1, ReplyIsTied
<1> HIDE DEF target
<1>3. /\ d.from \in LanAddresses /\ None \notin LanAddresses \cup Bulbs /\ d.light \in had[d.from]
      /\ lanIp \in [Bulbs -> LanAddresses \cup {None}]
      /\ spokeFor \in [Bulbs -> Bulbs \cup {None}]
  BY DiscoveryAssumption DEF MeetInv, SearchInv, SearchTyped, Datagrams, AddressesAreKnown
<1>4. lanIp'[target] = d.from /\ spokeFor'[target] = d.light
  BY <1>2, <1>3
<1>5. PICK i \in DOMAIN devices' : devices'[i] = target
  BY <1>2 DEF InMap
<1> DEFINE holder == HolderIn(devices', lanIp', d.from)
<1>6. holder # None /\ holder \in Bulbs /\ lanIp'[holder] = d.from
  <2>1. devices' \in Seq(Bulbs)
    BY DEF MeetInv, SearchInv, MapIsPlain
  <2> QED
    BY <1>4, <1>5, <2>1, HolderHolds
<1> HIDE DEF holder
<1>7. spokeFor'[holder] \in had'[d.from] /\ d.light \in had'[d.from]
  BY <1>2, <1>3, <1>6 DEF MeetInv, AddressesAreKnown
<1>8. ~home'.reuse => d.light = spokeFor'[holder]
  BY <1>3, <1>7 DEF MeetInv, AddressesAreKnown
<1>9. d.light = spokeFor'[holder] \/ (home'.reuse /\ {d.light, spokeFor'[holder]} \subseteq had'[lanIp'[holder]])
  BY <1>6, <1>7, <1>8
<1> QED
  BY <1>2, <1>4, <1>6, <1>9 DEF deviceByLanIp, TakenFor, holder

(* In every household, also where the router hands addresses on or a reply *)
(* is taken for the last device of its model, a device meets only the      *)
(* light that answered for it or one that has had its address as well;     *)
(* however lights move and datagrams are lost, late or out of order.       *)
THEOREM LightsMeet == DiscoverySpec => LightsAreMet
<1>1. MeetInv => /\ LanTypeOK /\ MeetsTheOneThatAnswered /\ GuessIsForced
                 /\ SeenIsBounded /\ StoppedIsSilent /\ SearchStaysOnChosen
  BY SearchIsTyped, DevicesMeet DEF MeetInv, SearchInv, RepliesFromChosen, SearchStaysOnChosen
<1>2. DiscoveryInit => MeetInv
  BY MeetStarts
<1>3. MeetInv /\ [DiscoveryNext]_discoveryVars => MeetInv' /\ OwnAnswerStays
  BY MeetInvKept
<1>4. MeetInv /\ MeetInv' /\ [DiscoveryNext]_discoveryVars => [AnswererIsRead /\ OwnAnswerStays]_discoveryVars
  BY <1>3, AnswererIsHeard
<1> QED
  BY <1>1, <1>2, <1>3, <1>4, PTL DEF DiscoverySpec, LightsAreMet

-----------------------------------------------------------------------------
(* KeyMigration                                                            *)

(* A start that stands before its write knows what is stored, and there is *)
(* something to write.                                                     *)
PatchIsFresh == start = "read" => patch = buildKeyPatch /\ patch # NoPatch

(* The write leaves nothing a later start could want to write.             *)
NothingLeft == writes = 0 \/ (writes = 1 /\ updated /\ networkInterface = None /\ retired = {})

(* Before the update nothing runs on the new key; after it there is one.   *)
UpdateComesFirst == IF updated THEN bind # None ELSE start = "down" /\ networkInterface # None

KeysInv == KeysTypeOK /\ PatchIsFresh /\ NothingLeft /\ UpdateComesFirst

(* What the user said last is under the old key as long as that has a      *)
(* value, under the new one after.                                         *)
StoredIsWanted ==
  IF isPresent(networkInterface) THEN networkInterface = wanted ELSE bind = coerce(wanted)

(* The value that moves is never empty, and is there exactly when the old  *)
(* key has a value (buildNativeKeyPatch).                                  *)
LEMMA PatchMoves ==
  ASSUME NEW v \in Entered
  PROVE  /\ coerce(v) \in BindChoices \cup {Everywhere}
         /\ coerce(v) # None /\ coerce(v) # Empty
         /\ coerce(v) = IF v = Empty THEN Everywhere ELSE v
  BY KeysAssumption DEF coerce, Entered

(* The invariant the two theorems on settings rest on, for every           *)
(* environment: the write happens once (migrateNativeKeys).                *)
LEMMA KeysInvHolds == KeysSpec => []KeysInv
<1>1. KeysInit => KeysInv
  <2> SUFFICES ASSUME KeysInit PROVE KeysInv
    OBVIOUS
  <2> USE KeysAssumption DEF KeysInit
  <2>1. KeysTypeOK
    <3>1. patch \in [moves : BindChoices \cup {Everywhere, None}, drops : SUBSET RetiredKeys]
      BY DEF NoPatch
    <3> QED
      <4>1. networkInterface \in Entered \cup {None} /\ bind \in Entered \cup {None} /\ wanted \in Entered
        OBVIOUS
      <4>2. updated \in BOOLEAN /\ retired \subseteq RetiredKeys /\ start \in {"down", "read", "run"}
        OBVIOUS
      <4>3. edits \in 0..MaxEdits /\ writes \in Nat
        OBVIOUS
      <4>4. config \in BindChoices \cup {Everywhere, Empty, None}
        OBVIOUS
      <4> QED BY <3>1, <4>1, <4>2, <4>3, <4>4 DEF KeysTypeOK
  <2>2. PatchIsFresh /\ NothingLeft /\ UpdateComesFirst
    BY DEF PatchIsFresh, NothingLeft, UpdateComesFirst, Entered
  <2> QED
    BY <2>1, <2>2 DEF KeysInv
<1>2. ASSUME KeysInv, [KeysNext]_keyVars
      PROVE  KeysInv'
  <2> USE KeysAssumption DEF KeysInv, KeysTypeOK, PatchIsFresh, NothingLeft, UpdateComesFirst
  <2>1. CASE \E v \in Entered : EditOld(v)
    <3> PICK v \in Entered : EditOld(v)
      BY <2>1
    <3> QED
      BY <1>2 DEF EditOld, Entered, buildKeyPatch
  <2>2. CASE Update
    BY <1>2, <2>2 DEF Update, Entered, isPresent
  <2>3. CASE StartReads
    <3>1. buildKeyPatch \in [moves : BindChoices \cup {Everywhere, None}, drops : SUBSET RetiredKeys]
      BY <1>2, PatchMoves DEF buildKeyPatch, isPresent
    <3>2. buildKeyPatch' = buildKeyPatch
      BY <2>3 DEF StartReads, stored, buildKeyPatch
    <3> QED
      BY <1>2, <2>3, <3>1, <3>2 DEF StartReads, stored, Entered, NoPatch
  <2>4. CASE WriteSucceeds
    <3>1. patch.moves \in BindChoices \cup {Everywhere, None} /\ patch.drops = retired
      BY <1>2, <2>4 DEF WriteSucceeds, buildKeyPatch
    <3>2. networkInterface' = None
      BY <1>2, <2>4, PatchMoves DEF WriteSucceeds, OldKeyAfter, buildKeyPatch, isPresent
    <3>3. writes = 0
      BY <1>2, <2>4, PatchMoves DEF WriteSucceeds, buildKeyPatch, isPresent, NoPatch
    <3> QED
      BY <1>2, <2>4, <3>1, <3>2, <3>3 DEF WriteSucceeds, BindAfter, Entered, NoPatch
  <2>5. CASE PatchFails
    BY <1>2, <2>5 DEF PatchFails, BindAfter, stored, Entered, NoPatch
  <2>6. CASE ProcessEnds
    BY <1>2, <2>6 DEF ProcessEnds, stored, NoPatch
  <2>7. CASE \E v \in BindChoices \cup {Everywhere} : EditNew(v)
    BY <1>2, <2>7 DEF EditNew, Entered
  <2>8. CASE UNCHANGED keyVars
    BY <1>2, <2>8 DEF keyVars, buildKeyPatch
  <2> QED
    BY <1>2, <2>1, <2>2, <2>3, <2>4, <2>5, <2>6, <2>7, <2>8 DEF KeysNext
<1> QED
  BY <1>1, <1>2, PTL DEF KeysSpec

(* One update restarts the instance at most once: also when reads and      *)
(* writes fail, the process ends anywhere and the user edits early.        *)
THEOREM OneRestart == KeysSpec => []RestartsOnce
<1>1. KeysInv => RestartsOnce
  BY DEF KeysInv, NothingLeft, RestartsOnce
<1> QED
  BY <1>1, KeysInvHolds, PTL

(* What is stored, and what runs, is what the user said last.              *)
ChoiceInv == KeysInv /\ StoredIsWanted /\ RunsOnTheChoice

(* An existing installation keeps what its user configured, through every  *)
(* failed write and every end of the process, when the settings can be     *)
(* read and the user leaves `bind` alone until the old key has moved.      *)
THEOREM ChoiceStays ==
  ASSUME ~EditsEarly, ~ReadsFail
  PROVE  KeysSpec => []ChoiceSurvives
<1>1. KeysInit => StoredIsWanted /\ RunsOnTheChoice
  BY KeysAssumption DEF KeysInit, StoredIsWanted, RunsOnTheChoice, Entered, isPresent
<1>2. ASSUME ChoiceInv, [KeysNext]_keyVars
      PROVE  (StoredIsWanted /\ RunsOnTheChoice)'
  <2> USE KeysAssumption DEF ChoiceInv, KeysInv, KeysTypeOK, PatchIsFresh, UpdateComesFirst,
                             StoredIsWanted, RunsOnTheChoice, isPresent
  <2>1. CASE \E v \in Entered : EditOld(v)
    BY <1>2, <2>1 DEF EditOld, Entered
  <2>2. CASE Update
    BY <1>2, <2>2 DEF Update
  <2>3. CASE StartReads
    <3>1. coerce(wanted) = (IF wanted = Empty THEN Everywhere ELSE wanted)
      BY <1>2, PatchMoves
    <3>2. start' = "run" => networkInterface = None
      BY <1>2, <2>3, PatchMoves DEF StartReads, buildKeyPatch, NoPatch
    <3>3. start' = "run" => config' = bind
      BY <2>3 DEF StartReads
    <3> QED
      BY <1>2, <2>3, <3>1, <3>2, <3>3 DEF StartReads, stored
  <2>4. CASE WriteSucceeds
    <3>1. patch.moves = IF networkInterface = None THEN None ELSE coerce(wanted)
      BY <1>2, <2>4 DEF WriteSucceeds, buildKeyPatch
    <3>2. coerce(wanted) # None
      BY <1>2, PatchMoves
    <3> QED
      BY <1>2, <2>4, <3>1, <3>2 DEF WriteSucceeds, BindAfter, OldKeyAfter
  <2>5. CASE PatchFails
    <3>1. patch.moves = IF networkInterface = None THEN None ELSE coerce(wanted)
      BY <1>2, <2>5 DEF PatchFails, buildKeyPatch
    <3>2. coerce(wanted) = (IF wanted = Empty THEN Everywhere ELSE wanted) /\ coerce(wanted) # None
      BY <1>2, PatchMoves
    <3> QED
      BY <1>2, <2>5, <3>1, <3>2 DEF PatchFails, BindAfter, stored
  <2>6. CASE ProcessEnds
    BY <1>2, <2>6 DEF ProcessEnds, stored
  <2>7. CASE \E v \in BindChoices \cup {Everywhere} : EditNew(v)
    BY <1>2, <2>7 DEF EditNew, coerce
  <2>8. CASE UNCHANGED keyVars
    BY <1>2, <2>8 DEF keyVars
  <2> QED
    BY <1>2, <2>1, <2>2, <2>3, <2>4, <2>5, <2>6, <2>7, <2>8 DEF KeysNext
<1>3. ChoiceInv => ChoiceSurvives
  BY DEF ChoiceInv, KeysInv, NothingLeft, ChoiceSurvives, RestartsOnce
<1> QED
  BY <1>1, <1>2, <1>3, KeysInvHolds, PTL DEF KeysSpec, ChoiceInv

-----------------------------------------------------------------------------
(* SavedLogin                                                              *)

HasSession(b) == parsePersistedBlob(b) # None

(* A stored session is of the account it names, or else of the one in the  *)
(* settings.                                                               *)
OfItsAccount(b) ==
  HasSession(b) =>
    LET a == IF b.accountKey = None THEN goveeLogin.account ELSE b.accountKey
    IN  b.session.bearer = a /\ b.session.topic = a

(* That holds of every store a start may still read from.                  *)
StoresAreOwn ==
  /\ OfItsAccount(credsFile)
  /\ credsFile = None => OfItsAccount(credsMeta)
  /\ ~HasSession(credsFile) => OfItsAccount(credsState)
  /\ credsMeta # None => HasSession(credsMeta) /\ credsMeta.accountKey = None /\ credsState = None
  /\ credsState # None => HasSession(credsState) /\ credsState.accountKey = None

(* What the client holds, and what it writes, is of the account in the     *)
(* settings.                                                               *)
ClientIsOwn ==
  /\ SessionIsOwn
  /\ accountTopic \in {None, goveeLogin.account}
  /\ \A b \in persisting : b.accountKey = goveeLogin.account /\ OfItsAccount(b)

(* Where the start is, and what cannot have happened before.               *)
StartIsInOrder ==
  /\ boot # "up" => /\ persisting = {} /\ accountTopic = None /\ brokerLink = "off" /\ ~rejected
                    /\ login["connect"] = None /\ login["refresh"] = None
  /\ login["refresh"] # None => accountTopic # None
  /\ boot \in {"down", "swept", "open"} => persisted = None /\ wiredCode = None
  /\ boot = "legacy" => ~HasSession(credsFile)
  /\ boot = "carried" => HasSession(credsFile)

(* Nothing that is stored is newer than a session Govee issued.            *)
NumbersAreIssued ==
  /\ \A b \in {credsFile, credsMeta, credsState} \cup persisting :
        HasSession(b) => b.session.nr <= issued
  /\ persisted # None => persisted.nr <= issued

(* From the end of the carry-over on the client holds the newest session   *)
(* the stores have for its account, unless the broker took it from it.     *)
ClientHasNewest ==
  boot \in {"carried", "connect", "up"} /\ ~rejected =>
    \A b \in {Loadable} \cup persisting :
      HasSession(b) /\ IsFor(b, goveeLogin.account) => persisted # None /\ b.session.nr <= persisted.nr

(* A code that was told is marked, or another one is, or the mark is on    *)
(* its way or lost.                                                        *)
ToldIsMarked ==
  /\ told \subseteq lost \cup marking \/ usedCode # None
  /\ marking \subseteq told
  /\ verificationCode \in {None, wiredCode}
  /\ \A path \in {"connect", "refresh"} :
        login[path] # None => login[path].code \in {None, wiredCode}

LoginInv ==
  /\ LoginTypeOK
  /\ StoresAreOwn
  /\ ClientIsOwn
  /\ StartIsInOrder
  /\ NumbersAreIssued
  /\ ClientHasNewest
  /\ ToldIsMarked

(* The types, with what bounds the histories and the topic of a refresh.   *)
LEMMA TypesKept ==
  ASSUME LoginInv, [LoginNext]_loginVars
  PROVE  LoginTypeOK'
<1> USE LoginAssumption, AbsentAssumption DEF LoginInv, LoginTypeOK, ToldIsMarked, StartIsInOrder,
   Session, Blob, Torn, StoredLogin, NoCode, CodeOf, NoLogin, parsePersistedBlob, loginVars,
   diskVars, goveeVars, accountVars, queueVars, historyVars
<1>1. ASSUME NEW a \in Accounts, NEW c \in Codes \cup {None}, SaveSettings(a, c)
      PROVE  LoginTypeOK'
  BY <1>1 DEF SaveSettings, ProcessGone
<1>2. CASE EndProcess
  BY <1>2 DEF EndProcess, ProcessGone
<1>3. CASE CarryMeta
  BY <1>3 DEF CarryMeta, Writes
<1>4. CASE DropMeta
  BY <1>4 DEF DropMeta
<1>5. CASE OpenAccount
  BY <1>5 DEF OpenAccount, usableVerificationCode
<1>6. CASE CarryState
  BY <1>6 DEF CarryState, Writes, SessionInHand, AfterCarry
<1>7. CASE DropState
  BY <1>7 DEF DropState
<1>8. CASE ConnectAccount
  BY <1>8 DEF ConnectAccount
<1>9. CASE Connects
  BY <1>9 DEF Connects, Starts, Reusable
<1>10. CASE ConnectTaken
  BY <1>10 DEF ConnectTaken, Ends, GoveeSpends, RememberSpent, Remember
<1>11. CASE ConnectTurnedDown
  BY <1>11 DEF ConnectTurnedDown, Ends, GoveeSpends, RememberSpent, CodeTurnedDown
<1>12. CASE ConnectUnanswered
  BY <1>12 DEF ConnectUnanswered, Ends
<1>13. CASE Refreshes
  BY <1>13 DEF Refreshes, Starts
<1>14. CASE RefreshTaken
  BY <1>14 DEF RefreshTaken, Ends, GoveeSpends, Remember
<1>15. CASE RefreshTurnedDown
  BY <1>15 DEF RefreshTurnedDown, Ends, GoveeSpends, RememberSpent, CodeTurnedDown
<1>16. CASE RefreshUnanswered
  BY <1>16 DEF RefreshUnanswered, Ends
<1>17. ASSUME NEW c \in Codes \cup {None}, TestLogin(c)
      PROVE  LoginTypeOK'
  BY <1>17 DEF TestLogin, Starts, usableVerificationCode
<1>18. CASE TestTaken
  BY <1>18 DEF TestTaken, Ends, GoveeSpends, RememberSpent
<1>19. CASE TestTurnedDown
  BY <1>19 DEF TestTurnedDown, Ends, GoveeSpends
<1>20. CASE BrokerAnswers
  BY <1>20 DEF BrokerAnswers
<1>21. CASE BrokerGone
  BY <1>21 DEF BrokerGone
<1>22. CASE SessionExpires
  BY <1>22 DEF SessionExpires
<1>23. ASSUME NEW b \in persisting, PersistEnds(b)
      PROVE  LoginTypeOK'
  BY <1>23 DEF PersistEnds
<1>24. ASSUME NEW c \in marking, MarkEnds(c)
      PROVE  LoginTypeOK'
  BY <1>24 DEF MarkEnds
<1>25. CASE UNCHANGED loginVars
  BY <1>25
<1> QED
  BY <1>1, <1>2, <1>3, <1>4, <1>5, <1>6, <1>7, <1>8, <1>9, <1>10, <1>11, <1>12, <1>13, <1>14,
     <1>15, <1>16, <1>17, <1>18, <1>19, <1>20, <1>21, <1>22, <1>23, <1>24, <1>25 DEF LoginNext

(* A switch of the account leaves no store of the old one that names none; *)
(* what the client saves names its own (persistCreds, loadPersistedCreds). *)
LEMMA StoresKept ==
  ASSUME LoginInv, [LoginNext]_loginVars, ~SwitchesEarly
  PROVE  StoresAreOwn'
<1> USE LoginAssumption, AbsentAssumption DEF LoginInv, LoginTypeOK, StoresAreOwn, ClientIsOwn,
   StartIsInOrder, NextSession, Unbound, HasSession, OfItsAccount, parsePersistedBlob, IsFor,
   Session, Blob, Torn, StoredLogin, loginVars, diskVars, goveeVars, accountVars, queueVars,
   historyVars
<1>1. ASSUME NEW a \in Accounts, NEW c \in Codes \cup {None}, SaveSettings(a, c)
      PROVE  StoresAreOwn'
  <2>1. UNCHANGED <<credsFile, credsMeta, credsState>>
    BY <1>1 DEF SaveSettings, ProcessGone, diskVars
  <2>2. goveeLogin'.account = a /\ (a # goveeLogin.account => SwitchesEarly \/ ~Unbound(NextSession))
    BY <1>1 DEF SaveSettings
  <2>3. CASE a = goveeLogin.account
    BY <2>1, <2>2, <2>3
  <2>4. CASE ~Unbound(NextSession)
    BY <2>1, <2>2, <2>4
  <2> QED
    BY <2>2, <2>3, <2>4
<1>2. CASE CarryMeta
  BY <1>2 DEF CarryMeta, Writes
<1>3. CASE DropMeta
  BY <1>3 DEF DropMeta
<1>4. CASE CarryState
  BY <1>4 DEF CarryState, Writes, SessionInHand, AfterCarry
<1>5. CASE DropState
  BY <1>5 DEF DropState
<1>6. ASSUME NEW b \in persisting, PersistEnds(b)
      PROVE  StoresAreOwn'
  <2>1. UNCHANGED <<goveeLogin, credsMeta, credsState>> /\ credsFile' \in {b, credsFile}
    BY <1>6 DEF PersistEnds
  <2>2. b \in Blob /\ OfItsAccount(b)
    BY <1>6
  <2>3. b # None /\ b.session # None
    BY <2>2, <1>6
  <2>4. CASE credsFile' = b
    BY <2>1, <2>2, <2>3, <2>4
  <2>5. CASE credsFile' = credsFile
    BY <2>1, <2>5
  <2> QED
    BY <2>1, <2>4, <2>5
<1>7. ASSUME EndProcess \/ OpenAccount \/ ConnectAccount \/ Connects \/ ConnectTaken
             \/ ConnectTurnedDown \/ ConnectUnanswered \/ Refreshes \/ RefreshTaken
             \/ RefreshTurnedDown \/ RefreshUnanswered \/ (\E c \in Codes \cup {None} : TestLogin(c))
             \/ TestTaken \/ TestTurnedDown \/ BrokerAnswers \/ BrokerGone \/ SessionExpires
             \/ (\E c \in marking : MarkEnds(c)) \/ UNCHANGED loginVars
      PROVE  StoresAreOwn'
  <2>1. UNCHANGED <<goveeLogin, credsFile, credsMeta, credsState>>
    BY <1>7 DEF EndProcess, OpenAccount, ConnectAccount, Connects, ConnectTaken,
       ConnectTurnedDown, ConnectUnanswered, Refreshes, RefreshTaken, RefreshTurnedDown,
       RefreshUnanswered, TestLogin, TestTaken, TestTurnedDown, BrokerAnswers, BrokerGone,
       SessionExpires, MarkEnds, ProcessGone, RememberSpent, Remember
  <2> QED
    BY <2>1
<1> QED
  BY <1>1, <1>2, <1>3, <1>4, <1>5, <1>6, <1>7 DEF LoginNext

(* What the client takes over, is issued or refreshes is of its account    *)
(* (openAccount, rememberCredentials).                                     *)
LEMMA ClientKept ==
  ASSUME LoginInv, [LoginNext]_loginVars
  PROVE  ClientIsOwn'
<1> USE LoginAssumption, AbsentAssumption DEF LoginInv, LoginTypeOK, StoresAreOwn, ClientIsOwn,
   SessionIsOwn, StartIsInOrder, HasSession, OfItsAccount, parsePersistedBlob, IsFor, Session, Blob,
   Torn, StoredLogin, loginVars, diskVars, goveeVars, accountVars, queueVars, historyVars
<1>1. ASSUME NEW a \in Accounts, NEW c \in Codes \cup {None}, SaveSettings(a, c)
      PROVE  ClientIsOwn'
  BY <1>1 DEF SaveSettings, ProcessGone
<1>2. CASE EndProcess
  BY <1>2 DEF EndProcess, ProcessGone
<1>3. CASE OpenAccount
  BY <1>3 DEF OpenAccount, usableVerificationCode
<1>4. CASE CarryState
  BY <1>4 DEF CarryState, Writes, SessionInHand, AfterCarry
<1>5. CASE Connects
  BY <1>5 DEF Connects, Starts, Reusable
<1>6. CASE ConnectTaken
  BY <1>6 DEF ConnectTaken, Ends, GoveeSpends, RememberSpent, Remember
<1>7. CASE RefreshTaken
  BY <1>7 DEF RefreshTaken, Ends, GoveeSpends, Remember
<1>8. CASE BrokerGone
  BY <1>8 DEF BrokerGone
<1>9. ASSUME NEW b \in persisting, PersistEnds(b)
      PROVE  ClientIsOwn'
  BY <1>9 DEF PersistEnds
<1>10. ASSUME CarryMeta \/ DropMeta \/ DropState \/ ConnectAccount \/ ConnectTurnedDown
              \/ ConnectUnanswered \/ Refreshes \/ RefreshTurnedDown \/ RefreshUnanswered
              \/ (\E c \in Codes \cup {None} : TestLogin(c)) \/ TestTaken \/ TestTurnedDown
              \/ BrokerAnswers \/ SessionExpires \/ (\E c \in marking : MarkEnds(c))
              \/ UNCHANGED loginVars
      PROVE  ClientIsOwn'
  <2>1. UNCHANGED <<goveeLogin, persisted, accountTopic, persisting>>
    BY <1>10 DEF CarryMeta, DropMeta, DropState, ConnectAccount, ConnectTurnedDown,
       ConnectUnanswered, Refreshes, RefreshTurnedDown, RefreshUnanswered, TestLogin, TestTaken,
       TestTurnedDown, BrokerAnswers, SessionExpires, MarkEnds, RememberSpent
  <2> QED
    BY <2>1
<1> QED
  BY <1>1, <1>2, <1>3, <1>4, <1>5, <1>6, <1>7, <1>8, <1>9, <1>10 DEF LoginNext

(* Nothing of a client is there before it connects, and the carry-over has *)
(* a file when it drops the older store.                                   *)
LEMMA OrderKept ==
  ASSUME LoginInv, [LoginNext]_loginVars
  PROVE  StartIsInOrder'
<1> USE LoginAssumption, AbsentAssumption DEF LoginInv, LoginTypeOK, StoresAreOwn, StartIsInOrder,
   NoLogin, HasSession, OfItsAccount, parsePersistedBlob, IsFor, Session, Blob, Torn, StoredLogin,
   loginVars, diskVars, goveeVars, accountVars, queueVars, historyVars
<1>1. ASSUME NEW a \in Accounts, NEW c \in Codes \cup {None}, SaveSettings(a, c)
      PROVE  StartIsInOrder'
  BY <1>1 DEF SaveSettings, ProcessGone
<1>2. CASE EndProcess
  BY <1>2 DEF EndProcess, ProcessGone
<1>3. CASE CarryMeta
  BY <1>3 DEF CarryMeta, Writes
<1>4. CASE DropMeta
  BY <1>4 DEF DropMeta
<1>5. CASE OpenAccount
  BY <1>5 DEF OpenAccount, usableVerificationCode
<1>6. CASE CarryState
  BY <1>6 DEF CarryState, Writes, SessionInHand, AfterCarry
<1>7. CASE DropState
  BY <1>7 DEF DropState
<1>8. CASE ConnectAccount
  BY <1>8 DEF ConnectAccount
<1>9. CASE Connects
  BY <1>9 DEF Connects, Starts, Reusable
<1>10. CASE ConnectTaken
  BY <1>10 DEF ConnectTaken, Ends, GoveeSpends, RememberSpent, Remember
<1>11. CASE ConnectTurnedDown
  BY <1>11 DEF ConnectTurnedDown, Ends, GoveeSpends, RememberSpent, CodeTurnedDown
<1>12. CASE ConnectUnanswered
  BY <1>12 DEF ConnectUnanswered, Ends
<1>13. CASE Refreshes
  BY <1>13 DEF Refreshes, Starts
<1>14. CASE RefreshTaken
  BY <1>14 DEF RefreshTaken, Ends, GoveeSpends, Remember
<1>15. CASE RefreshTurnedDown
  BY <1>15 DEF RefreshTurnedDown, Ends, GoveeSpends, RememberSpent, CodeTurnedDown
<1>16. CASE RefreshUnanswered
  BY <1>16 DEF RefreshUnanswered, Ends
<1>17. ASSUME NEW c \in Codes \cup {None}, TestLogin(c)
      PROVE  StartIsInOrder'
  BY <1>17 DEF TestLogin, Starts, usableVerificationCode
<1>18. CASE TestTaken
  BY <1>18 DEF TestTaken, Ends, GoveeSpends, RememberSpent
<1>19. CASE TestTurnedDown
  BY <1>19 DEF TestTurnedDown, Ends, GoveeSpends
<1>20. CASE BrokerAnswers
  BY <1>20 DEF BrokerAnswers
<1>21. CASE BrokerGone
  BY <1>21 DEF BrokerGone
<1>22. CASE SessionExpires
  BY <1>22 DEF SessionExpires
<1>23. ASSUME NEW b \in persisting, PersistEnds(b)
      PROVE  StartIsInOrder'
  BY <1>23 DEF PersistEnds
<1>24. ASSUME NEW c \in marking, MarkEnds(c)
      PROVE  StartIsInOrder'
  BY <1>24 DEF MarkEnds
<1>25. CASE UNCHANGED loginVars
  BY <1>25
<1> QED
  BY <1>1, <1>2, <1>3, <1>4, <1>5, <1>6, <1>7, <1>8, <1>9, <1>10, <1>11, <1>12, <1>13, <1>14,
     <1>15, <1>16, <1>17, <1>18, <1>19, <1>20, <1>21, <1>22, <1>23, <1>24, <1>25 DEF LoginNext

(* Stored sessions are sessions Govee issued.                              *)
LEMMA NumbersKept ==
  ASSUME LoginInv, [LoginNext]_loginVars
  PROVE  NumbersAreIssued'
<1> USE LoginAssumption, AbsentAssumption DEF LoginInv, LoginTypeOK, NumbersAreIssued, HasSession,
   OfItsAccount, parsePersistedBlob, IsFor, Session, Blob, Torn, StoredLogin, loginVars, diskVars,
   goveeVars, accountVars, queueVars, historyVars
<1>1. ASSUME NEW a \in Accounts, NEW c \in Codes \cup {None}, SaveSettings(a, c)
      PROVE  NumbersAreIssued'
  BY <1>1 DEF SaveSettings, ProcessGone
<1>2. CASE EndProcess
  BY <1>2 DEF EndProcess, ProcessGone
<1>3. CASE CarryMeta
  BY <1>3 DEF CarryMeta, Writes
<1>4. CASE DropMeta
  BY <1>4 DEF DropMeta
<1>5. CASE OpenAccount
  BY <1>5 DEF OpenAccount, usableVerificationCode
<1>6. CASE CarryState
  BY <1>6 DEF CarryState, Writes, SessionInHand, AfterCarry
<1>7. CASE DropState
  BY <1>7 DEF DropState
<1>8. CASE ConnectTaken
  BY <1>8 DEF ConnectTaken, Ends, GoveeSpends, RememberSpent, Remember
<1>9. CASE RefreshTaken
  BY <1>9 DEF RefreshTaken, Ends, GoveeSpends, Remember
<1>10. CASE BrokerGone
  BY <1>10 DEF BrokerGone
<1>11. ASSUME NEW b \in persisting, PersistEnds(b)
      PROVE  NumbersAreIssued'
  BY <1>11 DEF PersistEnds
<1>12. ASSUME ConnectAccount \/ Connects \/ ConnectTurnedDown \/ ConnectUnanswered \/ Refreshes
              \/ RefreshTurnedDown \/ RefreshUnanswered \/ (\E c \in Codes \cup {None} : TestLogin(c))
              \/ TestTaken \/ TestTurnedDown \/ BrokerAnswers \/ SessionExpires
              \/ (\E c \in marking : MarkEnds(c)) \/ UNCHANGED loginVars
      PROVE  NumbersAreIssued'
  <2>1. UNCHANGED <<credsFile, credsMeta, credsState, persisting, persisted, issued>>
    BY <1>12 DEF ConnectAccount, Connects, ConnectTurnedDown, ConnectUnanswered, Refreshes,
       RefreshTurnedDown, RefreshUnanswered, TestLogin, TestTaken, TestTurnedDown,
       BrokerAnswers, SessionExpires, MarkEnds, RememberSpent
  <2> QED
    BY <2>1
<1> QED
  BY <1>1, <1>2, <1>3, <1>4, <1>5, <1>6, <1>7, <1>8, <1>9, <1>10, <1>11, <1>12 DEF LoginNext

(* Every session that is issued or refreshed is in the client before it is *)
(* on its way to the disk (rememberCredentials).                           *)
LEMMA NewestKept ==
  ASSUME LoginInv, [LoginNext]_loginVars
  PROVE  ClientHasNewest'
<1> USE LoginAssumption, AbsentAssumption DEF LoginInv, LoginTypeOK, StoresAreOwn, StartIsInOrder,
   NumbersAreIssued, ClientHasNewest, Loadable, HasSession, OfItsAccount, parsePersistedBlob, IsFor,
   Session, Blob, Torn, StoredLogin, loginVars, diskVars, goveeVars, accountVars, queueVars,
   historyVars
<1>1. ASSUME NEW a \in Accounts, NEW c \in Codes \cup {None}, SaveSettings(a, c)
      PROVE  ClientHasNewest'
  BY <1>1 DEF SaveSettings, ProcessGone
<1>2. CASE EndProcess
  BY <1>2 DEF EndProcess, ProcessGone
<1>3. CASE CarryMeta
  BY <1>3 DEF CarryMeta, Writes
<1>4. CASE DropMeta
  BY <1>4 DEF DropMeta
<1>5. CASE OpenAccount
  BY <1>5 DEF OpenAccount, usableVerificationCode
<1>6. CASE CarryState
  BY <1>6 DEF CarryState, Writes, SessionInHand, AfterCarry
<1>7. CASE DropState
  BY <1>7 DEF DropState
<1>8. CASE ConnectAccount
  BY <1>8 DEF ConnectAccount
<1>9. CASE ConnectTaken
  <2>1. UNCHANGED <<boot, rejected, goveeLogin, credsFile, credsState>> /\ issued' = issued + 1
    BY <1>9 DEF ConnectTaken, diskVars, accountVars
  <2>2. CASE UNCHANGED <<persisted, persisting>>
    BY <2>1, <2>2
  <2>3. CASE \E session \in Session : session.nr = issued' /\ Remember(session)
    <3> PICK session \in Session : session.nr = issued' /\ Remember(session)
      BY <2>3
    <3>1. persisted' = session /\ session # None
      BY DEF Remember
    <3>2. \A b \in {Loadable} \cup persisting : HasSession(b) => b.session.nr <= issued
      OBVIOUS
    <3>3. \A b \in persisting' : b \in persisting \/ b.session = session
      BY DEF Remember
    <3> QED
      BY <2>1, <3>1, <3>2, <3>3
  <2> QED
    BY <1>9, <2>1, <2>2, <2>3 DEF ConnectTaken
<1>10. CASE RefreshTaken
  <2>1. UNCHANGED <<boot, rejected, goveeLogin, credsFile, credsState>> /\ issued' = issued + 1
    BY <1>10 DEF RefreshTaken, diskVars, accountVars
  <2>2. CASE UNCHANGED <<persisted, persisting>>
    BY <2>1, <2>2
  <2>3. CASE \E session \in Session : session.nr = issued' /\ Remember(session)
    <3> PICK session \in Session : session.nr = issued' /\ Remember(session)
      BY <2>3
    <3>1. persisted' = session /\ session # None
      BY DEF Remember
    <3>2. \A b \in {Loadable} \cup persisting : HasSession(b) => b.session.nr <= issued
      OBVIOUS
    <3>3. \A b \in persisting' : b \in persisting \/ b.session = session
      BY DEF Remember
    <3> QED
      BY <2>1, <3>1, <3>2, <3>3
  <2> QED
    BY <1>10, <2>1, <2>2, <2>3 DEF RefreshTaken
<1>11. CASE BrokerGone
  BY <1>11 DEF BrokerGone
<1>12. ASSUME NEW b \in persisting, PersistEnds(b)
      PROVE  ClientHasNewest'
  <2>1. UNCHANGED <<boot, rejected, goveeLogin, credsState, persisted>> /\ credsFile' \in {b, credsFile}
    BY <1>12 DEF PersistEnds, accountVars
  <2>2. persisting' \subseteq persisting
    BY <1>12 DEF PersistEnds
  <2>3. b # None /\ b.session # None
    BY <1>12
  <2>4. Loadable' \in {b, Loadable}
    BY <2>1, <2>3
  <2> QED
    BY <1>12, <2>1, <2>2, <2>4
<1>13. ASSUME Connects \/ ConnectTurnedDown \/ ConnectUnanswered \/ Refreshes \/ RefreshTurnedDown
              \/ RefreshUnanswered \/ (\E c \in Codes \cup {None} : TestLogin(c)) \/ TestTaken
              \/ TestTurnedDown \/ BrokerAnswers \/ SessionExpires \/ (\E c \in marking : MarkEnds(c))
              \/ UNCHANGED loginVars
      PROVE  ClientHasNewest'
  <2>1. UNCHANGED <<boot, rejected, goveeLogin, credsFile, credsState, persisting, persisted>>
    BY <1>13 DEF Connects, ConnectTurnedDown, ConnectUnanswered, Refreshes, RefreshTurnedDown,
       RefreshUnanswered, TestLogin, TestTaken, TestTurnedDown, BrokerAnswers, SessionExpires,
       MarkEnds, RememberSpent
  <2> QED
    BY <2>1
<1> QED
  BY <1>1, <1>2, <1>3, <1>4, <1>5, <1>6, <1>7, <1>8, <1>9, <1>10, <1>11, <1>12, <1>13 DEF LoginNext

(* A code the adapter heard is spent is on its way to the mark at once     *)
(* (wireAccountClient, rememberSpent).                                     *)
LEMMA MarksKept ==
  ASSUME LoginInv, [LoginNext]_loginVars
  PROVE  ToldIsMarked'
<1> USE LoginAssumption, AbsentAssumption DEF LoginInv, LoginTypeOK, ToldIsMarked, StartIsInOrder,
   NoLogin, CodeOf, NoCode, loginVars, diskVars, goveeVars, accountVars, queueVars, historyVars
<1>1. ASSUME NEW a \in Accounts, NEW c \in Codes \cup {None}, SaveSettings(a, c)
      PROVE  ToldIsMarked'
  BY <1>1 DEF SaveSettings, ProcessGone
<1>2. CASE EndProcess
  BY <1>2 DEF EndProcess, ProcessGone
<1>3. CASE OpenAccount
  BY <1>3 DEF OpenAccount, usableVerificationCode
<1>4. CASE Connects
  BY <1>4 DEF Connects, Starts, Reusable
<1>5. CASE ConnectTaken
  BY <1>5 DEF ConnectTaken, Ends, GoveeSpends, RememberSpent, Remember
<1>6. CASE ConnectTurnedDown
  BY <1>6 DEF ConnectTurnedDown, Ends, GoveeSpends, RememberSpent, CodeTurnedDown
<1>7. CASE ConnectUnanswered
  BY <1>7 DEF ConnectUnanswered, Ends
<1>8. CASE Refreshes
  BY <1>8 DEF Refreshes, Starts
<1>9. CASE RefreshTaken
  BY <1>9 DEF RefreshTaken, Ends, GoveeSpends, Remember
<1>10. CASE RefreshTurnedDown
  BY <1>10 DEF RefreshTurnedDown, Ends, GoveeSpends, RememberSpent, CodeTurnedDown
<1>11. CASE RefreshUnanswered
  BY <1>11 DEF RefreshUnanswered, Ends
<1>12. ASSUME NEW c \in Codes \cup {None}, TestLogin(c)
      PROVE  ToldIsMarked'
  BY <1>12 DEF TestLogin, Starts, usableVerificationCode
<1>13. CASE TestTaken
  BY <1>13 DEF TestTaken, Ends, GoveeSpends, RememberSpent
<1>14. CASE TestTurnedDown
  BY <1>14 DEF TestTurnedDown, Ends, GoveeSpends
<1>15. ASSUME NEW c \in marking, MarkEnds(c)
      PROVE  ToldIsMarked'
  BY <1>15 DEF MarkEnds
<1>16. ASSUME CarryMeta \/ DropMeta \/ CarryState \/ DropState \/ ConnectAccount \/ BrokerAnswers
              \/ BrokerGone \/ SessionExpires \/ (\E b \in persisting : PersistEnds(b))
              \/ UNCHANGED loginVars
      PROVE  ToldIsMarked'
  <2>1. UNCHANGED <<told, lost, marking, usedCode, verificationCode, wiredCode, login>>
    BY <1>16 DEF CarryMeta, DropMeta, CarryState, DropState, ConnectAccount, BrokerAnswers,
       BrokerGone, SessionExpires, PersistEnds
  <2> QED
    BY <2>1
<1> QED
  BY <1>1, <1>2, <1>3, <1>4, <1>5, <1>6, <1>7, <1>8, <1>9, <1>10, <1>11, <1>12, <1>13, <1>14,
     <1>15, <1>16 DEF LoginNext

(* The invariant of the saved login.                                       *)
LEMMA LoginInvHolds ==
  ASSUME ~SwitchesEarly
  PROVE  LoginSpec => []LoginInv
<1>1. LoginInit => LoginInv
  <2> SUFFICES ASSUME LoginInit PROVE LoginInv
    OBVIOUS
  <2> USE LoginAssumption, AbsentAssumption DEF LoginInit, NoLogin
  <2>1. PICK place \in {"none", "file", "meta", "state"} :
          LET old == [session |-> [bearer |-> goveeLogin.account, topic |-> goveeLogin.account, nr |-> 1],
                      accountKey |-> None]
          IN  /\ credsFile = IF place = "file" THEN old ELSE None
              /\ credsMeta = IF place = "meta" THEN old ELSE None
              /\ credsState = IF place = "state" THEN old ELSE None
              /\ issued = IF place = "none" THEN 0 ELSE 1
    OBVIOUS
  <2>2. LoginTypeOK
    <3>1. {credsFile, credsMeta, credsState} \subseteq StoredLogin
      BY <2>1 DEF Session, Blob, StoredLogin
    <3>2. issued \in 0..MaxIssued /\ expiredTo \in 0..issued
      BY <2>1
    <3>3. login \in [{"connect", "refresh", "probe"} -> CodeOf \cup {None}]
      OBVIOUS
    <3>4. goveeLogin \in [account : Accounts, code : Codes \cup {None}]
      OBVIOUS
    <3>5. usedCode \in Codes \cup {None} /\ {verificationCode, wiredCode} \subseteq Codes \cup {None}
      OBVIOUS
    <3>6. {gaveUp, rejected} \subseteq BOOLEAN
      OBVIOUS
    <3>7. boots \in 0..MaxBoots
      OBVIOUS
    <3> QED
      BY <3>1, <3>2, <3>3, <3>4, <3>5, <3>6, <3>7 DEF LoginTypeOK
  <2>3. StoresAreOwn /\ NumbersAreIssued
    BY <2>1 DEF StoresAreOwn, NumbersAreIssued, OfItsAccount, HasSession, parsePersistedBlob,
       Session, Blob
  <2>4. ClientIsOwn /\ StartIsInOrder /\ ClientHasNewest /\ ToldIsMarked
    BY DEF ClientIsOwn, SessionIsOwn, StartIsInOrder, ClientHasNewest, ToldIsMarked
  <2> QED
    BY <2>2, <2>3, <2>4 DEF LoginInv
<1>2. LoginInv /\ [LoginNext]_loginVars => LoginInv'
  BY TypesKept, StoresKept, ClientKept, OrderKept, NumbersKept, NewestKept, MarksKept DEF LoginInv
<1> QED
  BY <1>1, <1>2, PTL DEF LoginSpec

(* A login begins only without a session of the stores that still runs     *)
(* (connect, tryPersistedReuse).                                           *)
LEMMA LoginIsSpared ==
  ASSUME LoginInv, [LoginNext]_loginVars
  PROVE  SessionSparesLogin
<1> USE LoginAssumption, AbsentAssumption DEF LoginInv, LoginTypeOK, StartIsInOrder,
   ClientHasNewest, NoLogin, SessionSparesLogin, HasSession, parsePersistedBlob, IsFor, Session,
   Blob, Torn, StoredLogin, Loadable, loginVars, diskVars, goveeVars, accountVars, queueVars,
   historyVars
<1>1. CASE Connects
  BY <1>1 DEF Connects, Starts, Reusable
<1>2. CASE ConnectTaken
  BY <1>2 DEF ConnectTaken, Ends, GoveeSpends, RememberSpent, Remember
<1>3. CASE ConnectTurnedDown
  BY <1>3 DEF ConnectTurnedDown, Ends, GoveeSpends, RememberSpent, CodeTurnedDown
<1>4. CASE ConnectUnanswered
  BY <1>4 DEF ConnectUnanswered, Ends
<1>5. CASE Refreshes
  BY <1>5 DEF Refreshes, Starts
<1>6. CASE RefreshTaken
  BY <1>6 DEF RefreshTaken, Ends, GoveeSpends, Remember
<1>7. CASE RefreshTurnedDown
  BY <1>7 DEF RefreshTurnedDown, Ends, GoveeSpends, RememberSpent, CodeTurnedDown
<1>8. CASE RefreshUnanswered
  BY <1>8 DEF RefreshUnanswered, Ends
<1>9. ASSUME NEW c \in Codes \cup {None}, TestLogin(c)
      PROVE  SessionSparesLogin
  BY <1>9 DEF TestLogin, Starts, usableVerificationCode
<1>10. CASE TestTaken
  BY <1>10 DEF TestTaken, Ends, GoveeSpends, RememberSpent
<1>11. CASE TestTurnedDown
  BY <1>11 DEF TestTurnedDown, Ends, GoveeSpends
<1>12. ASSUME NEW a \in Accounts, NEW c \in Codes \cup {None}, SaveSettings(a, c)
      PROVE  SessionSparesLogin
  BY <1>12 DEF SaveSettings, ProcessGone
<1>13. CASE EndProcess
  BY <1>13 DEF EndProcess, ProcessGone
<1>14. ASSUME CarryMeta \/ DropMeta \/ OpenAccount \/ CarryState \/ DropState \/ ConnectAccount
              \/ BrokerAnswers \/ BrokerGone \/ SessionExpires
              \/ (\E b \in persisting : PersistEnds(b)) \/ (\E c \in marking : MarkEnds(c))
              \/ UNCHANGED loginVars
      PROVE  SessionSparesLogin
  <2>1. UNCHANGED <<login>>
    BY <1>14 DEF CarryMeta, DropMeta, OpenAccount, CarryState, DropState, ConnectAccount,
       BrokerAnswers, BrokerGone, SessionExpires, PersistEnds, MarkEnds
  <2> QED
    BY <2>1
<1> QED
  BY <1>1, <1>2, <1>3, <1>4, <1>5, <1>6, <1>7, <1>8, <1>9, <1>10, <1>11, <1>12, <1>13, <1>14 DEF
     LoginNext

(* No step leaves the stores without the session they had                  *)
(* (loadPersistedCreds, migrateCredentialsMetaOnce, persistCreds).         *)
LEMMA SessionStays ==
  ASSUME LoginInv, [LoginNext]_loginVars
  PROVE  SessionSurvives
<1> USE LoginAssumption, AbsentAssumption DEF LoginInv, LoginTypeOK, StoresAreOwn, StartIsInOrder,
   NumbersAreIssued, SessionSurvives, HasSession, parsePersistedBlob, IsFor, Session, Blob, Torn,
   StoredLogin, Loadable, loginVars, diskVars, goveeVars, accountVars, queueVars, historyVars
<1>1. CASE CarryMeta
  BY <1>1 DEF CarryMeta, Writes
<1>2. CASE CarryState
  BY <1>2 DEF CarryState, Writes, SessionInHand, AfterCarry
<1>3. CASE DropState
  BY <1>3 DEF DropState
<1>4. ASSUME NEW b \in persisting, PersistEnds(b)
      PROVE  SessionSurvives
  BY <1>4 DEF PersistEnds
<1>5. ASSUME (\E a \in Accounts, c \in Codes \cup {None} : SaveSettings(a, c)) \/ EndProcess
             \/ DropMeta \/ OpenAccount \/ ConnectAccount \/ Connects \/ ConnectTaken
             \/ ConnectTurnedDown \/ ConnectUnanswered \/ Refreshes \/ RefreshTaken
             \/ RefreshTurnedDown \/ RefreshUnanswered \/ (\E c \in Codes \cup {None} : TestLogin(c))
             \/ TestTaken \/ TestTurnedDown \/ BrokerAnswers \/ BrokerGone \/ SessionExpires
             \/ (\E c \in marking : MarkEnds(c)) \/ UNCHANGED loginVars
      PROVE  SessionSurvives
  <2>1. UNCHANGED <<credsFile, credsState>>
    BY <1>5 DEF SaveSettings, EndProcess, DropMeta, OpenAccount, ConnectAccount, Connects,
       ConnectTaken, ConnectTurnedDown, ConnectUnanswered, Refreshes, RefreshTaken,
       RefreshTurnedDown, RefreshUnanswered, TestLogin, TestTaken, TestTurnedDown,
       BrokerAnswers, BrokerGone, SessionExpires, MarkEnds, ProcessGone, RememberSpent, Remember
  <2> QED
    BY <2>1
<1> QED
  BY <1>1, <1>2, <1>3, <1>4, <1>5 DEF LoginNext

(* Only a start wires a code, and it looks at the mark before              *)
(* (usableVerificationCode).                                               *)
LEMMA SpentIsSilent ==
  ASSUME LoginInv, [LoginNext]_loginVars
  PROVE  SpentStaysSilent
<1> USE LoginAssumption, AbsentAssumption DEF LoginInv, LoginTypeOK, StartIsInOrder, ToldIsMarked,
   SpentStaysSilent, usableVerificationCode, NoLogin, loginVars, diskVars, goveeVars, accountVars,
   queueVars, historyVars
<1>1. CASE OpenAccount
  BY <1>1 DEF OpenAccount, usableVerificationCode
<1>2. ASSUME NEW a \in Accounts, NEW c \in Codes \cup {None}, SaveSettings(a, c)
      PROVE  SpentStaysSilent
  BY <1>2 DEF SaveSettings, ProcessGone
<1>3. CASE EndProcess
  BY <1>3 DEF EndProcess, ProcessGone
<1>4. ASSUME CarryMeta \/ DropMeta \/ CarryState \/ DropState \/ ConnectAccount \/ Connects
             \/ ConnectTaken \/ ConnectTurnedDown \/ ConnectUnanswered \/ Refreshes \/ RefreshTaken
             \/ RefreshTurnedDown \/ RefreshUnanswered \/ (\E c \in Codes \cup {None} : TestLogin(c))
             \/ TestTaken \/ TestTurnedDown \/ BrokerAnswers \/ BrokerGone \/ SessionExpires
             \/ (\E b \in persisting : PersistEnds(b)) \/ (\E c \in marking : MarkEnds(c))
             \/ UNCHANGED loginVars
      PROVE  SpentStaysSilent
  <2>1. UNCHANGED <<wiredCode>>
    BY <1>4 DEF CarryMeta, DropMeta, CarryState, DropState, ConnectAccount, Connects,
       ConnectTaken, ConnectTurnedDown, ConnectUnanswered, Refreshes, RefreshTaken,
       RefreshTurnedDown, RefreshUnanswered, TestLogin, TestTaken, TestTurnedDown,
       BrokerAnswers, BrokerGone, SessionExpires, PersistEnds, MarkEnds, RememberSpent, Remember
  <2> QED
    BY <2>1
<1> QED
  BY <1>1, <1>2, <1>3, <1>4 DEF LoginNext

(* A saved login serves its own account, is not lost and spares logins,    *)
(* and a spent code is not sent again - whichever write fails or breaks    *)
(* off and wherever the process ends - as long as the account is not       *)
(* changed while a session that names none is still to be read.            *)
THEOREM LoginStaysKept ==
  ASSUME ~SwitchesEarly
  PROVE  LoginSpec => LoginIsKept
<1>1. LoginInv => LoginTypeOK /\ SessionIsOwn
  BY DEF LoginInv, ClientIsOwn
<1>2. LoginInv /\ [LoginNext]_loginVars => SessionSparesLogin /\ SessionSurvives /\ SpentStaysSilent
  BY LoginIsSpared, SessionStays, SpentIsSilent
<1> QED
  BY <1>1, <1>2, LoginInvHolds, PTL DEF LoginSpec, LoginIsKept

-----------------------------------------------------------------------------
(* IdMove                                                                  *)

(* The id a device gets: the short one, but for the second of two that end *)
(* alike the one with the whole id.                                        *)
New(d) == IF mishap.collide /\ d # 1 THEN Long(d) ELSE <<"short", d>>
TreesOf(d) == {Old(d), New(d)}

Stands(p) == root[p].dev # None
Marked(p) == root[p].marked
Moving(p) == root[p].movingTo # None
Full(p, d) == point[p] = [of |-> d, rec |-> TRUE, val |-> TRUE]
Recorded(p, d) == point[p].of = d /\ point[p].rec

(* A tree p of device d, whose other tree is q.                            *)
TreeFits(p, d, q) ==
  /\ root[p].dev \in {None, d} /\ root[p].movingTo \in {None, q}
  /\ root[p].dev = None => root[p] = NoRoot
  /\ point[p].of \in {None, d}
  /\ point[p].of = None => point[p] = NoPoint

(* What the database holds at every moment of the old tree o and the new   *)
(* tree g of device d.  A new tree without the mark stands beside a whole  *)
(* old one; two marked trees never await each other.                       *)
OnDisk(d, o, g) ==
  /\ (Stands(o) /\ Full(o, d)) \/ (Stands(g) /\ Full(g, d))
  /\ Stands(g) /\ ~Marked(g) => Stands(o) /\ Full(o, d)
  /\ Stands(g) /\ ~Marked(g) /\ Stands(o) /\ ~Marked(o) => Recorded(g, d)
  /\ Marked(g) /\ Moving(g) /\ Stands(o) /\ ~(Marked(o) /\ ~Moving(o)) => Full(g, d)
  /\ Marked(o) /\ Moving(o) /\ Stands(g) /\ ~Marked(g) => Moving(g)
  /\ ~(Marked(o) /\ Moving(o) /\ Marked(g) /\ Moving(g))
  /\ Stands(alias[d])

(* Without failing calls nothing goes back to an old tree.                 *)
NothingFails(d, o, g) ==
  ~mishap.fails => /\ ~Marked(o) /\ ~Moving(g) /\ registry[d] # o
                   /\ o \notin unmoved /\ g \notin unmoved

(* What the move of the old, and of the new tree to the other relies on.   *)
OldGoes(d, o, g) ==
  /\ ~(Marked(o) /\ ~Moving(o)) /\ (Marked(o) => g \notin pending)
  /\ IF Marked(g) THEN Full(g, d) ELSE Full(o, d)
NewGoes(d, o, g) ==
  /\ ~Marked(o) /\ (Marked(g) => Full(g, d))
  /\ Full(g, d) \/ (Recorded(g, d) /\ Full(o, d))

Moves == {"journal", "read", "point", "root", "values", "alias", "mark", "plan", "deletePoint", "deleteRoot",
          "rooms"}
MovesIn(o, g) == step.at \in Moves /\ step.tree \in {o, g}

(* A start, between the trees of d it has looked at and those still to     *)
(* come.                                                                   *)
Listed(d, o, g) ==
  /\ registry[d] \in {None, o, g}
  /\ registry[d] = None => o \in pending \/ g \in pending
  /\ registry[d] # None => registry[d] \in complete \cup unmoved \/ o \in pending \/ g \in pending \/ MovesIn(o, g)
  /\ \A p \in {o, g} :
       /\ p \in complete => Stands(p) /\ Marked(p) /\ (registry[d] = p \/ o \in unmoved \/ g \in unmoved)
       /\ p \in unmoved => Stands(p) /\ p \notin pending
       /\ p \in pending => Stands(p)
       /\ Stands(p) => \/ p \in pending \cup complete \/ o \in unmoved \/ g \in unmoved
                       \/ registry[d] = p \/ (MovesIn(o, g) /\ step.tree = p)
InOrder(d, o, g) ==
  /\ o \in complete \cup unmoved /\ g \in pending => registry[d] = o
  /\ g \in complete \cup unmoved /\ o \in pending => registry[d] = g
  /\ g \in complete /\ g \in pending => registry[d] = g /\ o \notin pending
  /\ o \in pending => o \notin complete /\ o \notin unmoved /\ g \notin unmoved
  /\ o \in pending /\ registry[d] = o => Stands(g) /\ ~Marked(g) /\ Moving(g)
Ready(d, o, g) ==
  /\ o \in pending /\ registry[d] # o /\ g \notin complete => OldGoes(d, o, g)
  /\ g \in pending /\ o \notin complete /\ (o \in pending => registry[d] # o) => NewGoes(d, o, g)

(* The move under way from t to u, of the trees o and g of d.              *)
Route(d, o, g, t, u) ==
  /\ t = step.tree /\ u = step.to /\ registry[d] = u
  /\ t \notin pending \cup complete \cup unmoved /\ o \notin pending
  /\ step.fill <=> u \in complete
  /\ step.at # "rooms" => Stands(t)
  /\ step.fill => u \notin pending
  /\ step.whole => ~step.fill /\ Marked(u)
  /\ step.at \notin {"journal", "rooms"} /\ ~step.fill => Moving(t)
Copies(d, o, g, t, u) ==
  /\ step.at \in {"journal", "read", "point", "root", "values"} => ~step.whole
  /\ step.at # "rooms" /\ t = o /\ ~step.fill => ~(Marked(o) /\ ~Moving(o)) /\ (Marked(o) => g \notin pending)
  /\ step.at \in {"journal", "read"} /\ ~step.fill => IF t = o THEN OldGoes(d, o, g) ELSE NewGoes(d, o, g)
  /\ step.at = "point" => IF step.fill THEN Full(t, d) \/ Full(u, d)
                          ELSE ~Marked(u) /\ (Full(t, d) \/ (t = g /\ Recorded(g, d) /\ Full(u, d)))
  /\ step.at \in {"root", "values"} => Recorded(u, d) /\ (Full(t, d) \/ Full(u, d))
  /\ step.at = "root" /\ ~step.fill => ~Marked(u) /\ (t = o => Full(o, d))
  /\ step.at \in {"values", "alias", "mark"} /\ ~step.fill /\ ~step.whole => ~Moving(u)
Leaves(d, t, u) ==
  /\ step.at \in {"values", "alias", "mark", "plan", "deletePoint", "deleteRoot", "rooms"} => Stands(u)
  /\ step.at \in {"alias", "mark", "plan", "deletePoint", "deleteRoot", "rooms"} => Full(u, d)
  /\ step.at \in {"plan", "deletePoint", "deleteRoot", "rooms"} => Marked(u)
  /\ step.at \in {"mark", "plan", "deletePoint", "deleteRoot", "rooms"} => alias[d] # t
  /\ step.at = "rooms" => ~Stands(t)
UnderWay(d, o, g) ==
  \E t, u \in {o, g} : t # u /\ Route(d, o, g, t, u) /\ Copies(d, o, g, t, u) /\ Leaves(d, t, u)

DeviceInv(d, o, g) ==
  /\ TreeFits(o, d, g) /\ TreeFits(g, d, o) /\ alias[d] \in {o, g}
  /\ OnDisk(d, o, g) /\ NothingFails(d, o, g)
  /\ step.at # "down" => Listed(d, o, g) /\ InOrder(d, o, g) /\ Ready(d, o, g)
  /\ MovesIn(o, g) => UnderWay(d, o, g)

(* Nothing stands where no device belongs, and the lists of a start hold   *)
(* trees of the devices.                                                   *)
OthersEmpty ==
  /\ \A p \in Prefix : (\A d \in Dev : p \notin TreesOf(d)) => root[p] = NoRoot /\ point[p] = NoPoint
  /\ \A p \in pending : \E d \in Dev : p \in TreesOf(d)
StepFits ==
  /\ step.at \in Moves => \E d \in Dev : step.tree \in TreesOf(d)
  /\ step.at = "down" => registry = [d \in Dev |-> None] /\ pending = {} /\ complete = {} /\ unmoved = {}
  /\ step.at = "running" => pending = {}
  /\ ~(mishap.collide /\ mishap.fails)

MoveInv ==
  /\ MoveTypeOK /\ OthersEmpty /\ StepFits
  /\ \A d \in Dev : DeviceInv(d, Old(d), New(d))

-----------------------------------------------------------------------------
\* The trees of the devices are theirs alone.
LEMMA TreesAreOwn ==
  /\ \A d \in Dev : /\ Old(d) \in Prefix /\ New(d) \in Prefix /\ Old(d) # New(d)
                    /\ Old(d) # None /\ New(d) # None /\ d # None
  /\ \A d, e \in Dev : d # e => TreesOf(d) \cap TreesOf(e) = {}
<1>1. \A d \in Dev : d \in Int /\ (d # 1 => 1 \in Dev)
  BY MoveAssumption
<1>2. \A d, e \in Dev : /\ <<"old", d>> # <<"short", e>> /\ <<"old", d>> # <<"long", e>>
                        /\ <<"short", d>> # <<"long", e>>
                        /\ (d # e => <<"old", d>> # <<"old", e>> /\ <<"short", d>> # <<"short", e>>
                                     /\ <<"long", d>> # <<"long", e>>)
                        /\ <<"old", d>> \in Prefix /\ <<"short", d>> \in Prefix /\ <<"long", d>> \in Prefix
  BY DEF Prefix
<1>3. None \notin Prefix /\ None \notin Dev
  BY MoveAssumption
<1>4. \A d \in Dev : New(d) \in {<<"short", d>>, <<"long", d>>}
  BY DEF New, Long
<1>5. ASSUME NEW d \in Dev
      PROVE  /\ Old(d) \in Prefix /\ New(d) \in Prefix /\ Old(d) # New(d)
             /\ Old(d) # None /\ New(d) # None /\ d # None
  BY <1>2, <1>3, <1>4 DEF Old
<1>6. ASSUME NEW d \in Dev, NEW e \in Dev, d # e
      PROVE  TreesOf(d) \cap TreesOf(e) = {}
  <2>1. Old(d) # Old(e) /\ Old(d) # New(e) /\ New(d) # Old(e)
    BY <1>2, <1>4, <1>6 DEF Old
  <2>2. New(d) # New(e)
    BY <1>2, <1>4, <1>6
  <2> QED BY <2>1, <2>2 DEF TreesOf
<1> QED BY <1>5, <1>6

\* The records of the database.
LEMMA RecordsAre ==
  ASSUME MoveTypeOK, NEW p \in Prefix
  PROVE  /\ root[p] = [dev |-> root[p].dev, marked |-> root[p].marked, movingTo |-> root[p].movingTo]
         /\ point[p] = [of |-> point[p].of, rec |-> point[p].rec, val |-> point[p].val]
         /\ root[p].dev \in Dev \cup {None} /\ root[p].marked \in BOOLEAN /\ root[p].movingTo \in OptPrefix
         /\ point[p].of \in Dev \cup {None} /\ point[p].rec \in BOOLEAN /\ point[p].val \in BOOLEAN
BY DEF MoveTypeOK

\* What the invariant says of a device depends on its own trees.
Kept(p) ==
  /\ root'[p] = root[p] /\ point'[p] = point[p]
  /\ (p \in pending' <=> p \in pending) /\ (p \in complete' <=> p \in complete)
  /\ (p \in unmoved' <=> p \in unmoved)

\* A device the step does not touch is as the invariant says.
LEMMA Untouched ==
  ASSUME NEW d \in Dev, NEW o, NEW g, DeviceInv(d, o, g), Kept(o), Kept(g),
         alias'[d] = alias[d], registry'[d] = registry[d], mishap' = mishap,
         step.at # "down", ~MovesIn(o, g), ~MovesIn(o, g)'
  PROVE  DeviceInv(d, o, g)'
<1>1. \A p \in {o, g} :
        /\ (Stands(p)' <=> Stands(p)) /\ (Marked(p)' <=> Marked(p)) /\ (Moving(p)' <=> Moving(p))
        /\ (Full(p, d)' <=> Full(p, d)) /\ (Recorded(p, d)' <=> Recorded(p, d))
  BY DEF Kept, Stands, Marked, Moving, Full, Recorded
<1>2. TreeFits(o, d, g)' /\ TreeFits(g, d, o)' /\ alias'[d] \in {o, g}
  BY DEF DeviceInv, TreeFits, Kept
<1>3. OnDisk(d, o, g)'
  BY <1>1 DEF DeviceInv, OnDisk
<1>4. NothingFails(d, o, g)'
  BY <1>1 DEF DeviceInv, NothingFails, Kept
<1>5. Listed(d, o, g)'
  BY <1>1 DEF DeviceInv, Listed, Kept
<1>6. InOrder(d, o, g)'
  BY <1>1 DEF DeviceInv, InOrder, Kept
<1>7. Ready(d, o, g)'
  BY <1>1 DEF DeviceInv, Ready, OldGoes, NewGoes, Kept
<1> QED BY <1>2, <1>3, <1>4, <1>5, <1>6, <1>7 DEF DeviceInv

(* A device d with its old tree o and its new tree g.                      *)
OfDevice(d, o, g) ==
  /\ MoveTypeOK /\ d \in Dev /\ o \in Prefix /\ g \in Prefix /\ o # g
  /\ None \notin {d, o, g}
  /\ DeviceInv(d, o, g)

\* An object that stays as it is.
LEMMA RootStays ==
  ASSUME NEW p, root'[p] = root[p]
  PROVE  (Stands(p)' <=> Stands(p)) /\ (Marked(p)' <=> Marked(p)) /\ (Moving(p)' <=> Moving(p))
BY DEF Stands, Marked, Moving
\* A datapoint that stays as it is.
LEMMA PointStays ==
  ASSUME NEW p, NEW d, point'[p] = point[p]
  PROVE  (Full(p, d)' <=> Full(p, d)) /\ (Recorded(p, d)' <=> Recorded(p, d))
BY DEF Full, Recorded

\* A whole datapoint carries the recording.
LEMMA FullIsRecorded ==
  ASSUME NEW p, NEW d, Full(p, d)
  PROVE  Recorded(p, d)
BY DEF Full, Recorded

\* The next call of a move.
LEMMA StepGoes ==
  ASSUME MoveTypeOK, NEW here, NEW next, At(here, next)
  PROVE  /\ step.at = here /\ step'.at = next /\ step'.tree = step.tree /\ step'.to = step.to
         /\ step'.fill = step.fill /\ step'.whole = step.whole
BY DEF MoveTypeOK, At

(* The move of a tree t of device d to the other tree u.                   *)
OnTheWay(d, o, g, t, u) ==
  /\ t \in {o, g} /\ u \in {o, g} /\ t # u /\ MovesIn(o, g) /\ alias[d] \in {o, g}
  /\ TreeFits(t, d, u) /\ TreeFits(u, d, t)
  /\ OnDisk(d, o, g) /\ NothingFails(d, o, g) /\ Listed(d, o, g) /\ InOrder(d, o, g) /\ Ready(d, o, g)
  /\ Route(d, o, g, t, u) /\ Copies(d, o, g, t, u) /\ Leaves(d, t, u)

\* While a call of the move is due, one of the trees is on its way to the other.
LEMMA IsOnTheWay ==
  ASSUME NEW d, NEW o, NEW g, OfDevice(d, o, g), MovesIn(o, g)
  PROVE  \E t, u \in {o, g} : OnTheWay(d, o, g, t, u)
<1>1. step.at # "down"
  BY DEF MovesIn, Moves
<1>2. PICK t \in {o, g}, u \in {o, g} : t # u /\ Route(d, o, g, t, u) /\ Copies(d, o, g, t, u) /\ Leaves(d, t, u)
  BY DEF OfDevice, DeviceInv, UnderWay
<1>3. TreeFits(t, d, u) /\ TreeFits(u, d, t)
  BY <1>2 DEF OfDevice, DeviceInv
<1> QED BY <1>1, <1>2, <1>3 DEF OfDevice, DeviceInv, OnTheWay

\* What holds on the way is what the invariant says of the device.
LEMMA WayKeeps ==
  ASSUME NEW d, NEW o, NEW g, NEW t, NEW u, OnTheWay(d, o, g, t, u)'
  PROVE  DeviceInv(d, o, g)'
<1>1. TreeFits(o, d, g)' /\ TreeFits(g, d, o)'
  BY DEF OnTheWay
<1>2. UnderWay(d, o, g)'
  BY DEF OnTheWay, UnderWay
<1> QED BY <1>1, <1>2 DEF OnTheWay, DeviceInv

(* One call of that move.                                                  *)
Calls(d, o, g, t, u) ==
  /\ OfDevice(d, o, g) /\ OnTheWay(d, o, g, t, u)
  /\ UNCHANGED <<mishap, registry, unmoved, complete, pending>>

\* What each call starts from.
LEMMA CallFacts ==
  ASSUME NEW d, NEW o, NEW g, NEW t, NEW u, Calls(d, o, g, t, u)
  PROVE  /\ MoveTypeOK /\ d \in Dev /\ t \in Prefix /\ u \in Prefix /\ t # u
         /\ t \in {o, g} /\ u \in {o, g} /\ o # g /\ None \notin {d, t, u, o, g}
         /\ alias[d] \in {o, g} /\ t = step.tree /\ u = step.to /\ registry[d] = u
         /\ TreeFits(t, d, u) /\ TreeFits(u, d, t)
         /\ OnDisk(d, o, g) /\ NothingFails(d, o, g) /\ Listed(d, o, g) /\ InOrder(d, o, g) /\ Ready(d, o, g)
         /\ Route(d, o, g, t, u) /\ Copies(d, o, g, t, u) /\ Leaves(d, t, u)
         /\ \A p \in {t, u} : Marked(p) \/ Moving(p) => Stands(p)
<1>1. /\ TreeFits(t, d, u) /\ TreeFits(u, d, t)
  BY DEF Calls, OnTheWay
<1>2. \A p \in {t, u} : Marked(p) \/ Moving(p) => Stands(p)
  BY <1>1 DEF TreeFits, Marked, Moving, Stands, NoRoot
<1> QED BY <1>2 DEF Calls, OfDevice, OnTheWay, Route

\* The journal is written at the old tree before anything is copied (moveDeviceTree).
LEMMA WriteJournalKeeps ==
  ASSUME NEW d, NEW o, NEW g, NEW t, NEW u, Calls(d, o, g, t, u), writeJournal
  PROVE  OnTheWay(d, o, g, t, u)'
<1>1. /\ step.at = "journal" /\ step'.at = "read" /\ step'.tree = step.tree /\ step'.to = step.to
      /\ step'.fill = step.fill /\ step'.whole = step.whole /\ MovesIn(o, g)'
  BY StepGoes, CallFacts DEF writeJournal, MovesIn, Moves
<1>2. /\ root' = IF step.fill THEN root ELSE [root EXCEPT ![step.tree].movingTo = step.to]
      /\ UNCHANGED <<mishap, point, alias, registry, unmoved, complete, pending>>
  BY DEF writeJournal
<1>3. /\ root'[u] = root[u] /\ root'[t].dev = root[t].dev /\ root'[t].marked = root[t].marked
      /\ root'[t].movingTo = IF step.fill THEN root[t].movingTo ELSE u
      /\ point'[t] = point[t] /\ point'[u] = point[u]
  BY <1>2, CallFacts DEF MoveTypeOK
<1>4. Stands(t)
  BY <1>1, CallFacts DEF Route
<1>5. TreeFits(t, d, u)' /\ TreeFits(u, d, t)'
  <2>1. TreeFits(u, d, t)'
    BY <1>3, CallFacts DEF TreeFits
  <2>2. TreeFits(t, d, u)'
    BY <1>3, <1>4, CallFacts DEF TreeFits, Stands
  <2> QED BY <2>1, <2>2
<1>6. /\ \A p \in {t, u} : /\ (Stands(p)' <=> Stands(p)) /\ (Marked(p)' <=> Marked(p))
                           /\ (Full(p, d)' <=> Full(p, d)) /\ (Recorded(p, d)' <=> Recorded(p, d))
      /\ (Moving(u)' <=> Moving(u)) /\ (Moving(t)' <=> Moving(t) \/ ~step.fill)
  BY <1>3, CallFacts DEF Stands, Marked, Moving, Full, Recorded
<1>7. OnDisk(d, o, g)' /\ NothingFails(d, o, g)'
  BY <1>1, <1>2, <1>4, <1>6, CallFacts DEF OnDisk, NothingFails, Route, Copies, OldGoes, NewGoes, Listed
<1>8. Listed(d, o, g)' /\ InOrder(d, o, g)' /\ Ready(d, o, g)'
  BY <1>1, <1>2, <1>6, CallFacts DEF Listed, InOrder, Ready, OldGoes, NewGoes, Route
<1>9. Route(d, o, g, t, u)' /\ Copies(d, o, g, t, u)' /\ Leaves(d, t, u)'
  BY <1>1, <1>2, <1>6, CallFacts DEF Route, Copies, Leaves, OldGoes, NewGoes
<1> QED BY <1>1, <1>2, <1>5, <1>7, <1>8, <1>9, CallFacts DEF OnTheWay

\* What is only read, the objects and the rooms, leaves the trees as they are.
LEMMA OnlyStepKeeps ==
  ASSUME NEW d, NEW o, NEW g, NEW t, NEW u, Calls(d, o, g, t, u), readObjects \/ readRooms
  PROVE  OnTheWay(d, o, g, t, u)'
<1>1. /\ step'.tree = step.tree /\ step'.to = step.to /\ step'.fill = step.fill /\ MovesIn(o, g)'
      /\ \/ /\ step.at = "read" /\ step'.at = IF step'.whole THEN "alias" ELSE "point"
            /\ step'.whole <=> ~step.fill /\ Marked(u)
         \/ step.at = "plan" /\ step'.at = "deletePoint" /\ step'.whole = step.whole
  <2>1. CASE readObjects
    <3>1. step.at = "read" /\ (IsWhole(step.to) <=> Marked(u))
      BY <2>1, CallFacts DEF readObjects, IsWhole, Marked
    <3>2. CASE ~step.fill /\ IsWhole(step.to)
      <4>1. step' = [step EXCEPT !.whole = TRUE, !.at = "alias"]
        BY <2>1, <3>2 DEF readObjects
      <4> QED BY <3>1, <3>2, <4>1, CallFacts DEF MovesIn, Moves, MoveTypeOK
    <3>3. CASE ~(~step.fill /\ IsWhole(step.to))
      <4>1. step' = [step EXCEPT !.whole = FALSE, !.at = "point"]
        BY <2>1, <3>3 DEF readObjects
      <4> QED BY <3>1, <3>3, <4>1, CallFacts DEF MovesIn, Moves, MoveTypeOK
    <3> QED BY <3>2, <3>3
  <2>2. CASE readRooms
    BY <2>2, StepGoes, CallFacts DEF readRooms, MovesIn, Moves
  <2> QED BY <2>1, <2>2
<1>2. UNCHANGED <<mishap, root, point, alias, registry, unmoved, complete, pending>>
  BY DEF readObjects, readRooms
<1>3. \A p \in {t, u} : /\ (Stands(p)' <=> Stands(p)) /\ (Marked(p)' <=> Marked(p)) /\ (Moving(p)' <=> Moving(p))
                        /\ (Full(p, d)' <=> Full(p, d)) /\ (Recorded(p, d)' <=> Recorded(p, d))
  BY <1>2, RootStays, PointStays
<1>4. TreeFits(t, d, u)' /\ TreeFits(u, d, t)'
  BY <1>2, CallFacts DEF TreeFits
<1>5. OnDisk(d, o, g)' /\ NothingFails(d, o, g)'
  BY <1>2, <1>3, CallFacts DEF OnDisk, NothingFails
<1>6. Listed(d, o, g)' /\ InOrder(d, o, g)' /\ Ready(d, o, g)'
  <2>1. Listed(d, o, g)'
    BY <1>1, <1>2, <1>3, CallFacts DEF Listed, OnTheWay, Calls
  <2>2. InOrder(d, o, g)'
    BY <1>2, <1>3, CallFacts DEF InOrder
  <2>3. Ready(d, o, g)'
    BY <1>2, <1>3, CallFacts DEF Ready, OldGoes, NewGoes
  <2> QED BY <2>1, <2>2, <2>3
<1>7. Route(d, o, g, t, u)' /\ Copies(d, o, g, t, u)' /\ Leaves(d, t, u)'
  <2>1. Route(d, o, g, t, u)'
    BY <1>1, <1>2, <1>3, CallFacts DEF Route
  <2>2. Copies(d, o, g, t, u)'
    BY <1>1, <1>2, <1>3, CallFacts DEF Copies, OldGoes, NewGoes, Route, OnDisk
  <2>3. Leaves(d, t, u)'
    BY <1>1, <1>2, <1>3, CallFacts DEF Leaves, Copies, OldGoes, NewGoes, Route
  <2> QED BY <2>1, <2>2, <2>3
<1> QED BY <1>1, <1>2, <1>4, <1>5, <1>6, <1>7, CallFacts DEF OnTheWay

\* The datapoint is copied, or a leftover hands on its recording (copyDeviceTree).
LEMMA CopyPointKeeps ==
  ASSUME NEW d, NEW o, NEW g, NEW t, NEW u, Calls(d, o, g, t, u), copyPoint
  PROVE  OnTheWay(d, o, g, t, u)'
<1>1. /\ step.at = "point" /\ step'.at = "root" /\ step'.tree = step.tree /\ step'.to = step.to
      /\ step'.fill = step.fill /\ step'.whole = step.whole /\ MovesIn(o, g)'
  BY StepGoes, CallFacts DEF copyPoint, MovesIn, Moves
<1>2. UNCHANGED <<mishap, root, alias, registry, unmoved, complete, pending>>
  BY DEF copyPoint
<1>3. root'[t] = root[t] /\ root'[u] = root[u] /\ point'[t] = point[t] /\ point'[u] = CarriedPoint(point[t], point[u])
  BY <1>2, CallFacts DEF copyPoint, MoveTypeOK
<1>4. /\ point[t].of \in {None, d} /\ point[u].of \in {None, d} /\ (step.fill \/ Recorded(t, d))
      /\ point[t] = [of |-> point[t].of, rec |-> point[t].rec, val |-> point[t].val]
      /\ point[u] = [of |-> point[u].of, rec |-> point[u].rec, val |-> point[u].val]
      /\ point[t].rec \in BOOLEAN /\ point[u].rec \in BOOLEAN /\ d # None
      /\ point[u].of = None => point[u] = NoPoint
  <2>1. step.fill \/ Recorded(t, d)
    BY <1>1, CallFacts, FullIsRecorded DEF Copies
  <2>2. \A p \in {t, u} : /\ point[p] = [of |-> point[p].of, rec |-> point[p].rec, val |-> point[p].val]
                          /\ point[p].rec \in BOOLEAN
    <3>1. MoveTypeOK /\ t \in Prefix /\ u \in Prefix
      BY CallFacts
    <3> QED BY <3>1, RecordsAre
  <2>3. \A p \in {t, u} : point[p].of \in {None, d} /\ (point[p].of = None => point[p] = NoPoint)
    BY CallFacts DEF TreeFits
  <2> QED BY <2>1, <2>2, <2>3, CallFacts
<1>5. \/ point'[u] = point[u] /\ point[t].of = None
      \/ point'[u] = [of |-> d, rec |-> point[u].rec \/ point[t].rec, val |-> point[u].val] /\ point[u].of = d
      \/ point'[u] = [of |-> d, rec |-> point[t].rec, val |-> point[u].val] /\ (point[u].of = d => ~step.fill)
  <2>1. CASE point[t].of = None
    BY <1>3, <2>1 DEF CarriedPoint
  <2>2. CASE point[t].of # None /\ step.fill /\ point[u].of # None
    <3>1. point'[u] = [point[u] EXCEPT !.rec = @ \/ point[t].rec]
      BY <1>3, <2>2 DEF CarriedPoint
    <3> QED BY <1>4, <2>2, <3>1
  <2>3. CASE point[t].of # None /\ ~(step.fill /\ point[u].of # None)
    <3>1. point'[u] = [of |-> point[t].of, rec |-> point[t].rec, val |-> point[u].val]
      BY <1>3, <2>3 DEF CarriedPoint
    <3> QED BY <1>4, <2>3, <3>1
  <2> QED BY <2>1, <2>2, <2>3
<1>6. TreeFits(t, d, u)' /\ TreeFits(u, d, t)'
  <2>1. TreeFits(t, d, u)'
    BY <1>3, CallFacts DEF TreeFits
  <2>2. point'[u].of \in {None, d} /\ (point'[u].of = None => point'[u] = NoPoint)
    BY <1>4, <1>5
  <2>3. TreeFits(u, d, t)'
    BY <1>3, <2>2, CallFacts DEF TreeFits
  <2> QED BY <2>1, <2>3
<1>7. \A p \in {t, u} : (Stands(p)' <=> Stands(p)) /\ (Marked(p)' <=> Marked(p)) /\ (Moving(p)' <=> Moving(p))
  BY <1>3, RootStays
<1>8. /\ (Full(t, d)' <=> Full(t, d)) /\ (Recorded(t, d)' <=> Recorded(t, d))
      /\ Full(t, d) => Recorded(t, d)
      /\ Full(u, d) => Recorded(u, d)
      /\ Recorded(u, d) \/ Recorded(t, d) => Recorded(u, d)'
      /\ Full(u, d) => Full(u, d)'
  <2>1. (Full(t, d) => Recorded(t, d)) /\ (Full(u, d) => Recorded(u, d))
    BY FullIsRecorded
  <2>2. (Full(t, d)' <=> Full(t, d)) /\ (Recorded(t, d)' <=> Recorded(t, d))
    BY <1>3, PointStays
  <2>3. Recorded(u, d) \/ Recorded(t, d) => Recorded(u, d)'
    BY <1>4, <1>5 DEF Recorded
  <2>4. Full(u, d) => Full(u, d)'
    <3>1. SUFFICES ASSUME Full(u, d) PROVE point'[u] = [of |-> d, rec |-> TRUE, val |-> TRUE]
      BY DEF Full
    <3>2. point[u].of = d /\ point[u].rec = TRUE /\ point[u].val = TRUE
      BY <3>1 DEF Full
    <3>3. step.fill \/ point[t].rec = TRUE
      BY <1>4 DEF Recorded
    <3> QED BY <1>4, <1>5, <3>2, <3>3
  <2> QED BY <2>1, <2>2, <2>3, <2>4
<1>9. OnDisk(d, o, g)' /\ NothingFails(d, o, g)'
  BY <1>2, <1>7, <1>8, CallFacts DEF OnDisk, NothingFails
<1>10. Listed(d, o, g)' /\ InOrder(d, o, g)' /\ Ready(d, o, g)'
  <2>1. Listed(d, o, g)' /\ InOrder(d, o, g)'
    BY <1>1, <1>2, <1>7, CallFacts DEF Listed, InOrder
  <2>2. Ready(d, o, g)'
    BY <1>2, <1>7, <1>8, CallFacts DEF Ready, OldGoes, NewGoes, Route
  <2> QED BY <2>1, <2>2
<1>11. Route(d, o, g, t, u)' /\ Copies(d, o, g, t, u)' /\ Leaves(d, t, u)'
  <2>1. Route(d, o, g, t, u)' /\ Leaves(d, t, u)'
    BY <1>1, <1>2, <1>7, <1>8, CallFacts DEF Route, Leaves
  <2>2. Copies(d, o, g, t, u)'
    BY <1>1, <1>2, <1>7, <1>8, CallFacts DEF Copies, Route
  <2> QED BY <2>1, <2>2
<1> QED BY <1>1, <1>2, <1>6, <1>9, <1>10, <1>11, CallFacts DEF OnTheWay

\* The device object is copied without its journal.
LEMMA CopyRootKeeps ==
  ASSUME NEW d, NEW o, NEW g, NEW t, NEW u, Calls(d, o, g, t, u), copyRoot
  PROVE  OnTheWay(d, o, g, t, u)'
<1>1. /\ step.at = "root" /\ step'.at = "values" /\ step'.tree = step.tree /\ step'.to = step.to
      /\ step'.fill = step.fill /\ step'.whole = step.whole /\ MovesIn(o, g)'
  BY StepGoes, CallFacts DEF copyRoot, MovesIn, Moves
<1>2. UNCHANGED <<mishap, point, alias, registry, unmoved, complete, pending>>
  BY DEF copyRoot
<1>3. /\ root'[t] = root[t] /\ point'[t] = point[t] /\ point'[u] = point[u]
      /\ \/ root'[u] = root[u] /\ step.fill /\ Stands(u)
         \/ /\ root'[u] = [dev |-> root[t].dev, marked |-> root[t].marked, movingTo |-> None]
            /\ ~(step.fill /\ Stands(u))
  <2>1. MoveTypeOK /\ t \in Prefix /\ u \in Prefix
    BY CallFacts
  <2>2. CASE step.fill /\ Stands(u)
    BY <1>2, <2>2, CallFacts DEF copyRoot, Stands
  <2>3. CASE ~(step.fill /\ Stands(u))
    <3>1. root' = [root EXCEPT ![u] = [root[t] EXCEPT !.movingTo = None]]
      <4>1. ~(step.fill /\ root[step.to].dev # None) /\ u = step.to /\ t = step.tree
        BY <2>3, CallFacts DEF Stands
      <4> QED BY <4>1 DEF copyRoot
    <3>2. root'[t] = root[t] /\ root'[u] = [root[t] EXCEPT !.movingTo = None]
      BY <3>1, CallFacts DEF MoveTypeOK
    <3>3. root'[u] = [dev |-> root[t].dev, marked |-> root[t].marked, movingTo |-> None]
      BY <2>1, <3>2, RecordsAre
    <3> QED BY <1>2, <2>3, <3>2, <3>3
  <2> QED BY <2>2, <2>3
<1>4. Stands(t)
  BY <1>1, CallFacts DEF Route
<1>5. TreeFits(t, d, u)' /\ TreeFits(u, d, t)'
  <2>1. TreeFits(t, d, u)'
    BY <1>3, CallFacts DEF TreeFits
  <2>2. /\ root'[u].dev \in {None, d} /\ root'[u].movingTo \in {None, t}
        /\ root'[u].dev = None => root'[u] = NoRoot
    BY <1>3, <1>4, CallFacts DEF TreeFits, Stands
  <2>3. TreeFits(u, d, t)'
    BY <1>3, <2>2, CallFacts DEF TreeFits
  <2> QED BY <2>1, <2>3
<1>6. /\ (Stands(t)' <=> Stands(t)) /\ (Marked(t)' <=> Marked(t)) /\ (Moving(t)' <=> Moving(t))
      /\ \/ /\ (Stands(u)' <=> Stands(u)) /\ (Marked(u)' <=> Marked(u)) /\ (Moving(u)' <=> Moving(u))
            /\ step.fill /\ Stands(u)
         \/ Stands(u)' /\ (Marked(u)' <=> Marked(t)) /\ ~Moving(u)' /\ ~(step.fill /\ Stands(u))
      /\ \A p \in {t, u} : (Full(p, d)' <=> Full(p, d)) /\ (Recorded(p, d)' <=> Recorded(p, d))
  <2>1. (Stands(t)' <=> Stands(t)) /\ (Marked(t)' <=> Marked(t)) /\ (Moving(t)' <=> Moving(t))
    BY <1>3, RootStays
  <2>2. \A p \in {t, u} : (Full(p, d)' <=> Full(p, d)) /\ (Recorded(p, d)' <=> Recorded(p, d))
    BY <1>3, PointStays
  <2>3. \/ /\ (Stands(u)' <=> Stands(u)) /\ (Marked(u)' <=> Marked(u)) /\ (Moving(u)' <=> Moving(u))
           /\ step.fill /\ Stands(u)
        \/ Stands(u)' /\ (Marked(u)' <=> Marked(t)) /\ ~Moving(u)' /\ ~(step.fill /\ Stands(u))
    <3>1. CASE root'[u] = root[u] /\ step.fill /\ Stands(u)
      BY <3>1, RootStays
    <3>2. CASE /\ root'[u] = [dev |-> root[t].dev, marked |-> root[t].marked, movingTo |-> None]
               /\ ~(step.fill /\ Stands(u))
      BY <1>4, <3>2 DEF Stands, Marked, Moving
    <3> QED BY <1>3, <3>1, <3>2
  <2> QED BY <2>1, <2>2, <2>3
<1>7. Recorded(u, d) /\ (Full(t, d) \/ Full(u, d)) /\ (step.fill => u \in complete /\ Stands(u))
  BY <1>1, CallFacts DEF Copies, Route, Listed
<1>8. OnDisk(d, o, g)'
  BY <1>1, <1>2, <1>4, <1>6, <1>7, CallFacts DEF OnDisk, Copies, Route
<1>9. NothingFails(d, o, g)'
  BY <1>1, <1>2, <1>4, <1>6, <1>7, CallFacts DEF NothingFails, Route
<1>10. Listed(d, o, g)' /\ InOrder(d, o, g)'
  BY <1>1, <1>2, <1>6, <1>7, CallFacts DEF Listed, InOrder, Route
<1>11. Ready(d, o, g)'
  BY <1>1, <1>2, <1>6, <1>7, CallFacts DEF Ready, OldGoes, NewGoes, Route, Copies
<1>12. Route(d, o, g, t, u)' /\ Leaves(d, t, u)'
  BY <1>1, <1>2, <1>6, <1>7, CallFacts DEF Route, Leaves, Copies
<1>13. Copies(d, o, g, t, u)'
  BY <1>1, <1>2, <1>6, <1>7, CallFacts DEF Copies, Route
<1> QED BY <1>1, <1>2, <1>5, <1>8, <1>9, <1>10, <1>11, <1>12, <1>13, CallFacts DEF OnTheWay

\* The values are copied last: the copy is whole.
LEMMA CopyValuesKeeps ==
  ASSUME NEW d, NEW o, NEW g, NEW t, NEW u, Calls(d, o, g, t, u), copyValues
  PROVE  OnTheWay(d, o, g, t, u)'
<1>1. /\ step.at = "values" /\ step'.at = "alias" /\ step'.tree = step.tree /\ step'.to = step.to
      /\ step'.fill = step.fill /\ step'.whole = step.whole /\ MovesIn(o, g)'
  BY StepGoes, CallFacts DEF copyValues, MovesIn, Moves
<1>2. UNCHANGED <<mishap, root, alias, registry, unmoved, complete, pending>>
  BY DEF copyValues
<1>3. MoveTypeOK /\ t \in Prefix /\ u \in Prefix /\ t # u /\ t = step.tree /\ u = step.to
  BY CallFacts
<1>4. /\ root'[t] = root[t] /\ root'[u] = root[u] /\ point'[t] = point[t]
      /\ point'[u] = [of |-> point[u].of, rec |-> point[u].rec, val |-> point[u].val \/ point[t].val]
  <2>1. point' = [point EXCEPT ![u].val = IF step.fill /\ @ THEN @ ELSE @ \/ point[t].val]
    BY <1>3 DEF copyValues
  <2>2. point'[t] = point[t] /\ point'[u] = [point[u] EXCEPT !.val = IF step.fill /\ @ THEN @ ELSE @ \/ point[t].val]
    BY <1>3, <2>1 DEF MoveTypeOK
  <2>3. point[u].val \in BOOLEAN /\ point[t].val \in BOOLEAN
    BY <1>3, RecordsAre
  <2>4. (IF step.fill /\ point[u].val THEN point[u].val ELSE point[u].val \/ point[t].val)
          = (point[u].val \/ point[t].val)
    BY <2>3
  <2>5. point[u] = [of |-> point[u].of, rec |-> point[u].rec, val |-> point[u].val]
    BY <1>3, RecordsAre
  <2>6. point'[u] = [of |-> point[u].of, rec |-> point[u].rec,
                     val |-> IF step.fill /\ point[u].val THEN point[u].val ELSE point[u].val \/ point[t].val]
    BY <2>2, <2>5
  <2> QED BY <1>2, <2>2, <2>4, <2>6
<1>5. Recorded(u, d) /\ (Full(t, d) \/ Full(u, d)) /\ Stands(u) /\ d # None
  BY <1>1, CallFacts DEF Copies, Leaves
<1>6. TreeFits(t, d, u)' /\ TreeFits(u, d, t)'
  <2>1. TreeFits(t, d, u)'
    BY <1>4, CallFacts DEF TreeFits
  <2>2. TreeFits(u, d, t)'
    BY <1>4, <1>5, CallFacts DEF TreeFits, Recorded
  <2> QED BY <2>1, <2>2
<1>7. \A p \in {t, u} : (Stands(p)' <=> Stands(p)) /\ (Marked(p)' <=> Marked(p)) /\ (Moving(p)' <=> Moving(p))
  BY <1>4, RootStays
<1>8. (Full(t, d)' <=> Full(t, d)) /\ (Recorded(t, d)' <=> Recorded(t, d)) /\ Full(u, d)' /\ Recorded(u, d)'
  <2>1. (Full(t, d)' <=> Full(t, d)) /\ (Recorded(t, d)' <=> Recorded(t, d))
    BY <1>4, PointStays
  <2>2. point[u].of = d /\ point[u].rec = TRUE /\ (point[u].val \/ point[t].val) = TRUE
    BY <1>3, <1>5, RecordsAre DEF Recorded, Full
  <2>3. Full(u, d)'
    BY <1>4, <2>2 DEF Full
  <2>4. Recorded(u, d)'
    BY <1>4, <2>2 DEF Recorded
  <2> QED BY <2>1, <2>3, <2>4
<1>9. OnDisk(d, o, g)' /\ NothingFails(d, o, g)'
  BY <1>2, <1>5, <1>7, <1>8, CallFacts DEF OnDisk, NothingFails
<1>10. Listed(d, o, g)' /\ InOrder(d, o, g)'
  BY <1>1, <1>2, <1>7, CallFacts DEF Listed, InOrder
<1>11. Ready(d, o, g)'
  BY <1>1, <1>2, <1>7, <1>8, CallFacts DEF Ready, OldGoes, NewGoes, Route
<1>12. Route(d, o, g, t, u)' /\ Leaves(d, t, u)'
  BY <1>1, <1>2, <1>7, <1>8, CallFacts DEF Route, Leaves
<1>13. Copies(d, o, g, t, u)'
  BY <1>1, <1>2, <1>7, <1>8, CallFacts DEF Copies, Route
<1> QED BY <1>1, <1>2, <1>6, <1>9, <1>10, <1>11, <1>12, <1>13, CallFacts DEF OnTheWay

\* The aliases on the old tree point at the new one from here on.
LEMMA RetargetKeeps ==
  ASSUME NEW d, NEW o, NEW g, NEW t, NEW u, Calls(d, o, g, t, u), retargetAliases
  PROVE  OnTheWay(d, o, g, t, u)'
<1>1. /\ step.at = "alias" /\ step'.at = "mark" /\ step'.tree = step.tree /\ step'.to = step.to
      /\ step'.fill = step.fill /\ step'.whole = step.whole /\ MovesIn(o, g)'
  BY StepGoes, CallFacts DEF retargetAliases, MovesIn, Moves
<1>2. UNCHANGED <<mishap, root, point, registry, unmoved, complete, pending>>
  BY DEF retargetAliases
<1>3. alias'[d] = u
  BY CallFacts DEF retargetAliases
<1>4. \A p \in {t, u} : /\ (Stands(p)' <=> Stands(p)) /\ (Marked(p)' <=> Marked(p)) /\ (Moving(p)' <=> Moving(p))
                        /\ (Full(p, d)' <=> Full(p, d)) /\ (Recorded(p, d)' <=> Recorded(p, d))
  BY <1>2, RootStays, PointStays
<1>5. TreeFits(t, d, u)' /\ TreeFits(u, d, t)'
  BY <1>2, CallFacts DEF TreeFits
<1>6. Stands(u)
  BY <1>1, CallFacts DEF Leaves
<1>7. OnDisk(d, o, g)' /\ NothingFails(d, o, g)'
  BY <1>2, <1>3, <1>4, <1>6, CallFacts DEF OnDisk, NothingFails
<1>8. Listed(d, o, g)' /\ InOrder(d, o, g)'
  BY <1>1, <1>2, <1>4, CallFacts DEF Listed, InOrder
<1>9. Ready(d, o, g)'
  BY <1>2, <1>4, CallFacts DEF Ready, OldGoes, NewGoes
<1>10. Route(d, o, g, t, u)' /\ Leaves(d, t, u)'
  BY <1>1, <1>2, <1>3, <1>4, CallFacts DEF Route, Leaves
<1>11. Copies(d, o, g, t, u)'
  BY <1>1, <1>2, <1>4, CallFacts DEF Copies
<1> QED BY <1>1, <1>2, <1>3, <1>5, <1>7, <1>8, <1>9, <1>10, <1>11, CallFacts DEF OnTheWay

\* A whole copy gets the mark.
LEMMA MarkRootKeeps ==
  ASSUME NEW d, NEW o, NEW g, NEW t, NEW u, Calls(d, o, g, t, u), markRoot
  PROVE  OnTheWay(d, o, g, t, u)'
<1>1. /\ step.at = "mark" /\ step'.at = "plan" /\ step'.tree = step.tree /\ step'.to = step.to
      /\ step'.fill = step.fill /\ step'.whole = step.whole /\ MovesIn(o, g)'
  BY StepGoes, CallFacts DEF markRoot, MovesIn, Moves
<1>2. UNCHANGED <<mishap, point, alias, registry, unmoved, complete, pending>>
  BY DEF markRoot
<1>3. /\ root'[t] = root[t] /\ point'[t] = point[t] /\ point'[u] = point[u]
      /\ root'[u].dev = root[u].dev /\ root'[u].movingTo = root[u].movingTo
      /\ root'[u].marked <=> root[u].marked \/ ~(step.fill \/ step.whole)
  BY CallFacts DEF markRoot, MoveTypeOK
<1>4. Stands(u) /\ Full(u, d) /\ (step.fill \/ step.whole => Marked(u)) /\ alias[d] # t
  BY <1>1, CallFacts DEF Leaves, Route, Listed
<1>5. TreeFits(t, d, u)' /\ TreeFits(u, d, t)'
  <2>1. TreeFits(t, d, u)'
    BY <1>3, CallFacts DEF TreeFits
  <2>2. TreeFits(u, d, t)'
    BY <1>3, <1>4, CallFacts DEF TreeFits, Stands
  <2> QED BY <2>1, <2>2
<1>6. /\ \A p \in {t, u} : /\ (Stands(p)' <=> Stands(p)) /\ (Moving(p)' <=> Moving(p))
                           /\ (Full(p, d)' <=> Full(p, d)) /\ (Recorded(p, d)' <=> Recorded(p, d))
      /\ (Marked(t)' <=> Marked(t)) /\ Marked(u)'
  BY <1>3, <1>4 DEF Stands, Moving, Marked, Full, Recorded
<1>7. OnDisk(d, o, g)'
  BY <1>1, <1>2, <1>4, <1>6, CallFacts DEF OnDisk, Copies, Route
<1>8. NothingFails(d, o, g)'
  BY <1>2, <1>6, CallFacts DEF NothingFails, Route
<1>9. Listed(d, o, g)' /\ InOrder(d, o, g)'
  BY <1>1, <1>2, <1>4, <1>6, CallFacts DEF Listed, InOrder, Route
<1>10. Ready(d, o, g)'
  BY <1>1, <1>2, <1>4, <1>6, CallFacts DEF Ready, OldGoes, NewGoes, Route, Copies
<1>11. Route(d, o, g, t, u)' /\ Leaves(d, t, u)'
  BY <1>1, <1>2, <1>4, <1>6, CallFacts DEF Route, Leaves
<1>12. Copies(d, o, g, t, u)'
  BY <1>1, <1>2, <1>6, CallFacts DEF Copies
<1> QED BY <1>1, <1>2, <1>5, <1>7, <1>8, <1>9, <1>10, <1>11, <1>12, CallFacts DEF OnTheWay

\* The old datapoint goes, after the new one is whole.
LEMMA DeletePointKeeps ==
  ASSUME NEW d, NEW o, NEW g, NEW t, NEW u, Calls(d, o, g, t, u), deletePoint
  PROVE  OnTheWay(d, o, g, t, u)'
<1>1. /\ step.at = "deletePoint" /\ step'.at = "deleteRoot" /\ step'.tree = step.tree /\ step'.to = step.to
      /\ step'.fill = step.fill /\ step'.whole = step.whole /\ MovesIn(o, g)'
  BY StepGoes, CallFacts DEF deletePoint, MovesIn, Moves
<1>2. UNCHANGED <<mishap, root, alias, registry, unmoved, complete, pending>>
  BY DEF deletePoint
<1>3. root'[t] = root[t] /\ root'[u] = root[u] /\ point'[t] = NoPoint /\ point'[u] = point[u]
  BY <1>2, CallFacts DEF deletePoint, MoveTypeOK
<1>4. Stands(u) /\ Full(u, d) /\ Marked(u) /\ alias[d] # t
  BY <1>1, CallFacts DEF Leaves
<1>5. TreeFits(t, d, u)' /\ TreeFits(u, d, t)'
  <2>1. TreeFits(t, d, u)'
    BY <1>3, CallFacts DEF TreeFits, NoPoint
  <2>2. TreeFits(u, d, t)'
    BY <1>3, CallFacts DEF TreeFits
  <2> QED BY <2>1, <2>2
<1>6. /\ \A p \in {t, u} : (Stands(p)' <=> Stands(p)) /\ (Marked(p)' <=> Marked(p)) /\ (Moving(p)' <=> Moving(p))
      /\ (Full(u, d)' <=> Full(u, d)) /\ (Recorded(u, d)' <=> Recorded(u, d))
  BY <1>3, RootStays, PointStays
<1>7. OnDisk(d, o, g)'
  BY <1>2, <1>4, <1>6, CallFacts DEF OnDisk
<1>8. NothingFails(d, o, g)'
  BY <1>2, <1>6, CallFacts DEF NothingFails
<1>9. Listed(d, o, g)' /\ InOrder(d, o, g)'
  BY <1>1, <1>2, <1>6, CallFacts DEF Listed, InOrder
<1>10. Ready(d, o, g)'
  BY <1>1, <1>2, <1>4, <1>6, CallFacts DEF Ready, OldGoes, NewGoes, Route, Copies
<1>11. Route(d, o, g, t, u)' /\ Leaves(d, t, u)'
  BY <1>1, <1>2, <1>4, <1>6, CallFacts DEF Route, Leaves
<1>12. Copies(d, o, g, t, u)'
  BY <1>1, <1>2, <1>6, CallFacts DEF Copies
<1> QED BY <1>1, <1>2, <1>5, <1>7, <1>8, <1>9, <1>10, <1>11, <1>12, CallFacts DEF OnTheWay

\* The old device object goes last.
LEMMA DeleteRootKeeps ==
  ASSUME NEW d, NEW o, NEW g, NEW t, NEW u, Calls(d, o, g, t, u), deleteRoot
  PROVE  OnTheWay(d, o, g, t, u)'
<1>1. /\ step.at = "deleteRoot" /\ step'.at = "rooms" /\ step'.tree = step.tree /\ step'.to = step.to
      /\ step'.fill = step.fill /\ step'.whole = step.whole /\ MovesIn(o, g)'
  BY StepGoes, CallFacts DEF deleteRoot, MovesIn, Moves
<1>2. UNCHANGED <<mishap, point, alias, registry, unmoved, complete, pending>>
  BY DEF deleteRoot
<1>3. root'[t] = NoRoot /\ root'[u] = root[u] /\ point'[t] = point[t] /\ point'[u] = point[u]
  BY <1>2, CallFacts DEF deleteRoot, MoveTypeOK
<1>4. Stands(u) /\ Full(u, d) /\ Marked(u) /\ alias[d] = u
  BY <1>1, CallFacts DEF Leaves
<1>5. TreeFits(t, d, u)' /\ TreeFits(u, d, t)'
  <2>1. TreeFits(t, d, u)'
    BY <1>3, CallFacts DEF TreeFits, NoRoot
  <2>2. TreeFits(u, d, t)'
    BY <1>3, CallFacts DEF TreeFits
  <2> QED BY <2>1, <2>2
<1>6. /\ (Stands(u)' <=> Stands(u)) /\ (Marked(u)' <=> Marked(u)) /\ (Moving(u)' <=> Moving(u))
      /\ ~Stands(t)' /\ ~Marked(t)' /\ ~Moving(t)'
      /\ \A p \in {t, u} : (Full(p, d)' <=> Full(p, d)) /\ (Recorded(p, d)' <=> Recorded(p, d))
  <2>1. ~Stands(t)' /\ ~Marked(t)' /\ ~Moving(t)'
    BY <1>3 DEF NoRoot, Stands, Marked, Moving
  <2> QED BY <1>3, <2>1, RootStays, PointStays
<1>7. OnDisk(d, o, g)'
  BY <1>2, <1>4, <1>6, CallFacts DEF OnDisk
<1>8. NothingFails(d, o, g)'
  BY <1>2, <1>6, CallFacts DEF NothingFails
<1>9. Listed(d, o, g)'
  BY <1>1, <1>2, <1>6, CallFacts DEF Listed, Route
<1>10. InOrder(d, o, g)'
  BY <1>1, <1>2, <1>6, CallFacts DEF InOrder, Route
<1>11. Ready(d, o, g)'
  BY <1>1, <1>2, <1>4, <1>6, CallFacts DEF Ready, OldGoes, NewGoes, Route, Copies
<1>12. Route(d, o, g, t, u)' /\ Leaves(d, t, u)'
  BY <1>1, <1>2, <1>4, <1>6, CallFacts DEF Route, Leaves
<1>13. Copies(d, o, g, t, u)'
  BY <1>1, <1>2, <1>6, CallFacts DEF Copies
<1> QED BY <1>1, <1>2, <1>5, <1>7, <1>8, <1>9, <1>10, <1>11, <1>12, <1>13, CallFacts DEF OnTheWay

\* The move is done: the new tree is whole and the old one gone.
LEMMA WriteRoomsKeeps ==
  ASSUME NEW d, NEW o, NEW g, OfDevice(d, o, g), MovesIn(o, g), writeRooms
  PROVE  DeviceInv(d, o, g)'
<1>1. PICK t \in {o, g}, u \in {o, g} : OnTheWay(d, o, g, t, u)
  BY IsOnTheWay
<1>2. /\ step.at = "rooms" /\ step'.at = "next" /\ step'.tree = None /\ ~MovesIn(o, g)'
      /\ complete' = complete \cup {u} /\ UNCHANGED <<mishap, root, point, alias, registry, unmoved, pending>>
  BY <1>1 DEF writeRooms, Idle, MovesIn, Moves, OnTheWay, Route
<1>3. /\ t # u /\ TreeFits(t, d, u) /\ TreeFits(u, d, t) /\ alias[d] \in {o, g} /\ o # g
      /\ OnDisk(d, o, g) /\ NothingFails(d, o, g) /\ Listed(d, o, g) /\ InOrder(d, o, g) /\ Ready(d, o, g)
      /\ Route(d, o, g, t, u) /\ Copies(d, o, g, t, u) /\ Leaves(d, t, u)
      /\ registry[d] = u /\ t = step.tree
  BY <1>1 DEF OnTheWay, OfDevice, Route
<1>4. \A p \in {t, u} : /\ (Stands(p)' <=> Stands(p)) /\ (Marked(p)' <=> Marked(p)) /\ (Moving(p)' <=> Moving(p))
                        /\ (Full(p, d)' <=> Full(p, d)) /\ (Recorded(p, d)' <=> Recorded(p, d))
  BY <1>2, RootStays, PointStays
<1>5. Stands(u) /\ Full(u, d) /\ Marked(u) /\ ~Stands(t)
  BY <1>2, <1>3 DEF Leaves
<1>6. TreeFits(o, d, g)' /\ TreeFits(g, d, o)' /\ alias'[d] \in {o, g}
  BY <1>1, <1>2, <1>3 DEF TreeFits
<1>7. OnDisk(d, o, g)' /\ NothingFails(d, o, g)'
  BY <1>1, <1>2, <1>3, <1>4 DEF OnDisk, NothingFails
<1>8. Listed(d, o, g)'
  BY <1>1, <1>2, <1>3, <1>4, <1>5 DEF Listed, Route
<1>9. InOrder(d, o, g)'
  BY <1>1, <1>2, <1>3, <1>4, <1>5 DEF InOrder, Listed, Route
<1>10. Ready(d, o, g)'
  BY <1>1, <1>2, <1>3, <1>4, <1>5 DEF Ready, OldGoes, NewGoes, Route, Listed
<1> QED BY <1>2, <1>6, <1>7, <1>8, <1>9, <1>10 DEF DeviceInv

\* A call fails: the device stays with its old tree for this session.
LEMMA FailKeeps ==
  ASSUME NEW d, NEW o, NEW g, OfDevice(d, o, g), MovesIn(o, g), MoveFails, registry'[d] = step.tree
  PROVE  DeviceInv(d, o, g)'
<1>1. PICK t \in {o, g}, u \in {o, g} : OnTheWay(d, o, g, t, u)
  BY IsOnTheWay
<1>2. /\ step.at # "rooms" /\ step.at # "plan" /\ step'.at = "next" /\ step'.tree = None
      /\ ~MovesIn(o, g)' /\ mishap.fails
      /\ unmoved' = unmoved \cup {t} /\ UNCHANGED <<mishap, root, point, alias, complete, pending>>
  BY <1>1 DEF MoveFails, Idle, MovesIn, Moves, OnTheWay, Route
<1>3. /\ t # u /\ TreeFits(t, d, u) /\ TreeFits(u, d, t) /\ alias[d] \in {o, g} /\ o # g
      /\ OnDisk(d, o, g) /\ NothingFails(d, o, g) /\ Listed(d, o, g) /\ InOrder(d, o, g) /\ Ready(d, o, g)
      /\ Route(d, o, g, t, u) /\ Copies(d, o, g, t, u) /\ Leaves(d, t, u)
      /\ registry[d] = u /\ registry'[d] = t /\ None \notin {o, g}
  BY <1>1 DEF OnTheWay, OfDevice, Route
<1>4. \A p \in {t, u} : /\ (Stands(p)' <=> Stands(p)) /\ (Marked(p)' <=> Marked(p)) /\ (Moving(p)' <=> Moving(p))
                        /\ (Full(p, d)' <=> Full(p, d)) /\ (Recorded(p, d)' <=> Recorded(p, d))
  BY <1>2, RootStays, PointStays
<1>5. TreeFits(o, d, g)' /\ TreeFits(g, d, o)' /\ alias'[d] \in {o, g}
  BY <1>1, <1>2, <1>3 DEF TreeFits
<1>6. OnDisk(d, o, g)' /\ NothingFails(d, o, g)'
  BY <1>1, <1>2, <1>3, <1>4 DEF OnDisk, NothingFails
<1>7. Listed(d, o, g)'
  BY <1>1, <1>2, <1>3, <1>4 DEF Listed, Route
<1>8. InOrder(d, o, g)'
  BY <1>1, <1>2, <1>3, <1>4 DEF InOrder, Listed, Route
<1>9. Ready(d, o, g)'
  BY <1>1, <1>2, <1>3, <1>4 DEF Ready, OldGoes, NewGoes, Route, Listed, InOrder, Copies
<1> QED BY <1>2, <1>5, <1>6, <1>7, <1>8, <1>9 DEF DeviceInv

\* The process dies: what the database holds stays.
LEMMA DyingKeeps ==
  ASSUME NEW d, NEW o, NEW g, OfDevice(d, o, g), Dies
  PROVE  DeviceInv(d, o, g)'
<1>1. /\ UNCHANGED <<mishap, root, point, alias>> /\ step'.at = "down" /\ registry'[d] = None
      /\ o \notin unmoved' /\ g \notin unmoved'
  BY DEF Dies, Idle, OfDevice
<1>2. /\ TreeFits(o, d, g) /\ TreeFits(g, d, o) /\ alias[d] \in {o, g}
      /\ OnDisk(d, o, g) /\ NothingFails(d, o, g) /\ None \notin {o, g}
  BY DEF OfDevice, DeviceInv
<1>3. \A p \in {o, g} : /\ (Stands(p)' <=> Stands(p)) /\ (Marked(p)' <=> Marked(p)) /\ (Moving(p)' <=> Moving(p))
                        /\ (Full(p, d)' <=> Full(p, d)) /\ (Recorded(p, d)' <=> Recorded(p, d))
  BY <1>1, RootStays, PointStays
<1>4. TreeFits(o, d, g)' /\ TreeFits(g, d, o)'
  BY <1>1, <1>2 DEF TreeFits
<1>5. OnDisk(d, o, g)' /\ NothingFails(d, o, g)'
  BY <1>1, <1>2, <1>3 DEF OnDisk, NothingFails
<1> QED BY <1>1, <1>2, <1>4, <1>5 DEF DeviceInv, MovesIn, Moves

\* The session builds the tree where the registry says; it stands there already.
LEMMA BuildKeeps ==
  ASSUME NEW d, NEW o, NEW g, OfDevice(d, o, g), step.at = "running", o \notin pending, g \notin pending, Build(d)
  PROVE  /\ DeviceInv(d, o, g)'
         /\ \E p \in {o, g} : /\ root' = root /\ registry' = registry /\ registry[d] = p
                              /\ point' = point \/ point' = [point EXCEPT ![p].of = d]
<1>1. /\ MoveTypeOK /\ d \in Dev /\ o \in Prefix /\ g \in Prefix /\ o # g /\ None \notin {d, o, g}
      /\ TreeFits(o, d, g) /\ TreeFits(g, d, o) /\ alias[d] \in {o, g}
      /\ OnDisk(d, o, g) /\ NothingFails(d, o, g) /\ Listed(d, o, g) /\ InOrder(d, o, g) /\ Ready(d, o, g)
  BY DEF OfDevice, DeviceInv
<1>2. ~MovesIn(o, g) /\ step' = step /\ UNCHANGED <<mishap, alias, unmoved, complete, pending>>
  BY DEF MovesIn, Moves, Build
<1>3. PICK p \in {o, g} : p = registry[d]
  BY <1>1 DEF Listed
<1>4. Stands(p) /\ (p \notin unmoved => Marked(p))
  BY <1>1, <1>2, <1>3 DEF Listed
<1>5. root[p].dev = d /\ p \in Prefix /\ p # None
  BY <1>1, <1>3, <1>4 DEF TreeFits, Stands
<1>6. prefixFor(registry, d) = p
  BY <1>3, <1>5 DEF prefixFor
<1>7. /\ registry' = seed(registry, d, p)
      /\ root' = [root EXCEPT ![p].dev = d, ![p].marked = @ \/ MarksBuild(p)]
      /\ point' = IF point[p].of = None THEN [point EXCEPT ![p].of = d] ELSE point
  BY <1>6 DEF Build
<1>8. registry' = registry
  BY <1>1, <1>3, <1>7 DEF seed, Seeds, MoveTypeOK
<1>9. root' = root
  <2>1. root[p].marked = (root[p].marked \/ MarksBuild(p))
    BY <1>1, <1>4, <1>5, RecordsAre DEF MarksBuild, Marked
  <2>2. root' = [root EXCEPT ![p].dev = root[p].dev, ![p].marked = root[p].marked]
    BY <1>5, <1>7, <2>1
  <2>3. root' = [root EXCEPT ![p] = root[p]]
    BY <1>1, <1>5, <2>2, RecordsAre
  <2> QED BY <1>1, <1>5, <2>3 DEF MoveTypeOK
<1>10. \A q \in {o, g} : \/ point'[q] = point[q]
                         \/ (point[q] = NoPoint /\ point'[q] = [of |-> d, rec |-> FALSE, val |-> FALSE])
  <2>1. CASE point[p].of # None
    BY <1>7, <2>1
  <2>2. CASE point[p].of = None
    <3>1. point[p] = NoPoint
      BY <1>1, <2>2 DEF TreeFits
    <3>2. point' = [point EXCEPT ![p].of = d]
      BY <1>7, <2>2
    <3>3. point'[p] = [of |-> d, rec |-> point[p].rec, val |-> point[p].val]
      <4>1. point \in [Prefix -> [of : Dev \cup {None}, rec : BOOLEAN, val : BOOLEAN]]
        BY <1>1 DEF MoveTypeOK
      <4> QED BY <1>1, <1>5, <3>2, <4>1
    <3>4. \A q \in {o, g} : q # p => point'[q] = point[q]
      BY <1>1, <3>2 DEF MoveTypeOK
    <3>5. point'[p] = [of |-> d, rec |-> FALSE, val |-> FALSE]
      BY <3>1, <3>3 DEF NoPoint
    <3> QED BY <1>1, <3>1, <3>4, <3>5
  <2> QED BY <2>1, <2>2
<1>11. \A q \in {o, g} : /\ (Stands(q)' <=> Stands(q)) /\ (Marked(q)' <=> Marked(q)) /\ (Moving(q)' <=> Moving(q))
                         /\ (Full(q, d)' <=> Full(q, d)) /\ (Recorded(q, d)' <=> Recorded(q, d))
  <2>1. \A q \in {o, g} : (Full(q, d)' <=> Full(q, d)) /\ (Recorded(q, d)' <=> Recorded(q, d))
    BY <1>1, <1>10 DEF NoPoint, Full, Recorded
  <2> QED BY <1>9, <2>1, RootStays
<1>12. TreeFits(o, d, g)' /\ TreeFits(g, d, o)'
  BY <1>1, <1>9, <1>10 DEF TreeFits
<1>13. OnDisk(d, o, g)' /\ NothingFails(d, o, g)'
  BY <1>1, <1>2, <1>8, <1>11 DEF OnDisk, NothingFails
<1>14. Listed(d, o, g)'
  BY <1>1, <1>2, <1>8, <1>11 DEF Listed, MovesIn
<1>15. InOrder(d, o, g)' /\ Ready(d, o, g)'
  BY <1>1, <1>2, <1>8, <1>11 DEF InOrder, Ready, OldGoes, NewGoes
<1>16. ~MovesIn(o, g)'
  BY <1>2 DEF MovesIn
<1>17. DeviceInv(d, o, g)'
  BY <1>1, <1>2, <1>12, <1>13, <1>14, <1>15, <1>16 DEF DeviceInv
<1> QED BY <1>3, <1>7, <1>8, <1>9, <1>17

\* The next tree of the device, already under its id, gets the mark.
LEMMA MarkKeeps ==
  ASSUME NEW d, NEW o, NEW g, OfDevice(d, o, g), step.at = "next", step' = step,
         NEW t \in {o, g}, t \in pending, t = g => o \notin pending,
         registry[d] = t \/ (registry[d] = None /\ t = g), registry'[d] = t,
         pending' = pending \ {t}, complete' = complete \cup {t},
         root' = [root EXCEPT ![t].marked = TRUE], UNCHANGED <<mishap, point, alias, unmoved>>
  PROVE  DeviceInv(d, o, g)'
<1>1. /\ MoveTypeOK /\ d \in Dev /\ o \in Prefix /\ g \in Prefix /\ o # g /\ None \notin {d, o, g}
      /\ TreeFits(o, d, g) /\ TreeFits(g, d, o) /\ alias[d] \in {o, g}
      /\ OnDisk(d, o, g) /\ NothingFails(d, o, g) /\ Listed(d, o, g) /\ InOrder(d, o, g) /\ Ready(d, o, g)
  BY DEF OfDevice, DeviceInv
<1>2. ~MovesIn(o, g) /\ ~MovesIn(o, g)'
  BY DEF MovesIn, Moves
<1>3. PICK u \in {o, g} : u # t
  BY <1>1
<1>4. Stands(t)
  BY <1>1 DEF Listed
<1>5. /\ root'[u] = root[u] /\ root'[t].dev = root[t].dev /\ root'[t].movingTo = root[t].movingTo
      /\ root'[t].marked = TRUE
  BY <1>1, <1>3 DEF MoveTypeOK
<1>6. /\ \A p \in {o, g} : /\ (Stands(p)' <=> Stands(p)) /\ (Moving(p)' <=> Moving(p))
                           /\ (Full(p, d)' <=> Full(p, d)) /\ (Recorded(p, d)' <=> Recorded(p, d))
      /\ Marked(t)' /\ (Marked(u)' <=> Marked(u))
  BY <1>3, <1>5 DEF Stands, Marked, Moving, Full, Recorded
<1>7. TreeFits(o, d, g)' /\ TreeFits(g, d, o)'
  <2>1. TreeFits(t, d, u) /\ TreeFits(u, d, t)
    BY <1>1, <1>3
  <2>2. TreeFits(t, d, u)'
    BY <1>4, <1>5, <2>1 DEF TreeFits, Stands
  <2>3. TreeFits(u, d, t)'
    BY <1>5, <2>1 DEF TreeFits
  <2> QED BY <1>3, <2>2, <2>3
<1>8. \A p \in {o, g} : Marked(p) => Stands(p)
  BY <1>1 DEF TreeFits, NoRoot, Marked, Stands
<1>9. OnDisk(d, o, g)'
  <2>1. CASE t = o
    <3>1. Stands(g) /\ ~Marked(g) /\ Moving(g)
      BY <1>1, <2>1 DEF InOrder
    <3> QED BY <1>1, <1>3, <1>4, <1>6, <2>1, <3>1 DEF OnDisk
  <2>2. CASE t = g
    <3>1. ~Stands(o)
      BY <1>1, <1>2, <2>2 DEF InOrder, Listed
    <3> QED BY <1>1, <1>3, <1>4, <1>6, <1>8, <2>2, <3>1 DEF OnDisk
  <2> QED BY <2>1, <2>2
<1>10. NothingFails(d, o, g)'
  BY <1>1, <1>3, <1>6 DEF NothingFails
<1>11. Listed(d, o, g)'
  BY <1>1, <1>2, <1>3, <1>4, <1>6 DEF Listed, InOrder
<1>12. InOrder(d, o, g)'
  BY <1>1, <1>3, <1>4, <1>6 DEF InOrder, Listed
<1>13. Ready(d, o, g)'
  BY <1>1, <1>3, <1>4, <1>6 DEF Ready, OldGoes, NewGoes, InOrder, Listed, OnDisk
<1> QED BY <1>1, <1>2, <1>7, <1>9, <1>10, <1>11, <1>12, <1>13 DEF DeviceInv

\* The move of the next tree begins.
LEMMA MoveKeeps ==
  ASSUME NEW d, NEW o, NEW g, OfDevice(d, o, g), step.at = "next",
         NEW t \in {o, g}, NEW u \in {o, g}, t # u, t \in pending, t = g => o \notin pending,
         registry[d] = u \/ (registry[d] = None /\ u = g), registry'[d] = u,
         pending' = pending \ {t}, UNCHANGED <<mishap, root, point, alias, unmoved, complete>>,
         step' = [at |-> "journal", tree |-> t, to |-> u, fill |-> u \in complete, whole |-> FALSE]
  PROVE  DeviceInv(d, o, g)'
<1>1. /\ MoveTypeOK /\ d \in Dev /\ o \in Prefix /\ g \in Prefix /\ o # g /\ None \notin {d, o, g}
      /\ TreeFits(t, d, u) /\ TreeFits(u, d, t) /\ alias[d] \in {o, g}
      /\ OnDisk(d, o, g) /\ NothingFails(d, o, g) /\ Listed(d, o, g) /\ InOrder(d, o, g) /\ Ready(d, o, g)
  BY DEF OfDevice, DeviceInv
<1>2. /\ step'.at = "journal" /\ step'.tree = t /\ step'.to = u /\ step'.fill = (u \in complete)
      /\ step'.whole = FALSE /\ MovesIn(o, g)' /\ ~MovesIn(o, g)
  BY DEF MovesIn, Moves
<1>3. \A p \in {o, g} : /\ (Stands(p)' <=> Stands(p)) /\ (Marked(p)' <=> Marked(p)) /\ (Moving(p)' <=> Moving(p))
                        /\ (Full(p, d)' <=> Full(p, d)) /\ (Recorded(p, d)' <=> Recorded(p, d))
  BY RootStays, PointStays
<1>4. TreeFits(t, d, u)' /\ TreeFits(u, d, t)'
  BY <1>1 DEF TreeFits
<1>5. OnDisk(d, o, g)' /\ NothingFails(d, o, g)'
  BY <1>1, <1>3 DEF OnDisk, NothingFails
<1>6. t \notin complete /\ t \notin unmoved /\ Stands(t) /\ (u \in complete => u \notin pending)
  BY <1>1, <1>2 DEF Listed, InOrder
<1>7. Listed(d, o, g)'
  BY <1>1, <1>2, <1>3, <1>6 DEF Listed
<1>8. InOrder(d, o, g)'
  BY <1>1, <1>2, <1>3, <1>6 DEF InOrder
<1>9. Ready(d, o, g)'
  BY <1>1, <1>2, <1>3, <1>6 DEF Ready, InOrder, OldGoes, NewGoes
<1>10. Route(d, o, g, t, u)' /\ Leaves(d, t, u)'
  BY <1>1, <1>2, <1>3, <1>6 DEF Route, Leaves
<1>11. Copies(d, o, g, t, u)'
  BY <1>1, <1>2, <1>3, <1>6 DEF Copies, Ready, OldGoes, NewGoes, InOrder
<1>12. OnTheWay(d, o, g, t, u)'
  BY <1>1, <1>2, <1>4, <1>5, <1>7, <1>8, <1>9, <1>10, <1>11 DEF OnTheWay
<1> QED BY <1>12, WayKeeps

\* A start: the tree of a device is one with the mark, or the target of a move not finished.
LEMMA StartKeeps ==
  ASSUME NEW d, NEW o, NEW g, OfDevice(d, o, g), step.at = "down", step'.at = "next", step'.tree = None,
         UNCHANGED <<mishap, root, point, alias>>, o \notin unmoved', g \notin unmoved',
         registry'[d] \in {None, o, g},
         NEW r \in {None, o, g},
         r # None => Marked(r) /\ ~Moving(r) /\ registry'[d] = r,
         r = None => \A p \in {o, g} : ~(Marked(p) /\ ~Moving(p)),
         r = None /\ registry'[d] # None =>
           \E p \in {o, g} : Stands(p) /\ ~Marked(p) /\ Moving(p) /\ registry'[d] \in {o, g} \ {p},
         r = None /\ registry'[d] = None => \A p \in {o, g} : ~(Stands(p) /\ ~Marked(p) /\ Moving(p)),
         \A p \in {o, g} : /\ p \in complete' <=> r = p
                           /\ p \in pending' <=> Stands(p) /\ r # p
  PROVE  DeviceInv(d, o, g)'
<1>1. /\ MoveTypeOK /\ d \in Dev /\ o \in Prefix /\ g \in Prefix /\ o # g /\ None \notin {d, o, g}
      /\ TreeFits(o, d, g) /\ TreeFits(g, d, o) /\ alias[d] \in {o, g}
      /\ OnDisk(d, o, g) /\ NothingFails(d, o, g)
  BY DEF OfDevice, DeviceInv
<1>2. ~MovesIn(o, g)'
  BY DEF MovesIn, Moves
<1>3. \A p \in {o, g} : /\ (Stands(p)' <=> Stands(p)) /\ (Marked(p)' <=> Marked(p)) /\ (Moving(p)' <=> Moving(p))
                        /\ (Full(p, d)' <=> Full(p, d)) /\ (Recorded(p, d)' <=> Recorded(p, d))
  BY RootStays, PointStays
<1>4. TreeFits(o, d, g)' /\ TreeFits(g, d, o)'
  BY <1>1 DEF TreeFits
<1>5. \A p \in {o, g} : Marked(p) \/ Moving(p) => Stands(p)
  BY <1>1 DEF TreeFits, NoRoot, Marked, Moving, Stands
<1>6. \A p \in {o, g} : Full(p, d) => Recorded(p, d)
  BY FullIsRecorded
<1>7. OnDisk(d, o, g)' /\ NothingFails(d, o, g)'
  BY <1>1, <1>3, <1>5 DEF OnDisk, NothingFails
<1>8. Listed(d, o, g)'
  BY <1>1, <1>2, <1>3, <1>5 DEF Listed, OnDisk
<1>9. InOrder(d, o, g)'
  BY <1>1, <1>3, <1>5 DEF InOrder, OnDisk
<1>10. Ready(d, o, g)'
  BY <1>1, <1>3, <1>5, <1>6 DEF Ready, OldGoes, NewGoes, OnDisk
<1> QED BY <1>1, <1>2, <1>4, <1>7, <1>8, <1>9, <1>10 DEF DeviceInv

\* What a step changes at one device leaves the others as they are.
LEMMA OneMoves ==
  ASSUME MoveInv, NEW d \in Dev, mishap' = mishap, step.at # "down",
         step.at \in Moves => step.tree \in TreesOf(d),
         step'.at \in Moves => step'.tree \in TreesOf(d),
         \A e \in Dev \ {d} : registry'[e] = registry[e] /\ alias'[e] = alias[e],
         \A p \in Prefix \ TreesOf(d) : Kept(p), pending' \subseteq pending,
         DeviceInv(d, Old(d), New(d))'
  PROVE  OthersEmpty' /\ \A e \in Dev : DeviceInv(e, Old(e), New(e))'
<1>1. \A e \in Dev : New(e)' = New(e) /\ TreesOf(e)' = TreesOf(e)
  BY DEF New, TreesOf, Long
<1>2. OthersEmpty'
  BY <1>1 DEF MoveInv, OthersEmpty, Kept
<1>3. ASSUME NEW e \in Dev, e # d
      PROVE  DeviceInv(e, Old(e), New(e))'
  <2>1. PICK g : g = New(e)
    OBVIOUS
  <2>2. /\ Old(e) \in Prefix \ TreesOf(d) /\ g \in Prefix \ TreesOf(d)
        /\ TreesOf(e) \cap TreesOf(d) = {} /\ TreesOf(e) = {Old(e), g}
    BY <1>3, <2>1, TreesAreOwn DEF TreesOf
  <2>3. ~MovesIn(Old(e), g) /\ ~MovesIn(Old(e), g)'
    BY <2>2 DEF MovesIn
  <2>4. DeviceInv(e, Old(e), g)
    BY <2>1 DEF MoveInv
  <2>5. DeviceInv(e, Old(e), g)'
    BY <1>3, <2>2, <2>3, <2>4, Untouched
  <2> QED BY <1>1, <2>1, <2>5
<1> QED BY <1>2, <1>3

\* The device whose tree is moved.
LEMMA TreesDevice ==
  ASSUME MoveInv, NEW p \in Prefix, root[p].dev # None
  PROVE  root[p].dev \in Dev /\ p \in TreesOf(root[p].dev)
<1>1. PICK d \in Dev : p \in TreesOf(d)
  BY DEF MoveInv, OthersEmpty, NoRoot
<1>2. TreeFits(Old(d), d, New(d)) /\ TreeFits(New(d), d, Old(d))
  BY DEF MoveInv, DeviceInv
<1> QED BY <1>1, <1>2 DEF TreesOf, TreeFits

\* Each device has two trees of its own, about which the invariant speaks.
LEMMA DevicesAre ==
  ASSUME MoveInv, NEW d \in Dev, NEW g, g = New(d)
  PROVE  OfDevice(d, Old(d), g) /\ TreesOf(d) = {Old(d), g}
BY TreesAreOwn DEF MoveInv, OfDevice, TreesOf

\* A call of the move under way.
LEMMA CallsKeep ==
  ASSUME MoveInv, MoveCall
  PROVE  OthersEmpty' /\ \A e \in Dev : DeviceInv(e, Old(e), New(e))'
<1>1. step.at \in Moves
  BY DEF MoveCall, writeJournal, readObjects, copyPoint, copyRoot, copyValues, retargetAliases, markRoot, readRooms,
         deletePoint, deleteRoot, writeRooms, At, Moves
<1>2. PICK d \in Dev : step.tree \in TreesOf(d)
  BY <1>1 DEF MoveInv, StepFits
<1>3. PICK g : g = New(d)
  OBVIOUS
<1>4. OfDevice(d, Old(d), g) /\ TreesOf(d) = {Old(d), g} /\ MovesIn(Old(d), g) /\ MoveTypeOK
  BY <1>1, <1>2, <1>3, DevicesAre DEF MovesIn, MoveInv
<1>5. PICK t \in {Old(d), g}, u \in {Old(d), g} : OnTheWay(d, Old(d), g, t, u)
  BY <1>4, IsOnTheWay
<1>6. t = step.tree /\ u = step.to /\ alias[d] \in {Old(d), g} /\ t # u
  BY <1>5 DEF OnTheWay, Route
<1>7. mishap' = mishap /\ UNCHANGED <<registry, unmoved, pending>>
  BY DEF MoveCall, writeJournal, readObjects, copyPoint, copyRoot, copyValues, retargetAliases, markRoot, readRooms,
         deletePoint, deleteRoot, writeRooms
<1>8. DeviceInv(d, Old(d), g)' /\ (step'.at \in Moves => step'.tree \in TreesOf(d))
  <2>1. CASE writeRooms
    BY <1>4, <2>1, WriteRoomsKeeps DEF writeRooms, Idle, Moves
  <2>2. CASE MoveCall /\ ~writeRooms
    <3>1. Calls(d, Old(d), g, t, u)
      BY <1>4, <1>5, <2>2 DEF Calls, MoveCall, writeJournal, readObjects, copyPoint, copyRoot, copyValues,
         retargetAliases, markRoot, readRooms, deletePoint, deleteRoot
    <3>2. OnTheWay(d, Old(d), g, t, u)'
      BY <2>2, <3>1, WriteJournalKeeps, OnlyStepKeeps, CopyPointKeeps, CopyRootKeeps, CopyValuesKeeps, RetargetKeeps,
         MarkRootKeeps, DeletePointKeeps, DeleteRootKeeps DEF MoveCall
    <3> QED BY <1>4, <3>2, WayKeeps DEF OnTheWay, MovesIn
  <2> QED BY <2>1, <2>2
<1>9. \A p \in Prefix \ TreesOf(d) : Kept(p)
  <2>1. \A p \in Prefix \ TreesOf(d) : root'[p] = root[p] /\ point'[p] = point[p]
    BY <1>4, <1>5, <1>6 DEF MoveTypeOK, MoveCall, writeJournal, readObjects, copyPoint, copyRoot, copyValues,
         retargetAliases, markRoot, readRooms, deletePoint, deleteRoot, writeRooms
  <2>2. \A p \in Prefix \ TreesOf(d) : p \in complete' <=> p \in complete
    BY <1>4, <1>5, <1>6 DEF MoveCall, writeJournal, readObjects, copyPoint, copyRoot, copyValues,
         retargetAliases, markRoot, readRooms, deletePoint, deleteRoot, writeRooms
  <2> QED BY <1>7, <2>1, <2>2 DEF Kept
<1>10. \A e \in Dev \ {d} : registry'[e] = registry[e] /\ alias'[e] = alias[e]
  <2>1. \A e \in Dev \ {d} : alias[e] # step.tree
    BY <1>2, TreesAreOwn DEF MoveInv, DeviceInv, TreesOf
  <2>2. \A e \in Dev \ {d} : alias'[e] = alias[e]
    BY <2>1 DEF MoveCall, writeJournal, readObjects, copyPoint, copyRoot, copyValues, retargetAliases, markRoot,
         readRooms, deletePoint, deleteRoot, writeRooms
  <2> QED BY <1>7, <2>2
<1>11. DeviceInv(d, Old(d), New(d))'
  BY <1>3, <1>7, <1>8 DEF New, Long
<1> QED BY <1>1, <1>2, <1>7, <1>8, <1>9, <1>10, <1>11, OneMoves DEF Moves

\* The registry gives each device a tree of its own.
LEMMA RegistryIsOwn ==
  ASSUME MoveInv
  PROVE  /\ registry \in [Dev -> OptPrefix]
         /\ \A e \in Dev : registry[e] \in {None} \cup TreesOf(e)
         /\ \A d, e \in Dev : d # e => \A p \in TreesOf(d) : registry[e] # p
<1>1. registry \in [Dev -> OptPrefix]
  BY DEF MoveInv, MoveTypeOK
<1>2. \A e \in Dev : registry[e] \in {None} \cup TreesOf(e)
  <2>1. CASE step.at = "down"
    BY <2>1 DEF MoveInv, StepFits
  <2>2. CASE step.at # "down"
    BY <2>2 DEF MoveInv, DeviceInv, Listed, TreesOf
  <2> QED BY <2>1, <2>2
<1>3. ASSUME NEW d \in Dev, NEW e \in Dev, d # e, NEW p \in TreesOf(d)
      PROVE  registry[e] # p
  BY <1>2, <1>3, TreesAreOwn DEF TreesOf
<1> QED BY <1>1, <1>2, <1>3

\* A failed call changes nothing but the registry and the list of trees left behind.
LEMMA FailsKeep ==
  ASSUME MoveInv, MoveFails
  PROVE  OthersEmpty' /\ \A e \in Dev : DeviceInv(e, Old(e), New(e))'
<1>1. step.at \in Moves /\ step.at # "rooms" /\ step.at # "plan"
  BY DEF MoveFails, Moves
<1>2. PICK d \in Dev : step.tree \in TreesOf(d)
  BY <1>1 DEF MoveInv, StepFits
<1>3. PICK g : g = New(d)
  OBVIOUS
<1>4. OfDevice(d, Old(d), g) /\ TreesOf(d) = {Old(d), g} /\ MovesIn(Old(d), g) /\ MoveTypeOK
  BY <1>1, <1>2, <1>3, DevicesAre DEF MovesIn, MoveInv
<1>5. PICK t \in {Old(d), g}, u \in {Old(d), g} : OnTheWay(d, Old(d), g, t, u)
  BY <1>4, IsOnTheWay
<1>6. t = step.tree /\ registry[d] = u /\ t # u /\ Stands(t) /\ TreeFits(t, d, u)
  BY <1>1, <1>5 DEF OnTheWay, Route
<1>7. mover = d
  BY <1>6 DEF TreeFits, Stands, mover
<1>8. registry' = [[registry EXCEPT ![d] = None] EXCEPT ![d] = t]
  <2>1. \A e \in Dev : [registry EXCEPT ![d] = None][e] # t
    <3>1. t # None
      BY <1>4, <1>5 DEF OfDevice
    <3> QED BY <1>4, <1>5, <3>1, RegistryIsOwn
  <2>2. [registry EXCEPT ![d] = None][d] = None
    BY RegistryIsOwn
  <2> QED BY <1>6, <1>7, <2>1, <2>2 DEF MoveFails, keepUnmoved, seed, Seeds
<1>9. registry'[d] = step.tree /\ \A e \in Dev \ {d} : registry'[e] = registry[e]
  BY <1>6, <1>8, RegistryIsOwn
<1>10. DeviceInv(d, Old(d), g)'
  BY <1>4, <1>9, FailKeeps
<1>11. /\ UNCHANGED <<mishap, alias, root, point, complete, pending>> /\ unmoved' = unmoved \cup {step.tree}
       /\ step'.at = "next"
  BY DEF MoveFails, Idle
<1>12. \A p \in Prefix \ TreesOf(d) : Kept(p)
  BY <1>2, <1>11 DEF Kept
<1>13. DeviceInv(d, Old(d), New(d))'
  BY <1>3, <1>10, <1>11 DEF New, Long
<1> QED BY <1>1, <1>2, <1>9, <1>11, <1>12, <1>13, OneMoves DEF Moves

\* A session that builds a device leaves every other one alone.
LEMMA BuildsKeep ==
  ASSUME MoveInv, NEW d \in Dev, Build(d)
  PROVE  OthersEmpty' /\ \A e \in Dev : DeviceInv(e, Old(e), New(e))'
<1>1. PICK g : g = New(d)
  OBVIOUS
<1>2. OfDevice(d, Old(d), g) /\ TreesOf(d) = {Old(d), g} /\ MoveTypeOK
  BY <1>1, DevicesAre DEF MoveInv
<1>3. step.at = "running" /\ pending = {} /\ UNCHANGED <<mishap, alias, unmoved, complete, pending, step>>
  BY DEF Build, MoveInv, StepFits
<1>4. DeviceInv(d, Old(d), g)'
  BY <1>2, <1>3, BuildKeeps
<1>5. PICK p \in {Old(d), g} : /\ root' = root /\ registry' = registry
                               /\ point' = point \/ point' = [point EXCEPT ![p].of = d]
  BY <1>2, <1>3, BuildKeeps
<1>6. \A q \in Prefix \ TreesOf(d) : Kept(q)
  BY <1>2, <1>3, <1>5 DEF Kept, MoveTypeOK
<1>7. DeviceInv(d, Old(d), New(d))'
  BY <1>1, <1>3, <1>4 DEF New, Long
<1> QED BY <1>3, <1>5, <1>6, <1>7, OneMoves DEF Moves

\* The end of the process leaves the database as it is.
LEMMA DeathsKeep ==
  ASSUME MoveInv, Dies
  PROVE  OthersEmpty' /\ \A e \in Dev : DeviceInv(e, Old(e), New(e))'
<1>1. UNCHANGED <<mishap, root, point>> /\ pending' = {}
  BY DEF Dies
<1>2. \A e \in Dev : New(e)' = New(e) /\ TreesOf(e)' = TreesOf(e)
  BY <1>1 DEF New, TreesOf, Long
<1>3. OthersEmpty'
  BY <1>1, <1>2 DEF MoveInv, OthersEmpty
<1>4. ASSUME NEW e \in Dev
      PROVE  DeviceInv(e, Old(e), New(e))'
  <2>1. PICK g : g = New(e)
    OBVIOUS
  <2>2. DeviceInv(e, Old(e), g)'
    BY <2>1, DevicesAre, DyingKeeps
  <2> QED BY <1>2, <2>1, <2>2
<1> QED BY <1>3, <1>4

\* Once every tree has been looked at, nothing is left to move.
LEMMA EndKeeps ==
  ASSUME MoveInv, StartEnds
  PROVE  OthersEmpty' /\ \A e \in Dev : DeviceInv(e, Old(e), New(e))'
<1>1. /\ step.at = "next" /\ step'.at = "running"
      /\ UNCHANGED <<mishap, root, point, alias, registry, unmoved, complete, pending>>
  BY DEF StartEnds, Idle
<1>2. \A e \in Dev : New(e)' = New(e) /\ TreesOf(e)' = TreesOf(e)
  BY <1>1 DEF New, TreesOf, Long
<1>3. OthersEmpty'
  BY <1>1, <1>2 DEF MoveInv, OthersEmpty
<1>4. ASSUME NEW e \in Dev
      PROVE  DeviceInv(e, Old(e), New(e))'
  <2>1. PICK g : g = New(e)
    OBVIOUS
  <2>2. DeviceInv(e, Old(e), g) /\ Kept(Old(e)) /\ Kept(g)
    BY <1>1, <2>1 DEF MoveInv, Kept
  <2>3. ~MovesIn(Old(e), g) /\ ~MovesIn(Old(e), g)'
    BY <1>1 DEF MovesIn, Moves
  <2>4. DeviceInv(e, Old(e), g)'
    BY <1>1, <2>2, <2>3, Untouched
  <2> QED BY <1>2, <2>1, <2>4
<1> QED BY <1>3, <1>4

\* The id a device is moved to is one of its own, and nobody else's: the registry's, or
\* the new one.
LEMMA TargetIs ==
  ASSUME MoveInv, step.at = "next", NEW t \in pending, \A u \in pending : Sorted(t, u), NEW d \in Dev, root[t].dev = d
  PROVE  /\ prefixFor(registry, d) = IF registry[d] = None THEN New(d) ELSE registry[d]
         /\ seed(registry, d, prefixFor(registry, d)) = [registry EXCEPT ![d] = prefixFor(registry, d)]
<1>1. \A e \in Dev : New(e) # None /\ Old(e) # None
  BY TreesAreOwn
<1>2. ASSUME registry[d] = None
      PROVE  deviceIdFor(registry, d) = New(d)
  <2>1. CASE ~mishap.collide
    <3>1. Short(d) = New(d)
      BY <2>1 DEF Short, New
    <3>2. \A e \in Dev : registry[e] # Short(d)
      BY <1>1, <1>2, <3>1, RegistryIsOwn DEF TreesOf
    <3> QED BY <3>1, <3>2 DEF deviceIdFor
  <2>2. CASE mishap.collide /\ d = 1
    <3>1. Short(d) = New(d)
      BY <2>2 DEF Short, New
    <3>2. \A e \in Dev : registry[e] # Short(d)
      BY <1>1, <1>2, <3>1, RegistryIsOwn DEF TreesOf
    <3> QED BY <3>1, <3>2 DEF deviceIdFor
  <2>3. CASE mishap.collide /\ d # 1
    <3>1. 1 \in Dev /\ d \in Int /\ ~(d <= 1)
      BY <2>3, MoveAssumption
    <3>2. New(d) = Long(d) /\ New(1) = Short(d)
      BY <2>3, <3>1 DEF New, Short
    <3>3. DeviceInv(1, Old(1), New(1)) /\ ~mishap.fails
      BY <2>3, <3>1 DEF MoveInv, StepFits
    <3>4. Old(1) \notin pending /\ New(1) \notin pending
      <4>1. \A p \in {Old(1), New(1)} : p \in pending => root[p].dev = 1
        BY <3>3 DEF DeviceInv, Listed, TreeFits, Stands
      <4>2. \A u \in pending : d <= root[u].dev
        BY DEF Sorted
      <4>3. \A u \in pending : root[u].dev # 1
        BY <3>1, <4>2
      <4> QED BY <4>1, <4>3
    <3>5. registry[1] = New(1)
      BY <3>3, <3>4 DEF DeviceInv, Listed, NothingFails
    <3>6. ~\A e \in Dev : registry[e] # Short(d)
      BY <3>1, <3>2, <3>5
    <3> QED BY <3>2, <3>6 DEF deviceIdFor
  <2> QED BY <2>1, <2>2, <2>3
<1>3. prefixFor(registry, d) = IF registry[d] = None THEN New(d) ELSE registry[d]
  BY <1>2 DEF prefixFor
<1>4. CASE registry[d] # None
  BY <1>3, <1>4, RegistryIsOwn DEF seed, Seeds
<1>5. CASE registry[d] = None
  <2>1. \A e \in Dev : registry[e] # New(d)
    BY <1>1, <1>5, RegistryIsOwn DEF TreesOf
  <2> QED BY <1>3, <1>5, <2>1 DEF seed, Seeds
<1> QED BY <1>3, <1>4, <1>5

\* The next tree of the list gets the mark, or its move begins.
LEMMA NextKeeps ==
  ASSUME MoveInv, NextTree
  PROVE  OthersEmpty' /\ \A e \in Dev : DeviceInv(e, Old(e), New(e))'
<1>1. PICK t \in pending :
        /\ \A u \in pending : Sorted(t, u)
        /\ LET d == root[t].dev
               to == prefixFor(registry, d)
           IN /\ pending' = pending \ {t}
              /\ registry' = seed(registry, d, to)
              /\ IF to = t
                 THEN /\ root' = [root EXCEPT ![t].marked = TRUE]
                      /\ complete' = complete \cup {t}
                      /\ UNCHANGED step
                 ELSE /\ step' = [at |-> "journal", tree |-> t, to |-> to, fill |-> to \in complete, whole |-> FALSE]
                      /\ UNCHANGED <<root, complete>>
  BY DEF NextTree
<1>2. step.at = "next" /\ UNCHANGED <<mishap, point, alias, unmoved>> /\ MoveTypeOK
  BY DEF NextTree, MoveInv
<1>3. PICK d \in Dev : t \in TreesOf(d) /\ root[t].dev = d /\ t \in Prefix
  <2>1. PICK d \in Dev : t \in TreesOf(d)
    BY DEF MoveInv, OthersEmpty
  <2>2. DeviceInv(d, Old(d), New(d)) /\ Listed(d, Old(d), New(d))
    BY <1>2 DEF MoveInv, DeviceInv
  <2>3. Stands(t)
    BY <2>1, <2>2 DEF Listed, TreesOf
  <2> QED BY <2>1, <2>2, <2>3, TreesAreOwn DEF TreesOf, DeviceInv, TreeFits, Stands
<1>4. PICK g : g = New(d)
  OBVIOUS
<1>5. OfDevice(d, Old(d), g) /\ TreesOf(d) = {Old(d), g}
  BY <1>4, DevicesAre
<1>6. PICK to : to = prefixFor(registry, d)
  OBVIOUS
<1>7. /\ to = IF registry[d] = None THEN g ELSE registry[d]
      /\ registry' = [registry EXCEPT ![d] = to] /\ to \in {Old(d), g}
  BY <1>1, <1>2, <1>3, <1>4, <1>5, <1>6, TargetIs, RegistryIsOwn
<1>8. registry'[d] = to /\ \A e \in Dev \ {d} : registry'[e] = registry[e]
  BY <1>7, RegistryIsOwn
<1>9. t = g => Old(d) \notin pending
  <2>1. DeviceInv(d, Old(d), g) /\ g # Old(d) /\ None \notin Dev
    BY <1>5, TreesAreOwn DEF OfDevice
  <2>2. Old(d) \in pending => root[Old(d)].dev = d
    BY <1>2, <2>1 DEF DeviceInv, Listed, TreeFits, Stands
  <2>3. g[1] # "old"
    BY <1>4 DEF New, Long
  <2> QED BY <1>1, <1>3, <2>2, <2>3 DEF Sorted, Old
<1>10. DeviceInv(d, Old(d), g)' /\ (step'.at \in Moves => step'.tree \in TreesOf(d))
  <2>1. CASE to = t
    <3>1. /\ root' = [root EXCEPT ![t].marked = TRUE] /\ complete' = complete \cup {t} /\ step' = step
          /\ pending' = pending \ {t}
      BY <1>1, <1>3, <1>6, <2>1
    <3>2. DeviceInv(d, Old(d), g)'
      BY <1>2, <1>3, <1>5, <1>7, <1>8, <1>9, <2>1, <3>1, MarkKeeps
    <3> QED BY <1>2, <3>1, <3>2 DEF Moves
  <2>2. CASE to # t
    <3>1. /\ step' = [at |-> "journal", tree |-> t, to |-> to, fill |-> to \in complete, whole |-> FALSE]
          /\ UNCHANGED <<root, complete>> /\ pending' = pending \ {t}
      BY <1>1, <1>3, <1>6, <2>2
    <3>2. DeviceInv(d, Old(d), g)'
      BY <1>2, <1>3, <1>5, <1>7, <1>8, <1>9, <2>2, <3>1, MoveKeeps
    <3> QED BY <1>3, <3>1, <3>2
  <2> QED BY <2>1, <2>2
<1>11. \A p \in Prefix \ TreesOf(d) : Kept(p)
  <2>1. \A p \in Prefix \ TreesOf(d) : p # t
    BY <1>3
  <2>2. \A p \in Prefix \ TreesOf(d) : root'[p] = root[p] /\ (p \in complete' <=> p \in complete)
    BY <1>1, <1>2, <1>3, <2>1 DEF MoveTypeOK
  <2> QED BY <1>1, <1>2, <2>1, <2>2 DEF Kept
<1>12. DeviceInv(d, Old(d), New(d))' /\ pending' \subseteq pending
  BY <1>1, <1>2, <1>4, <1>10 DEF New, Long
<1> QED BY <1>2, <1>8, <1>10, <1>11, <1>12, OneMoves DEF Moves

\* What a start learns from the database: a tree with the mark, or else the target of a
\* move that was not finished.
LEMMA FirstSeedsAre ==
  ASSUME MoveInv, NEW d \in Dev
  PROVE  /\ FirstSeeds[d] \in {None} \cup TreesOf(d)
         /\ FirstSeeds[d] # None => Stands(FirstSeeds[d]) /\ Marked(FirstSeeds[d]) /\ ~Moving(FirstSeeds[d])
         /\ FirstSeeds[d] = None => \A p \in TreesOf(d) : ~(Marked(p) /\ ~Moving(p))
<1> DEFINE Known == {p \in Trees : IsMarked(p) /\ root[p].dev = d}
<1>1. FirstSeeds[d] = IF Known = {} THEN None ELSE FirstListed(Known)
  BY DEF FirstSeeds
<1>2. \A p \in Known : p \in TreesOf(d) /\ Stands(p) /\ Marked(p) /\ ~Moving(p)
  BY TreesDevice DEF Trees, IsMarked, Stands, Marked, Moving
<1>3. \A p \in TreesOf(d) : Marked(p) /\ ~Moving(p) => p \in Known
  <2>1. TreeFits(Old(d), d, New(d)) /\ TreeFits(New(d), d, Old(d)) /\ None # d /\ TreesOf(d) \subseteq Prefix
    BY TreesAreOwn DEF MoveInv, DeviceInv, TreesOf
  <2> QED BY <2>1 DEF TreeFits, TreesOf, NoRoot, Trees, IsMarked, Marked, Moving
<1>4. None \notin TreesOf(d)
  BY TreesAreOwn DEF TreesOf
<1>5. Known # {} => FirstListed(Known) \in Known
  BY DEF FirstListed
<1> HIDE DEF Known
<1> QED BY <1>1, <1>2, <1>3, <1>4, <1>5

\* The journals of a device are those of its own trees without the mark.
LEMMA JournalsAre ==
  ASSUME MoveInv, NEW d \in Dev
  PROVE  \A p \in Prefix : p \in Journal(d) <=> p \in TreesOf(d) /\ Stands(p) /\ ~Marked(p) /\ Moving(p)
<1>1. /\ TreeFits(Old(d), d, New(d)) /\ TreeFits(New(d), d, Old(d)) /\ None # d /\ Old(d) # New(d)
      /\ Old(d) # None /\ New(d) # None
  BY TreesAreOwn DEF MoveInv, DeviceInv
<1>2. ASSUME NEW p \in Prefix, p \in Journal(d)
      PROVE  p \in TreesOf(d) /\ Stands(p) /\ ~Marked(p) /\ Moving(p)
  BY <1>2, TreesDevice DEF Journal, Trees, Stands, Marked, Moving
<1>3. ASSUME NEW p \in Prefix, p \in TreesOf(d), Stands(p), ~Marked(p), Moving(p)
      PROVE  p \in Journal(d)
  BY <1>1, <1>3 DEF TreesOf, TreeFits, Journal, Trees, Stands, Marked, Moving
<1> QED BY <1>2, <1>3

\* No other device claims what the journal of a device names.
LEMMA JournalSeedsAre ==
  ASSUME MoveInv, NEW d \in Dev
  PROVE  /\ FirstSeeds[d] # None => JournalSeeds(FirstSeeds)[d] = FirstSeeds[d]
         /\ FirstSeeds[d] = None /\ Journal(d) = {} => JournalSeeds(FirstSeeds)[d] = None
         /\ FirstSeeds[d] = None /\ Journal(d) # {} =>
              \E p \in Journal(d) : JournalSeeds(FirstSeeds)[d] = root[p].movingTo
<1> DEFINE Free == {p \in Journal(d) : /\ \A e \in Dev : FirstSeeds[e] # root[p].movingTo
                                       /\ \A e \in 1..(d - 1) : \A q \in Journal(e) :
                                            root[q].movingTo # root[p].movingTo}
<1>1. JournalSeeds(FirstSeeds)[d] =
        IF FirstSeeds[d] = None /\ Free # {} THEN root[FirstListed(Free)].movingTo ELSE FirstSeeds[d]
  BY DEF JournalSeeds
<1>2. \A e \in Dev : \A p \in Journal(e) : root[p].movingTo \in TreesOf(e)
  <2>1. \A e \in Dev : \A p \in Journal(e) : p \in Prefix /\ p \in TreesOf(e) /\ root[p].movingTo # None
    BY JournalsAre DEF Journal, Trees, Moving
  <2>2. \A e \in Dev : TreeFits(Old(e), e, New(e)) /\ TreeFits(New(e), e, Old(e))
    BY DEF MoveInv, DeviceInv
  <2> QED BY <2>1, <2>2 DEF TreeFits, TreesOf
<1>3. \A e \in 1..(d - 1) : e \in Dev /\ e # d
  BY MoveAssumption
<1>4. FirstSeeds[d] = None => Free = Journal(d)
  <2>1. \A e \in Dev \ {d} : FirstSeeds[e] \in {None} \cup TreesOf(e)
    BY FirstSeedsAre
  <2>2. ASSUME FirstSeeds[d] = None, NEW p \in Journal(d)
        PROVE  p \in Free
    <3>1. root[p].movingTo \in TreesOf(d) /\ root[p].movingTo # None
      BY <1>2, TreesAreOwn DEF TreesOf
    <3>2. \A e \in Dev : FirstSeeds[e] # root[p].movingTo
      BY <2>1, <2>2, <3>1, TreesAreOwn
    <3>3. \A e \in 1..(d - 1) : \A q \in Journal(e) : root[q].movingTo # root[p].movingTo
      BY <1>2, <1>3, <3>1, TreesAreOwn
    <3> QED BY <3>2, <3>3
  <2> QED BY <2>2
<1>5. Free # {} => FirstListed(Free) \in Free
  BY DEF FirstListed
<1> HIDE DEF Free
<1> QED BY <1>1, <1>4, <1>5

\* A start takes what the database holds for the lists it works with.
LEMMA StartsKeep ==
  ASSUME MoveInv, Start
  PROVE  OthersEmpty' /\ \A e \in Dev : DeviceInv(e, Old(e), New(e))'
<1> DEFINE Known == {p \in Trees : IsMarked(p) /\ FirstSeeds[root[p].dev] = p}
<1>1. /\ step.at = "down" /\ step'.at = "next" /\ step'.tree = None /\ UNCHANGED <<mishap, root, point, alias>>
      /\ unmoved' = {} /\ registry' = JournalSeeds(FirstSeeds) /\ complete' = Known /\ pending' = Trees \ Known
  BY DEF Start, Idle
<1>2. \A e \in Dev : New(e)' = New(e) /\ TreesOf(e)' = TreesOf(e)
  BY <1>1 DEF New, TreesOf, Long
<1>3. OthersEmpty'
  <2>1. \A p \in pending' : p \in Prefix /\ root[p].dev # None
    BY <1>1 DEF Trees
  <2> QED BY <1>1, <1>2, <2>1, TreesDevice DEF MoveInv, OthersEmpty
<1>4. ASSUME NEW d \in Dev
      PROVE  DeviceInv(d, Old(d), New(d))'
  <2>1. PICK g : g = New(d)
    OBVIOUS
  <2>2. PICK r : r = FirstSeeds[d]
    OBVIOUS
  <2>3. OfDevice(d, Old(d), g) /\ TreesOf(d) = {Old(d), g} /\ r \in {None, Old(d), g}
    BY <2>1, <2>2, DevicesAre, FirstSeedsAre
  <2>4. /\ r # None => Marked(r) /\ ~Moving(r) /\ registry'[d] = r
        /\ r = None => \A p \in {Old(d), g} : ~(Marked(p) /\ ~Moving(p))
    BY <1>1, <2>2, <2>3, FirstSeedsAre, JournalSeedsAre
  <2>5. \A p \in {Old(d), g} : p \in Journal(d) <=> Stands(p) /\ ~Marked(p) /\ Moving(p)
    BY <2>3, JournalsAre DEF OfDevice
  <2>6. \A p \in {Old(d), g} : Moving(p) => root[p].movingTo \in {Old(d), g} \ {p}
    BY <2>3 DEF OfDevice, DeviceInv, TreeFits, Moving
  <2>7. Journal(d) \subseteq {Old(d), g}
    BY <2>3, JournalsAre DEF Journal, Trees
  <2>8. /\ r = None /\ registry'[d] # None =>
             \E p \in {Old(d), g} : Stands(p) /\ ~Marked(p) /\ Moving(p) /\ registry'[d] \in {Old(d), g} \ {p}
        /\ r = None /\ registry'[d] = None => \A p \in {Old(d), g} : ~(Stands(p) /\ ~Marked(p) /\ Moving(p))
        /\ registry'[d] \in {None, Old(d), g}
    <3>1. CASE r # None
      BY <2>3, <2>4, <3>1
    <3>2. CASE r = None /\ Journal(d) = {}
      BY <1>1, <2>2, <2>5, <3>2, JournalSeedsAre
    <3>3. CASE r = None /\ Journal(d) # {}
      <4>1. PICK p \in Journal(d) : registry'[d] = root[p].movingTo
        BY <1>1, <2>2, <3>3, JournalSeedsAre
      <4>2. p \in {Old(d), g} /\ Stands(p) /\ ~Marked(p) /\ Moving(p) /\ registry'[d] \in {Old(d), g} \ {p}
        BY <2>5, <2>6, <2>7, <4>1
      <4> QED BY <2>3, <3>3, <4>2 DEF OfDevice
    <3> QED BY <3>1, <3>2, <3>3
  <2>9. \A p \in {Old(d), g} : /\ p \in complete' <=> r = p
                               /\ p \in pending' <=> Stands(p) /\ r # p
    <3>1. \A p \in {Old(d), g} : p \in Trees <=> Stands(p)
      BY <2>3 DEF OfDevice, Trees, Stands
    <3>2. \A p \in {Old(d), g} : Stands(p) => root[p].dev = d
      BY <2>3 DEF OfDevice, DeviceInv, TreeFits, Stands
    <3>3. \A p \in {Old(d), g} : p \in Known <=> r = p
      BY <2>2, <2>3, <3>1, <3>2, FirstSeedsAre DEF IsMarked, Marked, Moving, OfDevice
    <3> QED BY <1>1, <3>1, <3>3
  <2>10. DeviceInv(d, Old(d), g)'
    BY <1>1, <2>3, <2>4, <2>8, <2>9, StartKeeps
  <2> QED BY <1>2, <2>1, <2>10
<1> QED BY <1>3, <1>4

-----------------------------------------------------------------------------
RootsOK == root \in [Prefix -> [dev : Dev \cup {None}, marked : BOOLEAN, movingTo : OptPrefix]]
PointsOK == point \in [Prefix -> [of : Dev \cup {None}, rec : BOOLEAN, val : BOOLEAN]]
StepOK == step \in [at : Place, tree : OptPrefix, to : OptPrefix, fill : BOOLEAN, whole : BOOLEAN]
ListsOK ==
  /\ mishap \in Mishaps /\ starts \in 0..MaxStarts
  /\ alias \in [Dev -> Prefix] /\ room \in [Dev -> OptPrefix]
  /\ registry \in [Dev -> OptPrefix] /\ plan \subseteq Dev
  /\ unmoved \subseteq Prefix /\ complete \subseteq Prefix /\ pending \subseteq Prefix

\* An id handed out is one of the devices'.
LEMMA SeedsAre ==
  ASSUME NEW r \in [Dev -> OptPrefix], NEW d \in Dev
  PROVE  /\ \A p \in Prefix : seed(r, d, p) \in [Dev -> OptPrefix] /\ keepUnmoved(r, d, p) \in [Dev -> OptPrefix]
         /\ Dev # {} => prefixFor(r, d) \in Prefix
<1>1. \A p \in Prefix : seed(r, d, p) \in [Dev -> OptPrefix] /\ keepUnmoved(r, d, p) \in [Dev -> OptPrefix]
  BY DEF seed, keepUnmoved, OptPrefix
<1>2. \A e \in Dev : Short(e) \in Prefix /\ Long(e) \in Prefix
  <2>1. \A e \in Dev : <<"short", e>> \in Prefix /\ <<"long", e>> \in Prefix /\ 1 \in Dev
    BY MoveAssumption DEF Prefix
  <2> QED BY <2>1 DEF Short, Long
<1>3. prefixFor(r, d) \in Prefix
  BY <1>2 DEF prefixFor, deviceIdFor, OptPrefix
<1> QED BY <1>1, <1>3

\* No step leaves the types.
LEMMA MoveTypesKept ==
  ASSUME MoveInv, MoveNext
  PROVE  MoveTypeOK'
<1>1. RootsOK /\ PointsOK /\ StepOK /\ ListsOK
  BY DEF MoveInv, MoveTypeOK, RootsOK, PointsOK, StepOK, ListsOK
<1>2. \A a \in Place : \A w \in BOOLEAN : [step EXCEPT !.at = a, !.whole = w] \in [at : Place, tree : OptPrefix,
        to : OptPrefix, fill : BOOLEAN, whole : BOOLEAN]
  BY <1>1 DEF StepOK
<1>3. \A a \in Place : Idle(a) \in [at : Place, tree : OptPrefix, to : OptPrefix, fill : BOOLEAN, whole : BOOLEAN]
  BY DEF Idle, OptPrefix
<1>4. MoveTypeOK' <=> RootsOK' /\ PointsOK' /\ StepOK' /\ ListsOK'
  BY DEF MoveTypeOK, RootsOK, PointsOK, StepOK, ListsOK
<1>5. CASE Start
  <2>1. JournalSeeds(FirstSeeds) \in [Dev -> OptPrefix]
    <3>1. \A d \in Dev : FirstSeeds[d] \in OptPrefix
      BY FirstSeedsAre, TreesAreOwn DEF TreesOf, OptPrefix
    <3>2. \A d \in Dev : \A p \in Journal(d) : root[p].movingTo \in OptPrefix
      BY <1>1 DEF Journal, Trees, RootsOK
    <3>3. \A d \in Dev : JournalSeeds(FirstSeeds)[d] \in OptPrefix
      BY <3>1, <3>2, JournalSeedsAre
    <3> QED BY <3>3 DEF JournalSeeds
  <2>2. ListsOK'
    <3>1. starts' \in 0..MaxStarts
      BY <1>1, <1>5, MoveAssumption DEF Start, ListsOK
    <3>2. unmoved' = {} /\ plan' = {} /\ complete' \subseteq Prefix /\ pending' \subseteq Prefix
      BY <1>5 DEF Start, Trees
    <3>3. registry' = JournalSeeds(FirstSeeds) /\ UNCHANGED <<mishap, alias, room>>
      BY <1>5 DEF Start
    <3> QED BY <1>1, <2>1, <3>1, <3>2, <3>3 DEF ListsOK
  <2>3. RootsOK' /\ PointsOK'
    BY <1>1, <1>5 DEF Start, RootsOK, PointsOK
  <2>4. StepOK'
    BY <1>3, <1>5 DEF Start, StepOK, Place
  <2> QED BY <1>4, <2>2, <2>3, <2>4
<1>6. CASE NextTree
  <2>1. PICK t \in pending :
          LET d == root[t].dev
              to == prefixFor(registry, d)
          IN /\ pending' = pending \ {t}
             /\ registry' = seed(registry, d, to)
             /\ IF to = t
                THEN /\ root' = [root EXCEPT ![t].marked = TRUE]
                     /\ complete' = complete \cup {t}
                     /\ UNCHANGED step
                ELSE /\ step' = [at |-> "journal", tree |-> t, to |-> to, fill |-> to \in complete, whole |-> FALSE]
                     /\ UNCHANGED <<root, complete>>
    BY <1>6 DEF NextTree
  <2>2. t \in Prefix /\ root[t].dev \in Dev
    <3>1. PICK d \in Dev : t \in TreesOf(d)
      BY DEF MoveInv, OthersEmpty
    <3>2. step.at # "down" /\ DeviceInv(d, Old(d), New(d))
      BY <1>6 DEF NextTree, MoveInv
    <3>3. t \in Prefix /\ Stands(t)
      BY <3>1, <3>2, TreesAreOwn DEF TreesOf, DeviceInv, Listed
    <3> QED BY <3>3, TreesDevice DEF Stands
  <2>3. PICK to \in Prefix : to = prefixFor(registry, root[t].dev)
    BY <1>1, <2>2, SeedsAre DEF ListsOK
  <2>4. registry' \in [Dev -> OptPrefix]
    BY <1>1, <2>1, <2>2, <2>3, SeedsAre DEF ListsOK
  <2>5. pending' \subseteq Prefix /\ complete' \subseteq Prefix
    BY <1>1, <2>1, <2>2 DEF ListsOK
  <2>6. UNCHANGED <<mishap, starts, point, alias, room, unmoved, plan>>
    BY <1>6 DEF NextTree
  <2>7. ListsOK' /\ PointsOK'
    BY <1>1, <2>4, <2>5, <2>6 DEF ListsOK, PointsOK
  <2>8. RootsOK'
    <3>1. root' = root \/ root' = [root EXCEPT ![t].marked = TRUE]
      BY <2>1, <2>3
    <3>2. CASE root' = root
      BY <1>1, <3>2 DEF RootsOK
    <3>3. CASE root' = [root EXCEPT ![t].marked = TRUE]
      BY <1>1, <2>2, <3>3 DEF RootsOK
    <3> QED BY <3>1, <3>2, <3>3
  <2>9. StepOK'
    <3>1. \/ step' = step
          \/ step' = [at |-> "journal", tree |-> t, to |-> to, fill |-> to \in complete, whole |-> FALSE]
      BY <2>1, <2>3
    <3>2. [at |-> "journal", tree |-> t, to |-> to, fill |-> to \in complete, whole |-> FALSE] \in
            [at : Place, tree : OptPrefix, to : OptPrefix, fill : BOOLEAN, whole : BOOLEAN]
      BY <2>2, <2>3 DEF Place, OptPrefix
    <3> QED BY <1>1, <3>1, <3>2 DEF StepOK
  <2> QED BY <1>4, <2>7, <2>8, <2>9
<1>7. CASE MoveCall
  <2>1. step.at \in Moves
    BY <1>7 DEF MoveCall, writeJournal, readObjects, copyPoint, copyRoot, copyValues, retargetAliases,
         markRoot, readRooms,
           deletePoint, deleteRoot, writeRooms, At, Moves
  <2>2. step.tree \in Prefix /\ step.to \in Prefix
    <3>1. PICK d \in Dev : step.tree \in TreesOf(d)
      BY <2>1 DEF MoveInv, StepFits
    <3>2. MovesIn(Old(d), New(d)) /\ DeviceInv(d, Old(d), New(d))
      BY <2>1, <3>1 DEF MovesIn, TreesOf, MoveInv
    <3>3. step.to \in TreesOf(d)
      BY <3>2 DEF DeviceInv, UnderWay, Route, TreesOf
    <3> QED BY <3>1, <3>3, TreesAreOwn DEF TreesOf
  <2>3. UNCHANGED <<mishap, starts, registry, unmoved, pending>>
    BY <1>7 DEF MoveCall, writeJournal, readObjects, copyPoint, copyRoot, copyValues, retargetAliases,
         markRoot, readRooms,
           deletePoint, deleteRoot, writeRooms
  <2>4. complete' \subseteq Prefix /\ plan' \subseteq Dev
    BY <1>1, <1>7, <2>2 DEF MoveCall, writeJournal, readObjects, copyPoint, copyRoot, copyValues,
         retargetAliases, markRoot,
           readRooms, deletePoint, deleteRoot, writeRooms, ListsOK
  <2>5. alias' \in [Dev -> Prefix] /\ room' \in [Dev -> OptPrefix]
    BY <1>1, <1>7, <2>2 DEF MoveCall, writeJournal, readObjects, copyPoint, copyRoot, copyValues,
         retargetAliases, markRoot,
           readRooms, deletePoint, deleteRoot, writeRooms, ListsOK, OptPrefix
  <2>6. ListsOK'
    BY <1>1, <2>3, <2>4, <2>5 DEF ListsOK
  <2>7. RootsOK'
    <3>1. CASE writeJournal
      BY <1>1, <2>2, <3>1 DEF writeJournal, RootsOK, OptPrefix
    <3>2. CASE copyRoot
      <4>1. [root[step.tree] EXCEPT !.movingTo = None] \in
              [dev : Dev \cup {None}, marked : BOOLEAN, movingTo : OptPrefix]
        BY <1>1, <2>2 DEF RootsOK, OptPrefix
      <4>2. root' = root \/ root' = [root EXCEPT ![step.to] = [root[step.tree] EXCEPT !.movingTo = None]]
        BY <3>2 DEF copyRoot
      <4> QED BY <1>1, <2>2, <4>1, <4>2 DEF RootsOK
    <3>3. CASE markRoot
      BY <1>1, <2>2, <3>3 DEF markRoot, RootsOK
    <3>4. CASE deleteRoot
      BY <1>1, <2>2, <3>4 DEF deleteRoot, RootsOK, NoRoot, OptPrefix
    <3>5. CASE MoveCall /\ ~writeJournal /\ ~copyRoot /\ ~markRoot /\ ~deleteRoot
      BY <1>1, <3>5 DEF MoveCall, readObjects, copyPoint, copyValues, retargetAliases, readRooms, deletePoint,
           writeRooms, RootsOK
    <3> QED BY <1>7, <3>1, <3>2, <3>3, <3>4, <3>5
  <2>8. PointsOK'
    <3>1. CASE copyPoint
      BY <1>1, <2>2, <3>1 DEF copyPoint, PointsOK, CarriedPoint
    <3>2. CASE copyValues
      <4>1. PICK v : v = IF step.fill /\ point[step.to].val THEN point[step.to].val
                         ELSE point[step.to].val \/ point[step.tree].val
        OBVIOUS
      <4>2. v \in BOOLEAN
        BY <1>1, <2>2, <4>1 DEF PointsOK
      <4>3. point' = [point EXCEPT ![step.to].val = v]
        BY <1>1, <2>2, <3>2, <4>1 DEF copyValues, PointsOK
      <4> QED BY <1>1, <2>2, <4>2, <4>3 DEF PointsOK
    <3>3. CASE deletePoint
      BY <1>1, <2>2, <3>3 DEF deletePoint, PointsOK, NoPoint
    <3>4. CASE MoveCall /\ ~copyPoint /\ ~copyValues /\ ~deletePoint
      BY <1>1, <3>4 DEF MoveCall, writeJournal, readObjects, copyRoot, retargetAliases, markRoot,
           readRooms, deleteRoot, writeRooms, PointsOK
    <3> QED BY <1>7, <3>1, <3>2, <3>3, <3>4
  <2>9. StepOK'
    <3>1. CASE readObjects
      BY <1>1, <3>1 DEF readObjects, StepOK, Place, IsWhole, RootsOK
    <3>2. CASE writeRooms
      BY <1>3, <3>2 DEF writeRooms, StepOK, Place
    <3>3. CASE MoveCall /\ ~readObjects /\ ~writeRooms
      BY <1>1, <3>3 DEF MoveCall, writeJournal, copyPoint, copyRoot, copyValues, retargetAliases, markRoot,
           readRooms, deletePoint, deleteRoot, At, StepOK, Place
    <3> QED BY <1>7, <3>1, <3>2, <3>3
  <2> QED BY <1>4, <2>6, <2>7, <2>8, <2>9
<1>8. CASE MoveFails
  <2>1. step.at \in Moves /\ step.at # "rooms"
    BY <1>8 DEF MoveFails, Moves
  <2>2. PICK d \in Dev : step.tree \in TreesOf(d)
    BY <2>1 DEF MoveInv, StepFits
  <2>3. MovesIn(Old(d), New(d)) /\ DeviceInv(d, Old(d), New(d))
    BY <2>1, <2>2 DEF MovesIn, TreesOf, MoveInv
  <2>4. Stands(step.tree) /\ step.tree \in Prefix
    BY <2>1, <2>2, <2>3, TreesAreOwn DEF DeviceInv, UnderWay, Route, TreesOf
  <2>5. mover \in Dev
    BY <2>4, TreesDevice DEF mover, Stands
  <2>6. registry' \in [Dev -> OptPrefix] /\ unmoved' \subseteq Prefix
    BY <1>1, <1>8, <2>4, <2>5, SeedsAre DEF MoveFails, ListsOK
  <2>7. ListsOK' /\ RootsOK' /\ PointsOK'
    BY <1>1, <1>8, <2>6 DEF MoveFails, ListsOK, RootsOK, PointsOK
  <2>8. StepOK'
    BY <1>3, <1>8 DEF MoveFails, StepOK, Place
  <2> QED BY <1>4, <2>7, <2>8
<1>9. CASE StartEnds
  <2>1. StepOK'
    BY <1>3, <1>9 DEF StartEnds, StepOK, Place
  <2> QED BY <1>1, <1>4, <1>9, <2>1 DEF StartEnds, ListsOK, RootsOK, PointsOK
<1>10. CASE Dies
  <2>1. StepOK'
    BY <1>3, <1>10 DEF Dies, StepOK, Place
  <2>2. ListsOK'
    BY <1>1, <1>10 DEF Dies, ListsOK, OptPrefix
  <2> QED BY <1>1, <1>4, <1>10, <2>1, <2>2 DEF Dies, RootsOK, PointsOK
<1>11. ASSUME NEW d \in Dev, Build(d)
       PROVE  MoveTypeOK'
  <2>1. PICK p \in Prefix : p = prefixFor(registry, d)
    BY <1>1, SeedsAre DEF ListsOK
  <2>2. registry' \in [Dev -> OptPrefix]
    BY <1>1, <1>11, <2>1, SeedsAre DEF Build, ListsOK
  <2>3. ListsOK' /\ StepOK'
    BY <1>1, <1>11, <2>2 DEF Build, ListsOK, StepOK
  <2>4. RootsOK'
    BY <1>1, <1>11, <2>1 DEF Build, RootsOK, MarksBuild
  <2>5. PointsOK'
    BY <1>1, <1>11, <2>1 DEF Build, PointsOK
  <2> QED BY <1>4, <2>3, <2>4, <2>5
<1> QED BY <1>5, <1>6, <1>7, <1>8, <1>9, <1>10, <1>11 DEF MoveNext

\* The next call of a start is always one of a tree of some device.
LEMMA StepFitsKept ==
  ASSUME MoveInv, MoveNext
  PROVE  StepFits'
<1>1. mishap' = mishap
  BY DEF MoveNext, Start, NextTree, MoveCall, writeJournal, readObjects, copyPoint, copyRoot, copyValues,
       retargetAliases,
         markRoot, readRooms, deletePoint, deleteRoot, writeRooms, MoveFails, StartEnds, Dies, Build
<1>2. \A e \in Dev : TreesOf(e)' = TreesOf(e)
  BY <1>1 DEF New, TreesOf, Long
<1>3. ~(mishap'.collide /\ mishap'.fails)
  BY <1>1 DEF MoveInv, StepFits
<1>4. CASE Start \/ MoveFails \/ writeRooms
  <2>1. step'.at = "next"
    BY <1>4 DEF Start, MoveFails, writeRooms, Idle
  <2> QED BY <1>3, <2>1 DEF StepFits, Moves
<1>5. CASE NextTree
  <2>1. PICK t \in pending : step' = step \/ (step'.at = "journal" /\ step'.tree = t)
    BY <1>5 DEF NextTree
  <2>2. \E d \in Dev : t \in TreesOf(d)
    BY DEF MoveInv, OthersEmpty
  <2>3. step.at = "next"
    BY <1>5 DEF NextTree
  <2> QED BY <1>2, <1>3, <2>1, <2>2, <2>3 DEF StepFits, Moves
<1>6. CASE MoveCall /\ ~writeRooms
  <2>1. step.at \in Moves /\ step'.at \in Moves /\ step'.tree = step.tree
    <3>1. CASE readObjects
      <4>1. \A a \in {"alias", "point"} : \A w \in BOOLEAN : [step EXCEPT !.whole = w, !.at = a].tree = step.tree
                                                         /\ [step EXCEPT !.whole = w, !.at = a].at = a
        BY DEF MoveInv, MoveTypeOK
      <4>2. step'.tree = step.tree /\ step'.at \in {"alias", "point"}
        BY <3>1 DEF readObjects, MoveInv, MoveTypeOK
      <4> QED BY <3>1, <4>2 DEF readObjects, Moves
    <3>2. CASE MoveCall /\ ~writeRooms /\ ~readObjects
      <4>1. \E here, next \in Moves : At(here, next)
        BY <3>2 DEF MoveCall, writeJournal, copyPoint, copyRoot, copyValues, retargetAliases, markRoot,
             readRooms, deletePoint,
             deleteRoot, Moves
      <4> QED BY <4>1, StepGoes DEF MoveInv
    <3> QED BY <1>6, <3>1, <3>2
  <2> QED BY <1>2, <1>3, <2>1 DEF MoveInv, StepFits, Moves
<1>7. CASE StartEnds
  BY <1>3, <1>7 DEF StartEnds, Idle, StepFits, Moves
<1>8. CASE Dies
  BY <1>3, <1>8 DEF Dies, Idle, StepFits, Moves
<1>9. CASE \E d \in Dev : Build(d)
  <2>1. step.at = "running" /\ step' = step /\ pending' = pending
    BY <1>9 DEF Build
  <2> QED BY <1>3, <2>1 DEF MoveInv, StepFits, Moves
<1> QED BY <1>4, <1>5, <1>6, <1>7, <1>8, <1>9 DEF MoveNext, MoveCall

\* At first every device stands whole in its old tree.
LEMMA MoveStarts ==
  ASSUME MoveInit, ~(mishap.collide /\ mishap.fails)
  PROVE  MoveInv
<1>1. \A p \in Prefix : p[1] \in {"old", "long", "short"} /\ p[2] \in Dev /\ (p[1] = "old" => p = Old(p[2]))
  BY DEF Prefix, Old
<1>2. step.at = "down" /\ step.tree = None
  BY DEF MoveInit, Idle
<1>3. \A d \in Dev : New(d)[1] # "old" /\ Old(d)[1] = "old" /\ Old(d)[2] = d
  BY DEF New, Long, Old
<1>4. \A d \in Dev : /\ Old(d) \in Prefix /\ New(d) \in Prefix /\ None # d /\ Old(d) # New(d)
                     /\ root[Old(d)] = [dev |-> d, marked |-> FALSE, movingTo |-> None] /\ root[New(d)] = NoRoot
                     /\ point[Old(d)] = [of |-> d, rec |-> TRUE, val |-> TRUE] /\ point[New(d)] = NoPoint
  BY <1>3, TreesAreOwn DEF MoveInit, NoRoot
<1>5. OthersEmpty
  <2>1. ASSUME NEW p \in Prefix, \A d \in Dev : p \notin TreesOf(d)
        PROVE  root[p] = NoRoot /\ point[p] = NoPoint
    <3>1. p[1] # "old"
      BY <1>1, <2>1 DEF TreesOf
    <3> QED BY <3>1 DEF MoveInit
  <2> QED BY <2>1 DEF OthersEmpty, MoveInit
<1>6. StepFits
  BY <1>2 DEF StepFits, MoveInit, Moves
<1>7. MoveTypeOK
  <2>1. root \in [Prefix -> [dev : Dev \cup {None}, marked : BOOLEAN, movingTo : OptPrefix]]
    BY <1>1 DEF MoveInit, NoRoot, OptPrefix
  <2>2. point \in [Prefix -> [of : Dev \cup {None}, rec : BOOLEAN, val : BOOLEAN]]
    BY <1>1 DEF MoveInit, NoPoint
  <2>3. step \in [at : Place, tree : OptPrefix, to : OptPrefix, fill : BOOLEAN, whole : BOOLEAN]
    BY DEF MoveInit, Idle, Place, OptPrefix
  <2>4. mishap \in Mishaps /\ starts \in 0..MaxStarts
    BY MoveAssumption DEF MoveInit
  <2>5. /\ alias \in [Dev -> Prefix] /\ room \in [Dev -> OptPrefix]
        /\ registry \in [Dev -> OptPrefix] /\ plan \subseteq Dev
        /\ unmoved \subseteq Prefix /\ complete \subseteq Prefix /\ pending \subseteq Prefix
    BY <1>4 DEF MoveInit, OptPrefix
  <2> QED BY <2>1, <2>2, <2>3, <2>4, <2>5 DEF MoveTypeOK
<1>8. \A d \in Dev : alias[d] = Old(d) /\ registry[d] = None /\ unmoved = {}
  BY DEF MoveInit
<1>9. ASSUME NEW d \in Dev
      PROVE  DeviceInv(d, Old(d), New(d))
  <2>1. PICK o, g : o = Old(d) /\ g = New(d)
    OBVIOUS
  <2>2. /\ root[o].dev = d /\ root[o].marked = FALSE /\ root[o].movingTo = None
        /\ root[g].dev = None /\ root[g].marked = FALSE /\ root[g].movingTo = None
        /\ root[g] = NoRoot /\ point[g] = NoPoint /\ point[o].of = d /\ point[g].of = None
        /\ None # d /\ o # g /\ o # None /\ alias[d] = o /\ registry[d] = None
    <3>1. root[o] = [dev |-> d, marked |-> FALSE, movingTo |-> None] /\ root[g] = NoRoot
      BY <1>4, <2>1
    <3>2. point[o] = [of |-> d, rec |-> TRUE, val |-> TRUE] /\ point[g] = NoPoint
      BY <1>4, <2>1
    <3>3. None # d /\ o # g /\ o # None /\ alias[d] = o /\ registry[d] = None
      BY <1>4, <1>8, <2>1, TreesAreOwn
    <3> QED BY <3>1, <3>2, <3>3 DEF NoRoot, NoPoint
  <2>3. TreeFits(o, d, g) /\ TreeFits(g, d, o)
    BY <2>2 DEF TreeFits
  <2>4. Stands(o) /\ ~Stands(g) /\ ~Marked(o) /\ ~Marked(g) /\ ~Moving(o) /\ ~Moving(g)
    BY <2>2 DEF Stands, Marked, Moving
  <2>5. Full(o, d)
    BY <1>4, <2>1 DEF Full
  <2>6. OnDisk(d, o, g) /\ NothingFails(d, o, g)
    BY <1>8, <2>2, <2>4, <2>5 DEF OnDisk, NothingFails
  <2> QED BY <1>2, <2>1, <2>2, <2>3, <2>6 DEF DeviceInv, MovesIn, Moves
<1> QED BY <1>5, <1>6, <1>7, <1>9 DEF MoveInv

\* The invariant of the move, kept by every step.
LEMMA MoveInvKept ==
  ASSUME MoveInv, [MoveNext]_moveVars
  PROVE  MoveInv'
<1>1. CASE MoveNext
  <2>1. OthersEmpty' /\ \A e \in Dev : DeviceInv(e, Old(e), New(e))'
    BY <1>1, StartsKeep, NextKeeps, CallsKeep, FailsKeep, EndKeeps, DeathsKeep, BuildsKeep DEF MoveNext
  <2> QED BY <1>1, <2>1, MoveTypesKept, StepFitsKept DEF MoveInv
<1>2. CASE UNCHANGED moveVars
  <2>1. UNCHANGED <<mishap, starts, root, point, alias, room, registry, unmoved, complete, pending, step, plan>>
    BY <1>2 DEF moveVars
  <2>2. MoveTypeOK'
    BY <2>1 DEF MoveInv, MoveTypeOK
  <2>3. \A e \in Dev : New(e)' = New(e) /\ TreesOf(e)' = TreesOf(e)
    BY <2>1 DEF New, TreesOf, Long
  <2>4. OthersEmpty' /\ StepFits'
    BY <2>1, <2>3 DEF MoveInv, OthersEmpty, StepFits
  <2>5. ASSUME NEW e \in Dev
        PROVE  DeviceInv(e, Old(e), New(e))'
    <3>1. PICK g : g = New(e)
      OBVIOUS
    <3>2. DeviceInv(e, Old(e), g)
      BY <3>1 DEF MoveInv
    <3>3. DeviceInv(e, Old(e), g)'
      <4>1. /\ TreeFits(Old(e), e, g)' = TreeFits(Old(e), e, g)
            /\ TreeFits(g, e, Old(e))' = TreeFits(g, e, Old(e))
        BY <2>1 DEF TreeFits, Stands, Marked, Moving, Full, Recorded
      <4>2. OnDisk(e, Old(e), g)' = OnDisk(e, Old(e), g) /\ NothingFails(e, Old(e), g)' = NothingFails(e, Old(e), g)
        BY <2>1 DEF OnDisk, NothingFails, Stands, Marked, Moving, Full, Recorded
      <4>3. /\ Listed(e, Old(e), g)' = Listed(e, Old(e), g) /\ InOrder(e, Old(e), g)' = InOrder(e, Old(e), g)
            /\ Ready(e, Old(e), g)' = Ready(e, Old(e), g)
        BY <2>1 DEF Listed, InOrder, Ready, MovesIn, OldGoes, NewGoes, Stands, Marked, Moving, Full, Recorded
      <4>4. MovesIn(Old(e), g)' = MovesIn(Old(e), g)
        BY <2>1 DEF MovesIn
      <4>5. UnderWay(e, Old(e), g)' = UnderWay(e, Old(e), g)
        <5>1. ASSUME NEW t, NEW u
              PROVE  Route(e, Old(e), g, t, u)' = Route(e, Old(e), g, t, u) /\ Leaves(e, t, u)' = Leaves(e, t, u)
          BY <2>1 DEF Route, Leaves, Stands, Marked, Moving, Full
        <5>2. ASSUME NEW t, NEW u
              PROVE  Copies(e, Old(e), g, t, u)' = Copies(e, Old(e), g, t, u)
          BY <2>1 DEF Copies, OldGoes, NewGoes, Marked, Moving, Full, Recorded
        <5> QED BY <5>1, <5>2 DEF UnderWay
      <4> QED BY <2>1, <3>2, <4>1, <4>2, <4>3, <4>4, <4>5 DEF DeviceInv
    <3> QED BY <2>3, <3>1, <3>3
  <2> QED BY <2>2, <2>4, <2>5 DEF MoveInv
<1> QED BY <1>1, <1>2

\* It says what the run checks.
LEMMA MoveInvKeepsAll ==
  ASSUME MoveInv
  PROVE  MoveKeepsAll
<1>1. RecordingSurvives
  BY TreesAreOwn DEF MoveInv, DeviceInv, OnDisk, Full, RecordingSurvives
<1>2. TreesAreApart
  <2>1. ASSUME NEW p \in Prefix, root[p].marked
        PROVE  point[p].of = root[p].dev \/ point[p].of = None
    <3>1. PICK d \in Dev : p \in TreesOf(d)
      BY <2>1 DEF MoveInv, OthersEmpty, NoRoot
    <3>2. TreeFits(Old(d), d, New(d)) /\ TreeFits(New(d), d, Old(d))
      BY DEF MoveInv, DeviceInv
    <3> QED BY <2>1, <3>1, <3>2 DEF TreesOf, TreeFits, NoRoot
  <2>2. \A d, e \in Dev : registry[d] = registry[e] /\ registry[d] # None => d = e
    BY RegistryIsOwn
  <2> QED BY <2>1, <2>2 DEF TreesAreApart
<1>3. AliasesFollow
  <2>1. ASSUME step.at = "running", unmoved = {}, NEW d \in Dev
        PROVE  alias[d] = prefixFor(registry, d)
    <3>1. PICK g : g = New(d)
      OBVIOUS
    <3>2. OfDevice(d, Old(d), g)
      BY <3>1, DevicesAre
    <3>3. Listed(d, Old(d), g) /\ OnDisk(d, Old(d), g) /\ alias[d] \in {Old(d), g} /\ ~MovesIn(Old(d), g)
      BY <2>1, <3>2 DEF OfDevice, DeviceInv, MovesIn, Moves
    <3>4. pending = {}
      BY <2>1 DEF MoveInv, StepFits
    <3>5. registry[d] # None /\ alias[d] = registry[d]
      BY <2>1, <3>3, <3>4 DEF Listed, OnDisk
    <3> QED BY <3>5 DEF prefixFor
  <2> QED BY <2>1 DEF AliasesFollow
<1> QED BY <1>1, <1>2, <1>3 DEF MoveKeepsAll, MoveInv

\* A move loses no recording, mixes up no two devices and takes the aliases along, at every
\* moment, whenever the process dies, with any number of devices and starts, as long as no
\* call fails among devices whose ids end alike (migrateDeviceIds, moveDeviceTree, copyDeviceTree,
\* DeviceIdRegistry).
THEOREM MoveKeepsAllHolds ==
  ASSUME \A m \in Mishaps : ~(m.collide /\ m.fails)
  PROVE  MoveSpec => []MoveKeepsAll
<1>1. MoveInit => MoveInv
  BY MoveStarts DEF MoveInit
<1>2. MoveInv /\ [MoveNext]_moveVars => MoveInv'
  BY MoveInvKept
<1>3. MoveInv => MoveKeepsAll
  BY MoveInvKeepsAll
<1> QED BY <1>1, <1>2, <1>3, PTL DEF MoveSpec
=============================================================================
