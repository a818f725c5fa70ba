---------------------------- MODULE TreesProofs -----------------------------
(***************************************************************************)
(* What the object trees show and keep, for any number of devices, levels,  *)
(* degrees, snapshots and builds: the markers and counts of reachability    *)
(* agree with each other and with the evidence, a deleted tree is one whose *)
(* device is gone, an appliance is commanded within what it declares and    *)
(* shown as it is, the snapshots a user made are read back by the next      *)
(* start, and the builds of a device end in the datapoints it calls for.    *)
(***************************************************************************)
EXTENDS ShownValues, Appliance, SnapshotStore, StateTree, FiniteSetTheorems, SequenceTheorems, TLAPS

-----------------------------------------------------------------------------
\* What is left of a sequence without its i-th place.
LEMMA WithoutOne ==
  ASSUME NEW S, NEW l \in Seq(S), NEW k \in DOMAIN l
  PROVE  /\ RemoveAt(l, k) \in Seq(S) /\ Len(RemoveAt(l, k)) = Len(l) - 1
         /\ \A i \in 1..Len(l) - 1 : RemoveAt(l, k)[i] = IF i < k THEN l[i] ELSE l[i + 1]
<1>1. Len(l) \in Nat /\ k \in 1..Len(l)
  BY LenProperties
<1> DEFINE a == SubSeq(l, 1, k - 1)
           b == SubSeq(l, k + 1, Len(l))
<1>2. a \in Seq(S) /\ Len(a) = k - 1 /\ \A i \in 1..k - 1 : a[i] = l[i]
  BY <1>1
<1>3. b \in Seq(S) /\ Len(b) = Len(l) - k /\ \A i \in 1..Len(l) - k : b[i] = l[k + i]
  BY <1>1
<1>4. RemoveAt(l, k) = a \o b
  BY DEF RemoveAt
<1> HIDE DEF a, b
<1>5. a \o b \in Seq(S) /\ Len(a \o b) = Len(l) - 1
      /\ \A i \in 1..Len(l) - 1 : (a \o b)[i] = IF i <= Len(a) THEN a[i] ELSE b[i - Len(a)]
  BY <1>1, <1>2, <1>3
<1>6. ASSUME NEW i \in 1..Len(l) - 1
      PROVE  (a \o b)[i] = IF i < k THEN l[i] ELSE l[i + 1]
  <2>1. CASE i < k
    BY <1>1, <1>2, <1>5, <2>1
  <2>2. CASE ~(i < k)
    <3>1. i - Len(a) \in 1..Len(l) - k /\ k + (i - Len(a)) = i + 1
      BY <1>1, <1>2, <2>2
    <3>2. (a \o b)[i] = b[i - Len(a)]
      BY <1>1, <1>2, <1>5, <2>2
    <3>3. b[i - Len(a)] = l[k + (i - Len(a))]
      BY <1>3, <3>1
    <3> QED BY <2>2, <3>1, <3>2, <3>3
  <2> QED BY <2>1, <2>2
<1> QED BY <1>4, <1>5, <1>6

-----------------------------------------------------------------------------
Counts == 0..Cardinality(Devs)

\* What each value that is shown may be.
TypeOf(id) == IF id \in {Total, Online} THEN Counts ELSE IF id = Out THEN SUBSET Devs ELSE BOOLEAN

ValuesTyped(m) == DOMAIN m = Ids /\ \A id \in Ids : m[id] \in TypeOf(id) \cup {None}

Round ==
  {NoRound} \cup [pc : {"sync"}, todo : SUBSET Devs, changed : BOOLEAN]
            \cup [pc : {"rollup"}, found : [total : Counts, online : Counts]]
Cleanup ==
  {NoReap} \cup [pc : {"list"}, current : SUBSET Devs] \cup [pc : {"delete"}, rows : SUBSET Devs]
           \cup [pc : {"forget"}, rows : SUBSET Devs, gone : Devs]

DevicesTyped ==
  /\ up \in {"down", "run", "unloading"} /\ runs \in 0..MaxRuns
  /\ here \subseteq Devs /\ built \subseteq Devs /\ ensured \subseteq Devs /\ cached \subseteq Devs
  /\ group \in BOOLEAN /\ primed \in BOOLEAN
  /\ heard \in [Devs -> {"yes", "no", "silent"}] /\ word \in [Devs -> {"yes", "no", "silent"}]
  /\ flag \in [Devs -> BOOLEAN] /\ resolved \in [Devs -> BOOLEAN \cup {None}]
  /\ round \in Round /\ reap \in Cleanup
  /\ settled \in {"no", "round", "yes"}

\* While it is being forgotten, a deleted tree's values are still in memory.
Forgetting(d) == reap.pc = "forget" /\ reap.gone = d

\* A device of the map has a tree; what is to be deleted has no device.
TreesKnown ==
  /\ up = "down" => here = {} /\ cached = {} /\ ensured = {} /\ reap = NoReap
  /\ up # "down" => /\ \A d \in Devs : d \in cached <=> d \in built \/ Forgetting(d)
                    /\ here \subseteq built /\ ensured \subseteq cached
  /\ reap.pc = "list" => here \subseteq reap.current
  /\ reap.pc = "delete" => reap.rows \subseteq built \ here
  /\ reap.pc = "forget" => reap.rows \ {reap.gone} \subseteq built \ here /\ reap.gone \notin here \cup built

\* What a marker was resolved to is what it shows.
MarkersShown ==
  up = "run" =>
    \A d \in cached : Forgetting(d) \/ (resolved[d] = value[d] /\ value[d] \in BOOLEAN)

\* A device that is gone has neither evidence nor a verdict.
VerdictsKnown ==
  /\ \A d \in Devs \ here : heard[d] = "silent" /\ word[d] = "silent"
  /\ WordOutlivesSilence

\* What a round with nothing beside it has done so far.
RoundSoFar ==
  /\ settled # "no" => up = "run" /\ reap = NoReap
  /\ settled = "round" =>
       /\ round.pc \in {"sync", "rollup"}
       /\ \A d \in here : (round.pc = "sync" /\ d \in round.todo) \/ value[d] = Reachable(d)
       /\ round.pc = "rollup" => /\ round.found.total = Cardinality(built)
                                 /\ round.found.online = Cardinality({d \in built : value[d] = TRUE})
  /\ settled = "yes" => round = NoRound /\ RollupCountsMarkers /\ MarkersTellEvidence

ValuesInv == ValuesTyped(value) /\ ValuesTyped(remembered) /\ MemoryIsWritten

ShownInv == DevicesTyped /\ ValuesInv /\ TreesKnown /\ MarkersShown /\ VerdictsKnown /\ RoundSoFar

-----------------------------------------------------------------------------
\* The datapoints are what they are called, and a device is none of them.
LEMMA IdFacts ==
  /\ Cardinality(Devs) \in Nat /\ Counts \subseteq Nat
  /\ Devs \subseteq Ids /\ {Total, Online, All, GroupOnline, Out} \subseteq Ids
  /\ Ids = Devs \cup {Total, Online, All, GroupOnline, Out}
  /\ \A d \in Devs \cup {All, GroupOnline} : TypeOf(d) = BOOLEAN
  /\ TypeOf(Total) = Counts /\ TypeOf(Online) = Counts /\ TypeOf(Out) = SUBSET Devs
  /\ None \notin BOOLEAN /\ None \notin Counts
  /\ \A S \in SUBSET Devs : IsFiniteSet(S) /\ Cardinality(S) \in Counts
<1>1. IsFiniteSet(Devs) /\ Cardinality(Devs) \in Nat
  BY ShownAssumption, FS_CardinalityType
<1>2. Counts \subseteq Nat
  BY <1>1 DEF Counts
<1>3. \A d \in Devs \cup {All, GroupOnline} : TypeOf(d) = BOOLEAN
  BY ShownAssumption DEF TypeOf
<1>4. TypeOf(Total) = Counts /\ TypeOf(Online) = Counts /\ TypeOf(Out) = SUBSET Devs
  BY ShownAssumption DEF TypeOf
<1>5. ASSUME NEW S \in SUBSET Devs PROVE IsFiniteSet(S) /\ Cardinality(S) \in Counts
  <2>1. IsFiniteSet(S) /\ Cardinality(S) <= Cardinality(Devs)
    BY <1>1, FS_Subset
  <2>2. Cardinality(S) \in Nat
    BY <2>1, FS_CardinalityType
  <2> QED BY <1>1, <2>1, <2>2 DEF Counts
<1>6. None \notin BOOLEAN /\ None \notin Counts
  BY <1>2, ShownAssumption
<1> QED BY <1>1, <1>2, <1>3, <1>4, <1>5, <1>6 DEF Ids

\* What is stored is shown, except where the tree it belongs to is being forgotten.
LEMMA StoreWrites ==
  ASSUME ValuesInv, ~WritesFail, UNCHANGED reap,
         NEW w, DOMAIN w \subseteq Ids, \A id \in DOMAIN w : w[id] \in TypeOf(id),
         store(w)
  PROVE  /\ ValuesInv'
         /\ \A id \in Ids \ DOMAIN w : value'[id] = value[id]
         /\ \A id \in DOMAIN w : id # Out => value'[id] = w[id] \/ Forgetting(id)
<1>1. remembered' = [id \in Ids |-> IF id \in DOMAIN w THEN w[id] ELSE remembered[id]]
      /\ value' = [id \in Ids |-> IF id \in DOMAIN w /\ remembered[id] # w[id] THEN w[id] ELSE value[id]]
  BY DEF store, StoredIn, Differs
<1>2. ASSUME NEW id \in Ids
      PROVE  /\ remembered'[id] \in {None, value'[id]} \/ (reap'.pc = "forget" /\ reap'.gone = id)
             /\ remembered'[id] \in TypeOf(id) \cup {None} /\ value'[id] \in TypeOf(id) \cup {None}
  <2>1. CASE id \in DOMAIN w /\ remembered[id] # w[id]
    BY <1>1, <2>1 DEF ValuesInv, ValuesTyped
  <2>2. CASE id \in DOMAIN w /\ remembered[id] = w[id]
    BY <1>1, <2>2 DEF ValuesInv, ValuesTyped, MemoryIsWritten
  <2>3. CASE id \notin DOMAIN w
    BY <1>1, <2>3 DEF ValuesInv, ValuesTyped, MemoryIsWritten
  <2> QED BY <2>1, <2>2, <2>3
<1>3. ValuesInv'
  <2>1. DOMAIN remembered' = Ids /\ DOMAIN value' = Ids
    BY <1>1
  <2> QED BY <1>2, <2>1 DEF ValuesInv, ValuesTyped, MemoryIsWritten, TypeOf
<1>4. ASSUME NEW id \in DOMAIN w, id # Out
      PROVE  value'[id] = w[id] \/ Forgetting(id)
  <2>1. w[id] # None
    BY <1>4, IdFacts DEF TypeOf
  <2>2. remembered[id] = w[id] => value[id] = w[id] \/ Forgetting(id)
    BY <2>1 DEF ValuesInv, MemoryIsWritten, Forgetting
  <2> QED BY <1>1, <2>2
<1> QED BY <1>1, <1>3, <1>4

\* The same for a write that the unload stops.
LEMMA WriteWrites ==
  ASSUME ValuesInv, ~WritesFail, UNCHANGED reap,
         NEW w, DOMAIN w \subseteq Ids, \A id \in DOMAIN w : w[id] \in TypeOf(id),
         writeReadOnly(w)
  PROVE  /\ ValuesInv'
         /\ \A id \in Ids \ DOMAIN w : value'[id] = value[id]
         /\ up # "unloading" => \A id \in DOMAIN w : id # Out => value'[id] = w[id] \/ Forgetting(id)
<1>1. CASE up = "unloading"
  <2>1. UNCHANGED <<remembered, value>>
    BY <1>1 DEF writeReadOnly
  <2> QED BY <1>1, <2>1 DEF ValuesInv, ValuesTyped, MemoryIsWritten, TypeOf
<1>2. CASE up # "unloading"
  BY <1>2, StoreWrites DEF writeReadOnly
<1> QED BY <1>1, <1>2

\* A step that shows nothing.
LEMMA NothingShown ==
  ASSUME ValuesInv, UNCHANGED <<value, remembered>>,
         \A id \in Ids : Forgetting(id) => Forgetting(id)'
  PROVE  ValuesInv'
BY DEF ValuesInv, ValuesTyped, MemoryIsWritten, TypeOf, Forgetting

\* The invariant holds what the adapter promises.
LEMMA ShownInvIsTrue == ShownInv => ShownIsTrue
<1> SUFFICES ASSUME ShownInv PROVE ShownIsTrue
  OBVIOUS
<1>1. ASSUME NEW m, ValuesTyped(m)
      PROVE  /\ \A id \in Devs \cup {All, GroupOnline} : m[id] \in BOOLEAN \cup {None}
             /\ \A id \in {Total, Online} : m[id] \in 0..Cardinality(Devs) \cup {None}
             /\ m[Out] \in (SUBSET Devs) \cup {None}
  <2>1. \A id \in Ids : m[id] \in TypeOf(id) \cup {None}
    BY <1>1 DEF ValuesTyped
  <2>2. \A id \in Devs \cup {All, GroupOnline} : m[id] \in BOOLEAN \cup {None}
    BY <2>1, IdFacts
  <2>3. \A id \in {Total, Online} : m[id] \in 0..Cardinality(Devs) \cup {None}
    <3>1. TypeOf(Total) = 0..Cardinality(Devs) /\ TypeOf(Online) = 0..Cardinality(Devs)
      BY IdFacts DEF Counts
    <3>2. Total \in Ids /\ Online \in Ids
      BY DEF Ids
    <3> QED BY <2>1, <3>1, <3>2
  <2>4. m[Out] \in (SUBSET Devs) \cup {None}
    <3>1. Out \in Ids
      BY DEF Ids
    <3>2. m[Out] \in TypeOf(Out) \cup {None}
      BY <2>1, <3>1
    <3>3. TypeOf(Out) = SUBSET Devs
      BY ShownAssumption DEF TypeOf
    <3> QED BY <3>2, <3>3
  <2> QED BY <2>2, <2>3, <2>4
<1>2. round.pc \in {"idle", "sync", "rollup"}
      /\ reap.pc \in {"idle", "list", "delete", "forget"}
  BY DEF ShownInv, DevicesTyped, Round, Cleanup, NoRound, NoReap
<1>3. DOMAIN value = Ids /\ DOMAIN remembered = Ids
  BY DEF ShownInv, ValuesInv, ValuesTyped
<1>4. \A m \in {value, remembered} :
          /\ \A id \in Devs \cup {All, GroupOnline} : m[id] \in BOOLEAN \cup {None}
          /\ \A id \in {Total, Online} : m[id] \in 0..Cardinality(Devs) \cup {None}
          /\ m[Out] \in (SUBSET Devs) \cup {None}
  BY <1>1 DEF ShownInv, ValuesInv
<1>5. ShownTypeOK
  BY <1>2, <1>3, <1>4 DEF ShownInv, DevicesTyped, ShownTypeOK
<1>6. RollupCountsMarkers /\ MarkersTellEvidence
  BY DEF ShownInv, RoundSoFar, RollupCountsMarkers, MarkersTellEvidence
<1> QED BY <1>5, <1>6 DEF ShownInv, ShownIsTrue, ValuesInv, VerdictsKnown

\* At first nothing is shown.
LEMMA InitShown == ShownInit => ShownInv
<1> SUFFICES ASSUME ShownInit PROVE ShownInv
  OBVIOUS
<1>1. DevicesTyped
  <2>1. up = "down" /\ here = {} /\ group = FALSE /\ primed = FALSE /\ built \subseteq Devs
        /\ ensured = {} /\ cached = {} /\ settled = "no" /\ round = NoRound /\ reap = NoReap
    BY DEF ShownInit
  <2>2. runs \in 0..MaxRuns
    BY ShownAssumption DEF ShownInit
  <2>3. heard \in [Devs -> {"yes", "no", "silent"}]
        /\ word \in [Devs -> {"yes", "no", "silent"}]
        /\ flag \in [Devs -> BOOLEAN] /\ resolved \in [Devs -> BOOLEAN \cup {None}]
    BY DEF ShownInit
  <2> QED BY <2>1, <2>2, <2>3 DEF DevicesTyped, Round, Cleanup
<1>2. ValuesInv
  <2>1. DOMAIN value = Ids /\ DOMAIN remembered = Ids /\ \A id \in Ids : remembered[id] = None
    BY DEF ShownInit
  <2>2. ASSUME NEW id \in Ids PROVE value[id] \in TypeOf(id) \cup {None}
    <3>1. CASE id \in Devs \cup {All, GroupOnline}
      <4>1. value[id] = None \/ value[id] = TRUE
        <5>1. value[id] = IF id \in Devs \ built THEN None
                          ELSE IF id \in built \cup {All, GroupOnline} THEN TRUE
                          ELSE IF id = Out THEN {} ELSE 0
          BY DEF ShownInit
        <5> QED BY <3>1, <5>1
      <4>2. TypeOf(id) = BOOLEAN
        BY <3>1, IdFacts
      <4> QED BY <4>1, <4>2
    <3>2. CASE id = Out
      BY <3>2, IdFacts, ShownAssumption DEF ShownInit
    <3>3. CASE id \in {Total, Online}
      <4>1. value[id] = 0
        BY <3>3, IdFacts, ShownAssumption DEF ShownInit
      <4> QED BY <3>3, <4>1, IdFacts DEF Counts
    <3> QED BY <3>1, <3>2, <3>3, IdFacts
  <2> QED BY <2>1, <2>2 DEF ValuesInv, ValuesTyped, MemoryIsWritten
<1>3. TreesKnown
  BY DEF ShownInit, TreesKnown, NoReap
<1>4. MarkersShown /\ VerdictsKnown /\ RoundSoFar
  BY DEF ShownInit, MarkersShown, VerdictsKnown, WordOutlivesSilence, RoundSoFar
<1> QED BY <1>1, <1>2, <1>3, <1>4 DEF ShownInv

-----------------------------------------------------------------------------
\* Steps that show nothing.

\* A round begins with the devices that have to be looked at.
LEMMA BeginsKeeps == ASSUME ShownInv, RoundBegins PROVE ShownInv'
<1>1. /\ up = "run" /\ round' = [pc |-> "sync", todo |-> here, changed |-> FALSE]
      /\ settled' = IF reap = NoReap THEN "round" ELSE "no"
      /\ UNCHANGED <<runs, up, here, group, heard, word, flag, built, ensured, cached, resolved,
                     value, remembered, primed, reap>>
  BY DEF RoundBegins, deviceWorld, treeWorld
<1>2. DevicesTyped'
  <2>1. round' \in Round
    BY <1>1 DEF ShownInv, DevicesTyped, Round
  <2>2. settled' \in {"no", "round"}
    BY <1>1
  <2> QED BY <1>1, <2>1, <2>2 DEF ShownInv, DevicesTyped
<1>3. ValuesInv'
  BY <1>1, NothingShown DEF ShownInv, Forgetting
<1>4. TreesKnown' /\ MarkersShown' /\ VerdictsKnown'
  BY <1>1 DEF ShownInv, TreesKnown, MarkersShown, VerdictsKnown, WordOutlivesSilence, Forgetting
<1>5. RoundSoFar'
  BY <1>1 DEF RoundSoFar
<1> QED BY <1>2, <1>3, <1>4, <1>5 DEF ShownInv

\* Evidence about a device comes and goes; what is shown stays.
LEMMA SilentKeeps == ASSUME ShownInv, NEW d \in Devs, FallsSilent(d) PROVE ShownInv'
<1>1. /\ up = "run" /\ heard' = [heard EXCEPT ![d] = "silent"] /\ settled' = "no"
      /\ UNCHANGED <<runs, up, here, group, word, flag, built, ensured, cached, resolved, value,
                     remembered, round, primed, reap>>
  BY DEF FallsSilent, treeWorld
<1>2. DevicesTyped'
  BY <1>1 DEF ShownInv, DevicesTyped
<1>3. ValuesInv'
  BY <1>1, NothingShown DEF ShownInv, Forgetting
<1>4. TreesKnown' /\ MarkersShown'
  BY <1>1 DEF ShownInv, TreesKnown, MarkersShown, Forgetting
<1>5. VerdictsKnown'
  BY <1>1 DEF ShownInv, VerdictsKnown, WordOutlivesSilence, DevicesTyped
<1>6. RoundSoFar'
  BY <1>1 DEF RoundSoFar
<1> QED BY <1>2, <1>3, <1>4, <1>5, <1>6 DEF ShownInv

\* The group appears beside the devices.
LEMMA ArrivesKeeps == ASSUME ShownInv, GroupArrives PROVE ShownInv'
<1>1. /\ group' = TRUE /\ settled' = "no"
      /\ UNCHANGED <<runs, up, here, heard, word, flag, built, ensured, cached, resolved, value,
                     remembered, round, primed, reap>>
  BY DEF GroupArrives, treeWorld
<1>2. DevicesTyped'
  BY <1>1 DEF ShownInv, DevicesTyped
<1>3. ValuesInv'
  BY <1>1, NothingShown DEF ShownInv, Forgetting
<1>4. TreesKnown' /\ MarkersShown' /\ VerdictsKnown'
  BY <1>1 DEF ShownInv, TreesKnown, MarkersShown, VerdictsKnown, WordOutlivesSilence, Forgetting
<1>5. RoundSoFar'
  BY <1>1 DEF RoundSoFar
<1> QED BY <1>2, <1>3, <1>4, <1>5 DEF ShownInv

\* A device that leaves the map takes its evidence along, not its tree.
LEMMA LeavesKeeps == ASSUME ShownInv, NEW d \in Devs, Leaves(d) PROVE ShownInv'
<1>1. /\ up = "run" /\ here' = here \ {d} /\ settled' = "no"
      /\ flag' = [flag EXCEPT ![d] = FALSE] /\ heard' = [heard EXCEPT ![d] = "silent"]
      /\ word' = [word EXCEPT ![d] = "silent"]
      /\ UNCHANGED <<runs, up, group, built, ensured, cached, resolved, value, remembered, round,
                     primed, reap>>
  BY DEF Leaves, treeWorld
<1>2. DevicesTyped'
  BY <1>1 DEF ShownInv, DevicesTyped
<1>3. ValuesInv'
  BY <1>1, NothingShown DEF ShownInv, Forgetting
<1>4. TreesKnown' /\ MarkersShown'
  BY <1>1 DEF ShownInv, TreesKnown, MarkersShown, Forgetting
<1>5. VerdictsKnown'
  BY <1>1 DEF ShownInv, VerdictsKnown, WordOutlivesSilence, DevicesTyped
<1>6. RoundSoFar'
  BY <1>1 DEF RoundSoFar
<1> QED BY <1>2, <1>3, <1>4, <1>5, <1>6 DEF ShownInv

\* The cleanup reads the device map, and then the trees.
LEMMA CleanupKeeps == ASSUME ShownInv, CleanupBegins \/ CleanupLists PROVE ShownInv'
<1>1. /\ settled' = "no"
      /\ UNCHANGED <<runs, up, here, group, heard, word, flag, built, ensured, cached, resolved,
                     value, remembered, round, primed>>
  BY DEF CleanupBegins, CleanupLists, deviceWorld, treeWorld
<1>2. /\ reap.pc # "forget" /\ up # "down"
      /\ \/ reap' = NoReap
         \/ reap' = [pc |-> "list", current |-> here]
         \/ /\ reap.pc = "list" /\ reap' = [pc |-> "delete", rows |-> built \ reap.current]
  <2>1. CASE CleanupBegins
    BY <2>1 DEF CleanupBegins, NoReap
  <2>2. CASE CleanupLists
    BY <2>2 DEF CleanupLists, ShownInv, TreesKnown, NoReap
  <2> QED BY <2>1, <2>2
<1>3. DevicesTyped'
  <2>1. here \subseteq Devs /\ built \subseteq Devs
    BY DEF ShownInv, DevicesTyped
  <2>2. reap' \in Cleanup
    BY <1>2, <2>1 DEF Cleanup
  <2> QED BY <1>1, <2>2 DEF ShownInv, DevicesTyped
<1>4. reap'.pc # "forget"
  BY <1>2 DEF NoReap
<1>5. ValuesInv'
  BY <1>1, <1>2, NothingShown DEF ShownInv, Forgetting
<1>6. TreesKnown'
  <2>1. CASE reap' = NoReap
    BY <1>1, <1>2, <2>1 DEF ShownInv, TreesKnown, Forgetting, NoReap
  <2>2. CASE reap' = [pc |-> "list", current |-> here]
    BY <1>1, <1>2, <2>2 DEF ShownInv, TreesKnown, Forgetting
  <2>3. CASE reap.pc = "list" /\ reap' = [pc |-> "delete", rows |-> built \ reap.current]
    BY <1>1, <1>2, <2>3 DEF ShownInv, TreesKnown, Forgetting
  <2> QED BY <1>2, <2>1, <2>2, <2>3
<1>7. MarkersShown' /\ VerdictsKnown'
  BY <1>1, <1>2 DEF ShownInv, MarkersShown, VerdictsKnown, WordOutlivesSilence, Forgetting
<1>8. RoundSoFar'
  BY <1>1 DEF RoundSoFar
<1> QED BY <1>3, <1>5, <1>6, <1>7, <1>8 DEF ShownInv

-----------------------------------------------------------------------------
\* The cleanup deletes.

\* The tree of a device that is gone is deleted; its values are still remembered.
LEMMA DeleteTreeKeeps == ASSUME ShownInv, NEW d \in Devs, DeleteTree(d) PROVE ShownInv'
<1>1. /\ reap.pc = "delete" /\ d \in reap.rows /\ built' = built \ {d}
      /\ value' = [value EXCEPT ![d] = None]
      /\ reap' = [pc |-> "forget", rows |-> reap.rows, gone |-> d] /\ settled' = "no"
      /\ UNCHANGED <<runs, up, here, group, heard, word, flag, ensured, cached, resolved,
                     remembered, round, primed>>
  BY DEF DeleteTree, deviceWorld
<1>2. up # "down"
  BY <1>1 DEF ShownInv, TreesKnown, NoReap
<1>3. reap.rows \subseteq Devs
  BY <1>1 DEF ShownInv, DevicesTyped, Cleanup, NoReap
<1>4. DevicesTyped'
  <2>1. reap' \in Cleanup
    BY <1>1, <1>3 DEF Cleanup
  <2> QED BY <1>1, <2>1 DEF ShownInv, DevicesTyped
<1>5. ValuesInv'
  <2>1. d \in Ids
    BY IdFacts
  <2>2. ValuesTyped(value)'
    BY <1>1, <2>1 DEF ShownInv, ValuesInv, ValuesTyped, TypeOf
  <2>3. ValuesTyped(remembered)'
    BY <1>1 DEF ShownInv, ValuesInv, ValuesTyped, TypeOf
  <2>4. MemoryIsWritten'
    BY <1>1 DEF ShownInv, ValuesInv, ValuesTyped, MemoryIsWritten
  <2> QED BY <2>2, <2>3, <2>4 DEF ValuesInv
<1>6. TreesKnown'
  BY <1>1, <1>2 DEF ShownInv, TreesKnown, Forgetting
<1>7. MarkersShown'
  BY <1>1, IdFacts DEF ShownInv, MarkersShown, Forgetting, ValuesInv, ValuesTyped, DevicesTyped
<1>8. VerdictsKnown' /\ RoundSoFar'
  BY <1>1 DEF ShownInv, VerdictsKnown, WordOutlivesSilence, RoundSoFar
<1> QED BY <1>4, <1>5, <1>6, <1>7, <1>8 DEF ShownInv

\* What was remembered of a deleted tree is forgotten, and with it what was shown.
LEMMA ForgetKeeps == ASSUME ShownInv, ForgetPrefix PROVE ShownInv'
<1> DEFINE d == reap.gone
<1>1. /\ reap.pc = "forget" /\ cached' = cached \ {d} /\ ensured' = ensured \ {d}
      /\ resolved' = [resolved EXCEPT ![d] = None] /\ remembered' = [remembered EXCEPT ![d] = None]
      /\ reap' = (IF reap.rows \ {d} = {} THEN NoReap ELSE [pc |-> "delete", rows |-> reap.rows \ {d}])
      /\ settled' = "no"
      /\ UNCHANGED <<runs, up, here, group, heard, word, flag, built, value, round, primed>>
  BY DEF ForgetPrefix, forgetReadOnly, deviceWorld
<1>2. up # "down"
  BY <1>1 DEF ShownInv, TreesKnown, NoReap
<1>3. reap.rows \subseteq Devs /\ d \in Devs
  BY <1>1 DEF ShownInv, DevicesTyped, Cleanup, NoReap
<1>4. reap' \in Cleanup /\ reap'.pc # "forget"
  BY <1>1, <1>3 DEF Cleanup, NoReap
<1>5. DevicesTyped'
  BY <1>1, <1>4 DEF ShownInv, DevicesTyped
<1>6. ValuesInv'
  <2>1. d \in Ids
    BY <1>3, IdFacts
  <2>2. ValuesTyped(remembered)'
    BY <1>1, <2>1 DEF ShownInv, ValuesInv, ValuesTyped, TypeOf
  <2>3. ValuesTyped(value)'
    BY <1>1 DEF ShownInv, ValuesInv, ValuesTyped, TypeOf
  <2>4. MemoryIsWritten'
    BY <1>1 DEF ShownInv, ValuesInv, ValuesTyped, MemoryIsWritten
  <2> QED BY <2>2, <2>3, <2>4 DEF ValuesInv
<1>7. TreesKnown'
  <2>1. CASE reap.rows \ {d} = {}
    <3>1. reap' = NoReap
      BY <1>1, <2>1
    <3> QED BY <1>1, <1>2, <1>4, <3>1 DEF ShownInv, TreesKnown, Forgetting, NoReap
  <2>2. CASE reap.rows \ {d} # {}
    <3>1. reap'.pc = "delete" /\ reap'.rows = reap.rows \ {d}
      BY <1>1, <2>2
    <3> QED BY <1>1, <1>2, <3>1 DEF ShownInv, TreesKnown, Forgetting
  <2> QED BY <2>1, <2>2
<1>8. MarkersShown'
  BY <1>1, <1>4 DEF ShownInv, MarkersShown, Forgetting, DevicesTyped
<1>9. VerdictsKnown' /\ RoundSoFar'
  BY <1>1 DEF ShownInv, VerdictsKnown, WordOutlivesSilence, RoundSoFar
<1> QED BY <1>5, <1>6, <1>7, <1>8, <1>9 DEF ShownInv

-----------------------------------------------------------------------------
\* The round.

\* A round brings one marker after the other in line with the evidence.
LEMMA SyncsKeeps == ASSUME ShownInv, ~WritesFail, RoundSyncs PROVE ShownInv'
<1>1. PICK d \in round.todo :
        /\ resolved' = [resolved EXCEPT ![d] = Reachable(d)]
        /\ writeReadOnly(MarkerWrites(d))
        /\ flag' = IF WritesBack(d) THEN [flag EXCEPT ![d] = Reachable(d)] ELSE flag
        /\ word' = WordAfter(d)
        /\ round' = [round EXCEPT !.todo = @ \ {d}, !.changed = @ \/ WritesBack(d)]
  BY DEF RoundSyncs
<1>2. /\ round.pc = "sync"
      /\ UNCHANGED <<runs, up, here, group, heard, built, ensured, cached, primed, reap, settled>>
  BY DEF RoundSyncs, deviceWorld, treeWorld
<1>3. round \in [pc : {"sync"}, todo : SUBSET Devs, changed : BOOLEAN] /\ d \in Devs
  BY <1>2 DEF ShownInv, DevicesTyped, Round, NoRound
<1>4. Reachable(d) \in BOOLEAN
  BY DEF Reachable
<1>5. round' \in Round /\ round'.pc = "sync" /\ round'.todo = round.todo \ {d}
  <2>1. (round.changed \/ WritesBack(d)) \in BOOLEAN
    OBVIOUS
  <2>2. round' = [pc |-> "sync", todo |-> round.todo \ {d}, changed |-> round.changed \/ WritesBack(d)]
    BY <1>1, <1>3
  <2> QED BY <1>3, <2>1, <2>2 DEF Round
<1>6. /\ ValuesInv'
      /\ \A id \in Ids \ {d} : value'[id] = value[id]
      /\ up # "unloading" => value'[d] = Reachable(d) \/ Forgetting(d)
  <2>1. DOMAIN MarkerWrites(d) = {d} /\ MarkerWrites(d)[d] = Reachable(d)
    BY DEF MarkerWrites
  <2>2. d \in Ids /\ TypeOf(d) = BOOLEAN /\ d # Out
    BY <1>3, IdFacts, ShownAssumption
  <2> QED BY <1>1, <1>2, <1>4, <2>1, <2>2, WriteWrites DEF ShownInv
<1>7. DevicesTyped'
  <2>1. flag' \in [Devs -> BOOLEAN] /\ resolved' \in [Devs -> BOOLEAN \cup {None}]
    BY <1>1, <1>3, <1>4 DEF ShownInv, DevicesTyped
  <2>2. word' \in [Devs -> {"yes", "no", "silent"}]
    BY <1>1, <1>3 DEF ShownInv, DevicesTyped, WordAfter
  <2> QED BY <1>2, <1>5, <2>1, <2>2 DEF ShownInv, DevicesTyped
<1>8. TreesKnown'
  BY <1>2 DEF ShownInv, TreesKnown, Forgetting
<1>9. MarkersShown'
  <2> SUFFICES ASSUME up = "run", NEW e \in cached, ~Forgetting(e)
               PROVE  resolved'[e] = value'[e] /\ value'[e] \in BOOLEAN
    BY <1>2 DEF MarkersShown, Forgetting
  <2>1. e \in Devs /\ e \in Ids /\ resolved \in [Devs -> BOOLEAN \cup {None}]
    BY IdFacts DEF ShownInv, DevicesTyped
  <2>2. CASE e = d
    BY <1>1, <1>4, <1>6, <2>1, <2>2
  <2>3. CASE e # d
    BY <1>1, <1>6, <2>1, <2>3 DEF ShownInv, MarkersShown
  <2> QED BY <2>2, <2>3
<1>10. VerdictsKnown'
  <2>1. \A e \in Devs \ {d} : word'[e] = word[e] /\ flag'[e] = flag[e]
    BY <1>1 DEF ShownInv, DevicesTyped, WordAfter
  <2>2. word'[d] = (IF Proven(d) THEN heard[d] ELSE word[d])
    BY <1>1, <1>3 DEF ShownInv, DevicesTyped, WordAfter
  <2>3. flag'[d] = (IF WritesBack(d) THEN Reachable(d) ELSE flag[d])
    BY <1>1, <1>3 DEF ShownInv, DevicesTyped
  <2>4. d \notin here => word'[d] = "silent"
    BY <1>3, <2>2 DEF ShownInv, VerdictsKnown, Proven
  <2>5. d \in here \cap LightDevs /\ word'[d] # "silent" => flag'[d] = (word'[d] = "yes")
    <3>1. CASE Proven(d) /\ d \in LightDevs
      <4>1. word'[d] = heard[d]
        BY <2>2, <3>1
      <4>2. flag'[d] = Reachable(d)
        BY <2>3, <3>1 DEF WritesBack
      <4> QED BY <4>1, <4>2 DEF Reachable
    <3>2. CASE ~Proven(d)
      <4>1. ~Reachable(d)
        BY <3>2 DEF Proven, Reachable
      <4>2. flag'[d] = flag[d] /\ word'[d] = word[d]
        BY <2>2, <2>3, <3>2, <4>1 DEF WritesBack
      <4> QED BY <4>2 DEF ShownInv, VerdictsKnown, WordOutlivesSilence
    <3> QED BY <3>1, <3>2
  <2> QED BY <1>2, <2>1, <2>4, <2>5 DEF ShownInv, VerdictsKnown, WordOutlivesSilence, DevicesTyped
<1>11. RoundSoFar'
  <2>1. settled # "yes"
    BY <1>2 DEF ShownInv, RoundSoFar, NoRound
  <2>2. ASSUME settled = "round", NEW e \in here
        PROVE  e \in round'.todo \/ value'[e] = Reachable(e)
    <3>1. ~Forgetting(d) /\ up = "run" /\ e \in Ids
      BY <2>2, IdFacts DEF ShownInv, RoundSoFar, Forgetting, NoReap, DevicesTyped
    <3>2. e \in round.todo \/ value[e] = Reachable(e)
      BY <2>2 DEF ShownInv, RoundSoFar
    <3> QED BY <1>5, <1>6, <3>1, <3>2
  <2>3. \A e \in Devs : Reachable(e)' = Reachable(e)
    BY <1>2 DEF Reachable
  <2>4. here \subseteq Devs
    BY DEF ShownInv, DevicesTyped
  <2> QED BY <1>2, <1>5, <2>1, <2>2, <2>3, <2>4 DEF ShownInv, RoundSoFar
<1> QED BY <1>6, <1>7, <1>8, <1>9, <1>10, <1>11 DEF ShownInv

\* What every marker of a tree resolved to is what it shows, when nothing is deleted.
LEMMA MarkersAgree ==
  ASSUME ShownInv, up = "run", reap = NoReap
  PROVE  cached = built /\ {d \in cached : resolved[d] = TRUE} = {d \in built : value[d] = TRUE}
<1>1. \A d \in Devs : ~Forgetting(d)
  BY DEF Forgetting, NoReap
<1>2. cached = built
  BY <1>1 DEF ShownInv, TreesKnown, DevicesTyped
<1>3. \A d \in cached : resolved[d] = value[d]
  BY <1>1 DEF ShownInv, MarkersShown, DevicesTyped
<1> QED BY <1>2, <1>3

\* The group follows its members.
LEMMA GroupsKeeps == ASSUME ShownInv, ~WritesFail, RoundGroups PROVE ShownInv'
<1>1. /\ round.pc = "sync" /\ round.todo = {}
      /\ round' = [pc |-> "rollup", found |-> MarkersCounted]
      /\ \/ writeReadOnly(GroupWrites) /\ primed' = TRUE
         \/ UNCHANGED <<remembered, value, primed>>
      /\ UNCHANGED <<runs, up, here, group, heard, word, flag, built, ensured, cached, resolved, reap,
                     settled>>
  BY DEF RoundGroups, deviceWorld, treeWorld
<1>2. here \subseteq Devs /\ cached \subseteq Devs
  BY DEF ShownInv, DevicesTyped
<1>3. ValuesInv' /\ \A d \in Devs : value'[d] = value[d]
  <2>1. CASE writeReadOnly(GroupWrites)
    <3> DEFINE w == GroupWrites
    <3>1. DOMAIN w = {GroupOnline, Out} /\ w[Out] = Unreachable /\ w[GroupOnline] \in BOOLEAN
      BY ShownAssumption DEF GroupWrites
    <3>2. Unreachable \in SUBSET Devs
      BY <1>2 DEF Unreachable
    <3>3. TypeOf(Out) = SUBSET Devs /\ TypeOf(GroupOnline) = BOOLEAN /\ DOMAIN w \subseteq Ids
      BY <3>1, IdFacts
    <3> HIDE DEF w
    <3>4. \A id \in DOMAIN w : w[id] \in TypeOf(id)
      BY <3>1, <3>2, <3>3
    <3>5. ValuesInv' /\ \A id \in Ids \ DOMAIN w : value'[id] = value[id]
      BY <1>1, <2>1, <3>3, <3>4, WriteWrites DEF ShownInv, w
    <3>6. \A d \in Devs : d \in Ids \ DOMAIN w
      BY <3>1, IdFacts, ShownAssumption
    <3> QED BY <3>5, <3>6
  <2>2. CASE UNCHANGED <<remembered, value>>
    BY <1>1, <2>2, NothingShown DEF ShownInv, Forgetting
  <2> QED BY <1>1, <2>1, <2>2
<1>4. MarkersCounted.total = Cardinality(cached)
      /\ MarkersCounted.online = Cardinality({d \in cached : resolved[d] = TRUE})
      /\ MarkersCounted \in [total : Counts, online : Counts]
  <2>1. {d \in cached : resolved[d] = TRUE} \in SUBSET Devs /\ cached \in SUBSET Devs
    BY <1>2
  <2>2. Cardinality(cached) \in Counts
        /\ Cardinality({d \in cached : resolved[d] = TRUE}) \in Counts
    BY <2>1, IdFacts
  <2> QED BY <2>2 DEF MarkersCounted
<1>5. DevicesTyped'
  <2>1. round' \in Round
    BY <1>1, <1>4 DEF Round
  <2>2. primed' \in BOOLEAN
    BY <1>1 DEF ShownInv, DevicesTyped
  <2> QED BY <1>1, <2>1, <2>2 DEF ShownInv, DevicesTyped
<1>6. TreesKnown' /\ VerdictsKnown'
  BY <1>1 DEF ShownInv, TreesKnown, VerdictsKnown, WordOutlivesSilence, Forgetting
<1>7. MarkersShown'
  BY <1>1, <1>2, <1>3 DEF ShownInv, MarkersShown, Forgetting
<1>8. RoundSoFar'
  <2>1. settled # "yes"
    BY <1>1 DEF ShownInv, RoundSoFar, NoRound
  <2>2. CASE settled = "no"
    BY <1>1, <2>2 DEF RoundSoFar
  <2>3. CASE settled = "round"
    <3>1. up = "run" /\ reap = NoReap
      BY <2>3 DEF ShownInv, RoundSoFar
    <3>2. cached = built
          /\ {d \in cached : resolved[d] = TRUE} = {d \in built : value[d] = TRUE}
      BY <3>1, MarkersAgree
    <3>3. {d \in built : value'[d] = TRUE} = {d \in built : value[d] = TRUE}
      BY <1>2, <1>3, <3>2
    <3>4. \A d \in here : value'[d] = Reachable(d)'
      BY <1>1, <1>2, <1>3, <2>3 DEF ShownInv, RoundSoFar, Reachable
    <3>5. round'.pc = "rollup" /\ round'.found = MarkersCounted
      BY <1>1
    <3> QED BY <1>1, <1>4, <2>3, <3>1, <3>2, <3>3, <3>4, <3>5 DEF RoundSoFar
  <2> QED BY <2>1, <2>2, <2>3 DEF ShownInv, DevicesTyped
<1> QED BY <1>3, <1>5, <1>6, <1>7, <1>8 DEF ShownInv

\* A round ends with the counts of the markers it found.
LEMMA RollupKeeps == ASSUME ShownInv, ~WritesFail, RoundWrites PROVE ShownInv'
<1> DEFINE n == round.found
           w == [id \in {Total, Online, All} |->
                    IF id = Total THEN n.total
                    ELSE IF id = Online THEN n.online
                    ELSE n.total > 0 /\ n.online = n.total]
<1>1. /\ round.pc = "rollup" /\ writeReadOnly(w) /\ round' = NoRound
      /\ settled' = IF settled = "round" /\ up = "run" THEN "yes" ELSE "no"
      /\ UNCHANGED <<runs, up, here, group, heard, word, flag, built, ensured, cached, resolved,
                     primed, reap>>
  BY DEF RoundWrites, deviceWorld, treeWorld
<1>2. n.total \in Counts /\ n.online \in Counts
  BY <1>1 DEF ShownInv, DevicesTyped, Round, NoRound
<1>3. here \subseteq Devs /\ cached \subseteq Devs /\ built \subseteq Devs
  BY DEF ShownInv, DevicesTyped
<1> HIDE DEF n
<1>4. /\ DOMAIN w = {Total, Online, All} /\ w[Total] = n.total /\ w[Online] = n.online
      /\ w[All] = (n.total > 0 /\ n.online = n.total) /\ w[All] \in BOOLEAN
  BY ShownAssumption
<1> HIDE DEF w
<1>5. /\ ValuesInv'
      /\ \A d \in Devs : value'[d] = value[d]
      /\ up # "unloading" => \A id \in {Total, Online, All} : value'[id] = w[id] \/ Forgetting(id)
  <2>1. DOMAIN w \subseteq Ids /\ \A id \in DOMAIN w : w[id] \in TypeOf(id) /\ id # Out
    BY <1>2, <1>4, IdFacts, ShownAssumption
  <2>2. \A d \in Devs : d \in Ids \ DOMAIN w
    BY <1>4, IdFacts, ShownAssumption
  <2> QED BY <1>1, <1>4, <2>1, <2>2, WriteWrites DEF ShownInv
<1>6. DevicesTyped'
  BY <1>1 DEF ShownInv, DevicesTyped, Round
<1>7. TreesKnown' /\ VerdictsKnown'
  BY <1>1 DEF ShownInv, TreesKnown, VerdictsKnown, WordOutlivesSilence, Forgetting
<1>8. MarkersShown'
  BY <1>1, <1>3, <1>5 DEF ShownInv, MarkersShown, Forgetting
<1>9. RoundSoFar'
  <2>1. CASE ~(settled = "round" /\ up = "run")
    BY <1>1, <2>1 DEF RoundSoFar
  <2>2. CASE settled = "round" /\ up = "run"
    <3>1. reap = NoReap /\ settled' = "yes" /\ up' = "run" /\ reap' = NoReap
      BY <1>1, <2>2 DEF ShownInv, RoundSoFar
    <3>2. n.total = Cardinality(built)
          /\ n.online = Cardinality({d \in built : value[d] = TRUE})
      BY <1>1, <2>2 DEF ShownInv, RoundSoFar, n
    <3>3. value'[Total] = n.total /\ value'[Online] = n.online
          /\ value'[All] = (n.total > 0 /\ n.online = n.total)
      BY <1>4, <1>5, <2>2, <3>1 DEF Forgetting, NoReap
    <3>4. {d \in built : value'[d] = TRUE} = {d \in built : value[d] = TRUE}
      BY <1>3, <1>5
    <3>5. (n.total > 0 /\ n.online = n.total) <=> (built # {} /\ \A d \in built : value'[d] = TRUE)
      <4> DEFINE on == {d \in built : value[d] = TRUE}
      <4>1. IsFiniteSet(built) /\ on \subseteq built
        BY <1>3, IdFacts
      <4> HIDE DEF on
      <4>2. Cardinality(on) = Cardinality(built) <=> on = built
        BY <4>1, FS_Subset
      <4>3. Cardinality(built) \in Nat /\ (Cardinality(built) = 0 <=> built = {})
        BY <4>1, FS_CardinalityType, FS_EmptySet
      <4>4. on = built <=> \A d \in built : value'[d] = TRUE
        BY <3>4 DEF on
      <4>5. n.total > 0 <=> built # {}
        BY <3>2, <4>3
      <4>6. n.online = n.total <=> on = built
        BY <3>2, <4>2 DEF on
      <4> QED BY <4>4, <4>5, <4>6
    <3>6. RollupCountsMarkers'
      BY <1>1, <3>2, <3>3, <3>4, <3>5 DEF RollupCountsMarkers
    <3>7. MarkersTellEvidence'
      BY <1>1, <1>3, <1>5, <2>2 DEF ShownInv, RoundSoFar, MarkersTellEvidence, Reachable
    <3> QED BY <1>1, <3>1, <3>6, <3>7 DEF RoundSoFar
  <2> QED BY <2>1, <2>2
<1> QED BY <1>5, <1>6, <1>7, <1>8, <1>9 DEF ShownInv

-----------------------------------------------------------------------------
\* Reports, devices, stop and start.

\* A device that reports is shown as it was heard.
LEMMA ReportShows ==
  ASSUME ShownInv, ~WritesFail, NEW d \in Devs, NEW said \in {"yes", "no"}, NEW carries \in BOOLEAN,
         Report(d, said, carries)
  PROVE  ShownInv'
<1>1. /\ up = "run" /\ d \in here /\ heard' = [heard EXCEPT ![d] = said] /\ settled' = "no"
      /\ word' = IF carries THEN [word EXCEPT ![d] = said] ELSE word
      /\ flag' = IF carries THEN [flag EXCEPT ![d] = (said = "yes")] ELSE flag
      /\ UNCHANGED <<runs, up, here, group, built, ensured, cached, round, primed, reap>>
  BY DEF Report, treeWorld
<1>2. (said = "yes") \in BOOLEAN
  OBVIOUS
<1>3. /\ ValuesInv'
      /\ \A e \in Devs \ {d} : value'[e] = value[e] /\ resolved'[e] = resolved[e]
      /\ resolved' \in [Devs -> BOOLEAN \cup {None}]
      /\ \/ value'[d] = value[d] /\ resolved'[d] = resolved[d]
         \/ resolved'[d] = (said = "yes") /\ (value'[d] = (said = "yes") \/ Forgetting(d))
  <2>0. resolved \in [Devs -> BOOLEAN \cup {None}] /\ here \subseteq Devs
    BY DEF ShownInv, DevicesTyped
  <2>1. CASE ~carries
    <3>1. UNCHANGED <<remembered, value, resolved>>
      BY <2>1 DEF Report
    <3> QED BY <1>1, <2>0, <3>1, NothingShown DEF ShownInv, Forgetting
  <2>2. CASE carries
    <3> DEFINE un == (Unreachable \ {d}) \cup (IF said = "yes" THEN {} ELSE {d})
               groups == [id \in (IF group THEN {GroupOnline, Out} ELSE {}) |->
                             IF id = Out THEN un ELSE un = {}]
               marker == [id \in {d} |-> said = "yes"]
               w == Both(groups, marker)
    <3>1. writeReadOnly(w) /\ resolved' = [resolved EXCEPT ![d] = (said = "yes")]
      BY <2>2 DEF Report
    <3>2. un \in SUBSET Devs /\ (un = {}) \in BOOLEAN
      BY <2>0 DEF Unreachable
    <3>3. DOMAIN groups \subseteq {GroupOnline, Out} /\ d \notin DOMAIN groups
          /\ DOMAIN marker = {d}
      BY ShownAssumption
    <3>4. ASSUME NEW id \in DOMAIN groups PROVE groups[id] \in TypeOf(id)
      <4>1. CASE id = Out
        BY <3>2, <4>1, IdFacts, Zenon
      <4>2. CASE id = GroupOnline
        <5>1. groups[id] = (un = {})
          BY <3>4, <4>2, ShownAssumption
        <5>2. TypeOf(id) = BOOLEAN
          BY <4>2, IdFacts
        <5> QED BY <3>2, <5>1, <5>2
      <4> QED BY <3>3, <3>4, <4>1, <4>2
    <3>5. \A id \in DOMAIN marker : marker[id] = (said = "yes") /\ id = d
      OBVIOUS
    <3> HIDE DEF un, groups, marker
    <3>6. DOMAIN w = DOMAIN groups \cup DOMAIN marker
          /\ \A id \in DOMAIN w : w[id] = IF id \in DOMAIN groups THEN groups[id] ELSE marker[id]
      BY DEF Both
    <3> HIDE DEF w
    <3>7. ASSUME NEW id \in DOMAIN w PROVE w[id] \in TypeOf(id)
      <4>1. CASE id \in DOMAIN groups
        BY <3>4, <3>6, <4>1
      <4>2. CASE id \notin DOMAIN groups
        <5>1. w[id] = (said = "yes") /\ id = d
          BY <3>5, <3>6, <3>7, <4>2
        <5>2. TypeOf(id) = BOOLEAN
          BY <5>1, IdFacts
        <5> QED BY <1>2, <5>1, <5>2
      <4> QED BY <4>1, <4>2
    <3>8. DOMAIN w \subseteq Ids
      BY <3>3, <3>6, IdFacts
    <3>9. /\ ValuesInv'
          /\ \A id \in Ids \ DOMAIN w : value'[id] = value[id]
          /\ \A id \in DOMAIN w : id # Out => value'[id] = w[id] \/ Forgetting(id)
      BY <1>1, <3>1, <3>7, <3>8, WriteWrites DEF ShownInv
    <3>10. \A e \in Devs \ {d} : e \in Ids \ DOMAIN w
      BY <3>3, <3>6, IdFacts, ShownAssumption
    <3>11. d \in DOMAIN w /\ d # Out /\ w[d] = (said = "yes")
      BY <3>3, <3>5, <3>6, ShownAssumption
    <3>12. value'[d] = (said = "yes") \/ Forgetting(d)
      BY <3>9, <3>11
    <3>13. resolved'[d] = (said = "yes") /\ resolved' \in [Devs -> BOOLEAN \cup {None}]
           /\ \A e \in Devs \ {d} : resolved'[e] = resolved[e]
      BY <1>2, <2>0, <3>1
    <3> QED BY <3>9, <3>10, <3>12, <3>13
  <2> QED BY <2>1, <2>2
<1>4. DevicesTyped'
  <2>1. heard' \in [Devs -> {"yes", "no", "silent"}]
        /\ word' \in [Devs -> {"yes", "no", "silent"}]
    BY <1>1 DEF ShownInv, DevicesTyped
  <2>2. flag' \in [Devs -> BOOLEAN]
    BY <1>1, <1>2 DEF ShownInv, DevicesTyped
  <2> QED BY <1>1, <1>3, <2>1, <2>2 DEF ShownInv, DevicesTyped
<1>5. TreesKnown'
  BY <1>1 DEF ShownInv, TreesKnown, Forgetting
<1>6. MarkersShown'
  <2> SUFFICES ASSUME NEW e \in cached, ~Forgetting(e)
               PROVE  resolved'[e] = value'[e] /\ value'[e] \in BOOLEAN
    BY <1>1 DEF MarkersShown, Forgetting
  <2>1. e \in Devs /\ resolved[e] = value[e] /\ value[e] \in BOOLEAN
    BY <1>1 DEF ShownInv, DevicesTyped, MarkersShown
  <2> QED BY <1>2, <1>3, <2>1
<1>7. VerdictsKnown'
  <2>1. \A e \in Devs \ {d} : word'[e] = word[e] /\ flag'[e] = flag[e] /\ heard'[e] = heard[e]
    BY <1>1 DEF ShownInv, DevicesTyped
  <2>2. word'[d] # "silent" /\ d \in LightDevs => flag'[d] = (word'[d] = "yes")
    <3>1. CASE carries
      <4>1. word'[d] = said /\ flag'[d] = (said = "yes")
        BY <1>1, <3>1 DEF ShownInv, DevicesTyped
      <4> QED BY <4>1
    <3>2. CASE ~carries
      BY <1>1, <3>2 DEF ShownInv, VerdictsKnown, WordOutlivesSilence
    <3> QED BY <3>1, <3>2
  <2> QED BY <1>1, <2>1, <2>2 DEF ShownInv, VerdictsKnown, WordOutlivesSilence, DevicesTyped
<1>8. RoundSoFar'
  BY <1>1 DEF RoundSoFar
<1> QED BY <1>3, <1>4, <1>5, <1>6, <1>7, <1>8 DEF ShownInv

\* Unless a device comes back while the cleanup runs, its tree is not deleted under it.
LEMMA BuildKeeps ==
  ASSUME ShownInv, ~WritesFail, ~Returns, NEW d \in Devs, BuildTree(d)
  PROVE  ShownInv'
<1>1. /\ up = "run" /\ (reap = NoReap \/ d \in here)
      /\ here' = here \cup {d} /\ built' = (IF d \in ensured THEN built ELSE built \cup {d})
      /\ ensured' = ensured \cup {d} /\ cached' = cached \cup {d}
      /\ resolved' = [resolved EXCEPT ![d] = Reachable(d)]
      /\ store(MarkerWrites(d))
      /\ flag' = IF WritesBack(d) THEN [flag EXCEPT ![d] = Reachable(d)] ELSE flag
      /\ settled' = "no" /\ word' = WordAfter(d)
      /\ UNCHANGED <<runs, up, group, heard, round, primed, reap>>
  BY DEF BuildTree, ensureState
<1>2. Reachable(d) \in BOOLEAN
  BY DEF Reachable
<1>3. ~Forgetting(d) /\ (reap.pc # "idle" => d \in here)
  BY <1>1 DEF ShownInv, TreesKnown, Forgetting, NoReap
<1>4. built' = built \cup {d}
  BY <1>1, <1>3 DEF ShownInv, TreesKnown
<1>5. /\ ValuesInv' /\ \A id \in Ids \ {d} : value'[id] = value[id]
      /\ value'[d] = Reachable(d)
  <2>1. DOMAIN MarkerWrites(d) = {d} /\ MarkerWrites(d)[d] = Reachable(d)
    BY DEF MarkerWrites
  <2>2. d \in Ids /\ TypeOf(d) = BOOLEAN /\ d # Out
    BY IdFacts, ShownAssumption
  <2> QED BY <1>1, <1>2, <1>3, <2>1, <2>2, StoreWrites DEF ShownInv
<1>6. DevicesTyped'
  <2>1. flag' \in [Devs -> BOOLEAN] /\ resolved' \in [Devs -> BOOLEAN \cup {None}]
    BY <1>1, <1>2 DEF ShownInv, DevicesTyped
  <2>2. word' \in [Devs -> {"yes", "no", "silent"}]
    BY <1>1 DEF ShownInv, DevicesTyped, WordAfter
  <2> QED BY <1>1, <1>4, <2>1, <2>2 DEF ShownInv, DevicesTyped
<1>7. TreesKnown'
  <2>1. \A e \in Devs : e \in cached' <=> e \in built' \/ Forgetting(e)'
    BY <1>1, <1>4 DEF ShownInv, TreesKnown, Forgetting
  <2>2. here' \subseteq built' /\ ensured' \subseteq cached'
    BY <1>1, <1>4 DEF ShownInv, TreesKnown
  <2>3. reap.pc # "idle" => here' = here /\ built' = built
    BY <1>1, <1>3, <1>4 DEF ShownInv, TreesKnown
  <2> QED BY <1>1, <2>1, <2>2, <2>3 DEF ShownInv, TreesKnown
<1>8. MarkersShown'
  <2> SUFFICES ASSUME NEW e \in cached', ~Forgetting(e)
               PROVE  resolved'[e] = value'[e] /\ value'[e] \in BOOLEAN
    BY <1>1 DEF MarkersShown, Forgetting
  <2>1. e \in Devs /\ e \in Ids /\ resolved \in [Devs -> BOOLEAN \cup {None}]
    BY <1>1, IdFacts DEF ShownInv, DevicesTyped
  <2>2. CASE e = d
    BY <1>1, <1>2, <1>5, <2>1, <2>2
  <2>3. CASE e # d
    BY <1>1, <1>5, <2>1, <2>3 DEF ShownInv, MarkersShown
  <2> QED BY <2>2, <2>3
<1>9. VerdictsKnown'
  <2>1. \A e \in Devs \ {d} : word'[e] = word[e] /\ flag'[e] = flag[e]
    BY <1>1 DEF ShownInv, DevicesTyped, WordAfter
  <2>2. word'[d] = (IF Proven(d) THEN heard[d] ELSE word[d])
    BY <1>1 DEF ShownInv, DevicesTyped, WordAfter
  <2>3. flag'[d] = (IF WritesBack(d) THEN Reachable(d) ELSE flag[d])
    BY <1>1 DEF ShownInv, DevicesTyped
  <2>4. d \in LightDevs /\ word'[d] # "silent" => flag'[d] = (word'[d] = "yes")
    <3>1. CASE Proven(d) /\ d \in LightDevs
      <4>1. word'[d] = heard[d]
        BY <2>2, <3>1
      <4>2. flag'[d] = Reachable(d)
        BY <2>3, <3>1 DEF WritesBack
      <4> QED BY <4>1, <4>2 DEF Reachable
    <3>2. CASE ~Proven(d)
      <4>1. ~Reachable(d)
        BY <3>2 DEF Proven, Reachable
      <4>2. flag'[d] = flag[d] /\ word'[d] = word[d]
        BY <2>2, <2>3, <3>2, <4>1 DEF WritesBack
      <4> QED BY <4>2 DEF ShownInv, VerdictsKnown, WordOutlivesSilence
    <3> QED BY <3>1, <3>2
  <2> QED BY <1>1, <2>1, <2>4 DEF ShownInv, VerdictsKnown, WordOutlivesSilence, DevicesTyped
<1>10. RoundSoFar'
  BY <1>1 DEF RoundSoFar
<1> QED BY <1>5, <1>6, <1>7, <1>8, <1>9, <1>10 DEF ShownInv

\* The last words of a run and the first of the next are the same.
LEMMA OfflineFits ==
  ASSUME NEW ds \in SUBSET Devs
  PROVE  /\ DOMAIN OfflineWrites(ds) = ds \cup {GroupOnline, Online, All}
         /\ DOMAIN OfflineWrites(ds) \subseteq Ids
         /\ \A d \in ds : OfflineWrites(ds)[d] = FALSE
         /\ \A id \in DOMAIN OfflineWrites(ds) : OfflineWrites(ds)[id] \in TypeOf(id)
<1> DEFINE w == OfflineWrites(ds)
<1>1. DOMAIN w = ds \cup {GroupOnline, Online, All} /\ w[Online] = 0
      /\ \A id \in ds \cup {GroupOnline, All} : w[id] = FALSE
  BY ShownAssumption DEF OfflineWrites
<1> HIDE DEF w
<1>2. 0 \in Counts
  BY IdFacts DEF Counts
<1>3. ASSUME NEW id \in DOMAIN w PROVE w[id] \in TypeOf(id)
  <2>1. CASE id = Online
    BY <1>1, <1>2, <2>1, IdFacts
  <2>2. CASE id \in ds \cup {GroupOnline, All}
    <3>1. TypeOf(id) = BOOLEAN /\ w[id] = FALSE
      BY <1>1, <2>2, IdFacts
    <3> QED BY <3>1
  <2> QED BY <1>1, <1>3, <2>1, <2>2
<1>4. DOMAIN w \subseteq Ids
  BY <1>1, IdFacts
<1> QED BY <1>1, <1>3, <1>4 DEF w

\* The unload says that nothing is reachable.
LEMMA UnloadKeeps == ASSUME ShownInv, ~WritesFail, Unload PROVE ShownInv'
<1>1. /\ up = "run" /\ up' = "unloading" /\ settled' = "no" /\ store(OfflineWrites(cached))
      /\ resolved' = [d \in Devs |-> IF d \in cached THEN FALSE ELSE resolved[d]]
      /\ UNCHANGED <<runs, here, group, heard, word, flag, built, ensured, cached, round, primed, reap>>
  BY DEF Unload, deviceWorld, treeWorld
<1>2. ValuesInv'
  <2>1. cached \in SUBSET Devs
    BY DEF ShownInv, DevicesTyped
  <2> QED BY <1>1, <2>1, OfflineFits, StoreWrites DEF ShownInv
<1>3. DevicesTyped'
  <2>1. resolved' \in [Devs -> BOOLEAN \cup {None}]
    BY <1>1 DEF ShownInv, DevicesTyped
  <2> QED BY <1>1, <2>1 DEF ShownInv, DevicesTyped
<1>4. TreesKnown' /\ MarkersShown' /\ VerdictsKnown' /\ RoundSoFar'
  BY <1>1 DEF ShownInv, TreesKnown, MarkersShown, VerdictsKnown, WordOutlivesSilence,
     RoundSoFar,
              Forgetting
<1> QED BY <1>2, <1>3, <1>4 DEF ShownInv

\* After the unload nothing is known, and what is shown stays.
LEMMA EndsKeeps == ASSUME ShownInv, Ends PROVE ShownInv'
<1>1. /\ up' = "down" /\ here' = {} /\ group' = FALSE
      /\ heard' = [d \in Devs |-> "silent"] /\ word' = [d \in Devs |-> "silent"]
      /\ flag' = [d \in Devs |-> FALSE] /\ ensured' = {} /\ cached' = {}
      /\ resolved' = [d \in Devs |-> None] /\ remembered' = [id \in Ids |-> None]
      /\ round' = NoRound /\ reap' = NoReap /\ primed' = FALSE /\ settled' = "no"
      /\ UNCHANGED <<runs, built, value>>
  BY DEF Ends
<1>2. DevicesTyped'
  <2>1. heard' \in [Devs -> {"yes", "no", "silent"}]
        /\ word' \in [Devs -> {"yes", "no", "silent"}]
    BY <1>1
  <2>2. flag' \in [Devs -> BOOLEAN] /\ resolved' \in [Devs -> BOOLEAN \cup {None}]
    BY <1>1
  <2> QED BY <1>1, <2>1, <2>2 DEF ShownInv, DevicesTyped, Round, Cleanup
<1>3. ValuesInv'
  BY <1>1 DEF ShownInv, ValuesInv, ValuesTyped, MemoryIsWritten, TypeOf
<1>4. TreesKnown'
  BY <1>1 DEF TreesKnown, NoReap
<1>5. MarkersShown' /\ VerdictsKnown' /\ RoundSoFar'
  BY <1>1 DEF MarkersShown, VerdictsKnown, WordOutlivesSilence, RoundSoFar
<1> QED BY <1>2, <1>3, <1>4, <1>5 DEF ShownInv

\* A start finds the trees, and the markers as they were left.
LEMMA StartsKeeps == ASSUME ShownInv, Starts PROVE ShownInv'
<1> DEFINE w == OfflineWrites(built)
<1>1. /\ up = "down" /\ runs < MaxRuns /\ runs' = runs + 1 /\ up' = "run" /\ cached' = built
      /\ resolved' = [d \in Devs |-> IF d \in built THEN FALSE ELSE None]
      /\ value' = [id \in Ids |-> IF id \in DOMAIN w THEN w[id] ELSE value[id]]
      /\ \E m \in {value, remembered} :
            remembered' = [id \in Ids |-> IF id \in DOMAIN w THEN w[id] ELSE m[id]]
      /\ UNCHANGED <<here, group, heard, word, flag, built, ensured, round, primed, reap, settled>>
  BY DEF Starts, StoredIn, onlineMarkerIds, deviceWorld
<1>2. built \in SUBSET Devs /\ here = {} /\ ensured = {} /\ reap = NoReap /\ settled = "no"
  BY <1>1 DEF ShownInv, DevicesTyped, TreesKnown, RoundSoFar
<1>3. /\ DOMAIN w = built \cup {GroupOnline, Online, All}
      /\ \A d \in built : w[d] = FALSE
      /\ \A id \in DOMAIN w : w[id] \in TypeOf(id)
  BY <1>2, OfflineFits
<1> HIDE DEF w
<1>4. ValuesInv'
  <2>1. PICK m \in {value, remembered} :
           remembered' = [id \in Ids |-> IF id \in DOMAIN w THEN w[id] ELSE m[id]]
    BY <1>1
  <2>2. \A id \in Ids : remembered'[id] \in TypeOf(id) \cup {None} /\ value'[id] \in TypeOf(id) \cup {None}
    BY <1>1, <1>3, <2>1 DEF ShownInv, ValuesInv, ValuesTyped
  <2>3. \A id \in Ids : m[id] \in {None, value[id]}
    BY <1>2 DEF ShownInv, ValuesInv, MemoryIsWritten, NoReap
  <2>4. \A id \in Ids : remembered'[id] \in {None, value'[id]}
    BY <1>1, <2>1, <2>3
  <2>5. DOMAIN value' = Ids /\ DOMAIN remembered' = Ids
    BY <1>1, <2>1
  <2> QED BY <2>2, <2>4, <2>5 DEF ValuesInv, ValuesTyped, MemoryIsWritten, TypeOf
<1>5. DevicesTyped'
  <2>1. resolved' \in [Devs -> BOOLEAN \cup {None}]
    BY <1>1
  <2>2. runs' \in 0..MaxRuns
    BY <1>1, ShownAssumption DEF ShownInv, DevicesTyped
  <2> QED BY <1>1, <2>1, <2>2 DEF ShownInv, DevicesTyped
<1>6. TreesKnown'
  BY <1>1, <1>2 DEF TreesKnown, Forgetting, NoReap
<1>7. MarkersShown'
  <2> SUFFICES ASSUME NEW d \in built PROVE resolved'[d] = value'[d] /\ value'[d] \in BOOLEAN
    BY <1>1 DEF MarkersShown
  <2>1. d \in Devs /\ d \in Ids /\ d \in DOMAIN w
    BY <1>2, <1>3, IdFacts
  <2> QED BY <1>1, <1>3, <2>1
<1>8. VerdictsKnown' /\ RoundSoFar'
  BY <1>1, <1>2 DEF ShownInv, VerdictsKnown, WordOutlivesSilence, RoundSoFar
<1> QED BY <1>4, <1>5, <1>6, <1>7, <1>8 DEF ShownInv

\* Every step of the adapter keeps the invariant.
LEMMA ShownStep ==
  ASSUME ShownInv, ~WritesFail, ~Returns, [ShownNext]_shownVars
  PROVE  ShownInv'
<1>1. CASE UNCHANGED shownVars
  <2>1. DevicesTyped' /\ TreesKnown' /\ MarkersShown'
    BY <1>1 DEF shownVars, ShownInv, DevicesTyped, TreesKnown, MarkersShown, Forgetting
  <2>2. ValuesInv'
    BY <1>1, NothingShown DEF shownVars, ShownInv, Forgetting
  <2>3. VerdictsKnown'
    BY <1>1 DEF shownVars, ShownInv, VerdictsKnown, WordOutlivesSilence
  <2>4. RoundSoFar'
    BY <1>1 DEF shownVars, ShownInv, RoundSoFar, RollupCountsMarkers, MarkersTellEvidence,
       Reachable
  <2> QED BY <2>1, <2>2, <2>3, <2>4 DEF ShownInv
<1>2. CASE RoundBegins \/ RoundSyncs \/ RoundGroups \/ RoundWrites
  BY <1>2, BeginsKeeps, SyncsKeeps, GroupsKeeps, RollupKeeps
<1>3. CASE \E d \in Devs :
             \/ \E said \in {"yes", "no"}, carries \in BOOLEAN : Report(d, said, carries)
             \/ FallsSilent(d) \/ BuildTree(d) \/ Leaves(d) \/ DeleteTree(d)
  BY <1>3, ReportShows, SilentKeeps, BuildKeeps, LeavesKeeps, DeleteTreeKeeps
<1>4. CASE GroupArrives \/ CleanupBegins \/ CleanupLists \/ ForgetPrefix \/ Unload \/ Ends \/ Starts
  BY <1>4, ArrivesKeeps, CleanupKeeps, ForgetKeeps, UnloadKeeps, EndsKeeps, StartsKeeps
<1> QED BY <1>1, <1>2, <1>3, <1>4 DEF ShownNext

\* What memory holds is what the database holds, a quiet round counts and shows what is
\* known, and silence is never shown as a verdict - for any number of devices and runs,
\* while writes to the database succeed and no device comes back during a cleanup
\* (state-manager.ts, online-sync.ts, device-reaper.ts).
THEOREM ShownStaysTrue ==
  ASSUME ~WritesFail, ~Returns
  PROVE  ShownSpec => []ShownIsTrue
<1>1. ShownInv /\ [ShownNext]_shownVars => ShownInv'
  BY ShownStep
<1> QED BY <1>1, InitShown, ShownInvIsTrue, PTL DEF ShownSpec

-----------------------------------------------------------------------------
\* What a datapoint, a command and an answer may hold, by the kind of the appliance.
ShownValue == IF IsMode THEN Levels ELSE Int
Command == IF IsMode THEN Modes \X Levels ELSE Degrees \X ({0, 1} \cup {None})
Reading == IF IsMode THEN Modes \X Levels ELSE Int \X {0, 1}

Open == [half : Half, val : ShownValue, at : {"read", "queued", "taken"},
         cmd : Command \cup {None}, sure : BOOLEAN]
HalfPoint == [val : ShownValue \cup {None}, ack : BOOLEAN, by : {"none", "wish", "ack", "cloud"}]
Answer == [pair : Reading, unit : {"none", "F", "C"}, online : BOOLEAN]

\* A level that mode m declares.
Declares(m, v) ==
  \/ v \in ToSet(shape.list[m])
  \/ shape.list[m] = <<>> /\ v \in ToSet(shape.flat)
  \/ /\ shape.list[m] = <<>> /\ shape.flat = <<>>
     /\ IF shape.range[m] # None THEN v \in shape.range[m][1]..shape.range[m][2]
        ELSE v = shape.dflt[m]

Declared(c) == IF IsMode THEN c[1] \in Modes /\ Declares(c[1], c[2]) ELSE c[1] \in Degrees

\* A level of one mode only, in a dropdown.
OwnedLevel(v) ==
  /\ shape.named /\ ~HasRange
  /\ \E m \in Modes : \A n \in Modes : v \in ToSet(shape.list[n]) <=> n = m
  /\ \A m, n \in Modes : m # n => ToSet(shape.list[m]) \cap ToSet(shape.list[n]) = {}
  /\ \A m \in Modes : ToSet(shape.list[m]) \cap ToSet(shape.flat) = {}

AsWritten(h, v, c) ==
  IsMode => /\ h = 1 => c[1] = v
            /\ h = 2 /\ OwnedLevel(v) => c[2] = v /\ v \in ToSet(shape.list[c[1]])

\* A write under way: what is sent is declared, and what was written.
OpenFits(o) ==
  /\ o \in Open
  /\ o.at = "read" => o.cmd = None
  /\ o.at # "read" => o.cmd \in Command /\ Declared(o.cmd) /\ AsWritten(o.half, o.val, o.cmd)

\* A write that relies on what the tree showed of the temperature, t, finds the
\* device there, at d, and sends that back.
OpenSure(o, t, d) ==
  ~IsMode /\ o.half = 2 /\ o.sure =>
    /\ o.at = "read" => t = TemperatureShown(d)
    /\ o.at = "queued" => o.cmd[1] = d

PairTyped ==
  /\ shape \in Shapes /\ reach \in BOOLEAN /\ quiet \in BOOLEAN /\ fresh \in BOOLEAN
  /\ dev \in Pairs /\ memory \in Pairs
  /\ cell \in [Half -> HalfPoint] /\ \A h \in Half : cell[h].ack <=> cell[h].by \in {"ack", "cloud"}
  /\ ops \in Seq(Open)
  /\ answer = None \/ (answer \in Answer /\ (answer.unit # "none" => ~IsMode))
  /\ count \in [ops : 0..shape.ops, turns : 0..shape.turns] /\ Len(ops) <= count.ops

\* An answer that was given online and is still true tells what the device does.
AnswerTells ==
  answer # None /\ answer.online /\ quiet =>
    IF IsMode THEN answer.pair = dev ELSE ShownHalf(answer, 1) = TemperatureShown(dev[1])

OpsFit == \A i \in DOMAIN ops : OpenFits(ops[i]) /\ OpenSure(ops[i], cell[1].val, dev[1])

PairInv ==
  /\ PairTyped
  /\ reach => memory = dev
  /\ AnswerTells
  /\ OpsFit
  /\ OnlyListedShown
  /\ ReadShowsDevice

-----------------------------------------------------------------------------
\* A whole degree Fahrenheit survives being shown in tenths of a degree Celsius.
LEMMA DegreeReturns ==
  ASSUME NEW f \in Int
  PROVE  /\ fahrenheitToCelsius(f) \in Int
         /\ celsiusToFahrenheit(fahrenheitToCelsius(f)) = f
<1> DEFINE c == (100 * (f - 32) + 9) \div 18
<1>1. fahrenheitToCelsius(f) = c
  BY DEF fahrenheitToCelsius, RoundUp
<1>2. c \in Int /\ 18 * c <= 100 * (f - 32) + 9 /\ 100 * (f - 32) + 9 < 18 * c + 18
  OBVIOUS
<1>3. celsiusToFahrenheit(c) = (2 * (9 * c + 1600) + 50) \div 100
  BY <1>2 DEF celsiusToFahrenheit, RoundUp
<1> HIDE DEF c
<1>4. (2 * (9 * c + 1600) + 50) \div 100 = f
  BY <1>2
<1> QED BY <1>1, <1>2, <1>3, <1>4

\* A temperature in Fahrenheit is a number.
LEMMA DegreeIsInt ==
  ASSUME NEW c \in Int
  PROVE  celsiusToFahrenheit(c) \in Int
BY DEF celsiusToFahrenheit, RoundUp

\* What a heater declares, and what that makes of its degrees.
LEMMA HeatFacts ==
  ASSUME shape \in Shapes, ~IsMode
  PROVE  /\ shape.lo \in Int /\ shape.hi \in Int /\ shape.lo < shape.hi
         /\ shape.fahrenheit \in BOOLEAN /\ shape.stops \subseteq {0, 1}
         /\ \A f \in Int : TemperatureShown(f) \in Int
         /\ Degrees \subseteq Int /\ shape.lo..shape.hi \subseteq Degrees
         /\ \A c \in Int : TemperatureTaken(c) \in Degrees
         /\ \A f \in Degrees : TemperatureTaken(TemperatureShown(f)) = f
<1>1. HeatShape(shape)
  BY ApplianceAssumption DEF IsMode
<1>2. /\ shape.lo \in Int /\ shape.hi \in Int /\ shape.lo < shape.hi
      /\ shape.fahrenheit \in BOOLEAN /\ shape.stops \subseteq {0, 1}
  BY <1>1 DEF HeatShape
<1>3. \A f \in Int : TemperatureShown(f) \in Int
  BY DegreeReturns DEF TemperatureShown
<1>4. \A c \in Int : TemperatureTaken(c) \in Degrees
  BY <1>2, DegreeIsInt DEF TemperatureTaken, Within, Degrees
<1>5. \A f \in Degrees : TemperatureTaken(TemperatureShown(f)) = f
  BY <1>2, DegreeReturns DEF TemperatureTaken, TemperatureShown, Within, Degrees
<1>6. Degrees \subseteq Int /\ shape.lo..shape.hi \subseteq Degrees
  BY <1>2 DEF Degrees
<1> QED BY <1>2, <1>3, <1>4, <1>5, <1>6

\* What an appliance of work modes declares.
LEMMA ModeFacts ==
  ASSUME shape \in Shapes, IsMode
  PROVE  /\ shape.modes \in Seq(Levels) /\ shape.modes # <<>> /\ Modes \subseteq Levels
         /\ shape.modes[1] \in Modes
         /\ shape.flat \in Seq(Levels) /\ shape.list \in [Modes -> Seq(Levels)]
         /\ shape.dflt \in [Modes -> Levels]
         /\ \A m \in Modes : \/ shape.range[m] = None
                             \/ /\ shape.range[m] \in Levels \X Levels
                                /\ shape.range[m][1] <= shape.range[m][2]
         /\ Levels \subseteq Nat
<1>1. ModeShape(shape)
  <2>1. shape.kind # "heat"
    BY DEF IsMode
  <2> QED BY <2>1, ApplianceAssumption
<1>2. shape.modes \in Seq(Levels) /\ shape.modes # <<>> /\ shape.flat \in Seq(Levels)
      /\ shape.list \in [Modes -> Seq(Levels)] /\ shape.dflt \in [Modes -> Levels]
  BY <1>1 DEF ModeShape, Modes
<1>3. Modes \subseteq Levels
  BY <1>2, ElementOfSeq, LenProperties DEF Modes, ToSet
<1>4. shape.modes[1] \in Modes
  BY <1>2, EmptySeq, LenProperties DEF Modes, ToSet
<1>5. \A m \in Modes : \/ shape.range[m] = None
                       \/ /\ shape.range[m] \in Levels \X Levels
                          /\ shape.range[m][1] <= shape.range[m][2]
  BY <1>1 DEF ModeShape, Modes
<1> QED BY <1>2, <1>3, <1>4, <1>5, ApplianceAssumption

\* An option of a list is one of the list's.
LEMMA OptionIsListed ==
  ASSUME NEW options \in Seq(Levels), options # <<>>, NEW v
  PROVE  OptionOr(options, v) \in ToSet(options) /\ ToSet(options) \subseteq Levels
<1>1. options[1] \in ToSet(options)
  BY EmptySeq, LenProperties DEF ToSet
<1>2. ToSet(options) \subseteq Levels
  BY ElementOfSeq, LenProperties DEF ToSet
<1> QED BY <1>1, <1>2 DEF OptionOr

\* The level that goes out with mode m is one that m declares.
LEMMA LevelIsDeclared ==
  ASSUME shape \in Shapes, IsMode, NEW m \in Modes, NEW v \in Levels \cup {None}
  PROVE  LevelOf(m, v) \in Levels /\ Declares(m, LevelOf(m, v))
<1>1. shape.list[m] \in Seq(Levels) /\ shape.flat \in Seq(Levels) /\ shape.dflt[m] \in Levels
      /\ Levels \subseteq Nat
  BY ModeFacts
<1>2. CASE shape.list[m] # <<>>
  <2>1. LevelOf(m, v) = OptionOr(shape.list[m], v)
    BY <1>2 DEF LevelOf, OwnLevels
  <2> QED BY <1>1, <1>2, <2>1, OptionIsListed DEF Declares
<1>3. CASE shape.list[m] = <<>> /\ shape.flat # <<>>
  <2>1. LevelOf(m, v) = OptionOr(shape.flat, v)
    BY <1>3 DEF LevelOf, OwnLevels
  <2> QED BY <1>1, <1>3, <2>1, OptionIsListed DEF Declares
<1>4. CASE shape.list[m] = <<>> /\ shape.flat = <<>>
  <2>1. CASE shape.range[m] # None
    <3>1. shape.range[m] \in Levels \X Levels /\ shape.range[m][1] <= shape.range[m][2]
      BY <2>1, ModeFacts
    <3> DEFINE a == shape.range[m][1]
               b == shape.range[m][2]
    <3>2. a \in Levels /\ b \in Levels /\ a <= b /\ a \in Nat /\ b \in Nat
      BY <1>1, <3>1
    <3>3. LevelOf(m, v) = IF v = None THEN a ELSE Within(v, a, b)
      BY <1>4, <2>1 DEF LevelOf, OwnLevels
    <3> HIDE DEF a, b
    <3>4. LevelOf(m, v) \in Levels /\ LevelOf(m, v) \in a..b
      <4>1. CASE v = None
        BY <3>2, <3>3, <4>1
      <4>2. CASE v # None
        <5>1. v \in Levels /\ v \in Nat
          BY <1>1, <4>2
        <5> QED BY <3>2, <3>3, <4>2, <5>1 DEF Within
      <4> QED BY <4>1, <4>2
    <3> QED BY <1>4, <2>1, <3>4 DEF Declares, a, b
  <2>2. CASE shape.range[m] = None
    BY <1>1, <1>4, <2>2 DEF LevelOf, OwnLevels, Declares
  <2> QED BY <2>1, <2>2
<1> QED BY <1>2, <1>3, <1>4

\* A level that one mode owns goes out under that mode, unchanged.
LEMMA OwnedLevelIsSent ==
  ASSUME shape \in Shapes, IsMode, NEW v \in Levels, OwnedLevel(v), NEW m
  PROVE  /\ ModeOf(2, m, v) \in Modes /\ v \in ToSet(shape.list[ModeOf(2, m, v)])
         /\ LevelOf(ModeOf(2, m, v), v) = v
<1>1. PICK o \in Modes : \A n \in Modes : v \in ToSet(shape.list[n]) <=> n = o
  BY DEF OwnedLevel
<1>2. v \in Listed /\ Listed # {}
  BY <1>1 DEF Listed
<1>3. ~Collides
  <2> SUFFICES ASSUME NEW w \in Listed, NEW a \in Owners(w), NEW b \in Owners(w), a # b
               PROVE  FALSE
    BY DEF Collides
  <2>1. ASSUME NEW c \in Owners(w)
        PROVE  \/ c \in Modes /\ w \in ToSet(shape.list[c])
               \/ c = None /\ w \in ToSet(shape.flat)
    BY <2>1 DEF Owners
  <2>2. (a \in Modes /\ w \in ToSet(shape.list[a])) \/ (a = None /\ w \in ToSet(shape.flat))
    BY <2>1
  <2>3. (b \in Modes /\ w \in ToSet(shape.list[b])) \/ (b = None /\ w \in ToSet(shape.flat))
    BY <2>1
  <2> QED BY <2>2, <2>3 DEF OwnedLevel
<1>4. classifyModeLevels = "dropdown"
  BY <1>2, <1>3 DEF classifyModeLevels, OwnedLevel
<1>5. ModeOf(2, m, v) = o
  BY <1>1, <1>4 DEF ModeOf
<1>6. shape.list[o] # <<>>
  BY <1>1 DEF ToSet
<1>7. LevelOf(o, v) = v
  BY <1>1, <1>6 DEF LevelOf, OwnLevels, OptionOr
<1> QED BY <1>1, <1>5, <1>7

-----------------------------------------------------------------------------
\* What the device declares does not change, and with it what may be held.
LEMMA SameShape ==
  ASSUME shape' = shape
  PROVE  /\ IsMode' <=> IsMode
         /\ Modes' = Modes /\ Listed' = Listed
         /\ classifyModeLevels' = classifyModeLevels /\ \A v : LevelIsShown(v)' <=> LevelIsShown(v)
         /\ Open' = Open /\ HalfPoint' = HalfPoint /\ Answer' = Answer /\ Pairs' = Pairs
         /\ \A h : ListOfPoint(h)' = ListOfPoint(h)
         /\ \A f : TemperatureShown(f)' = TemperatureShown(f)
<1>1. (IsMode' <=> IsMode) /\ Modes' = Modes
  BY DEF IsMode, Modes
<1>2. Listed' = Listed /\ (HasRange' <=> HasRange)
  BY <1>1 DEF Listed, HasRange
<1>3. \A v : Owners(v)' = Owners(v)
  BY <1>1 DEF Owners
<1>4. Collides' <=> Collides
  BY <1>2, <1>3 DEF Collides
<1>5. classifyModeLevels' = classifyModeLevels
  BY <1>2, <1>4 DEF classifyModeLevels
<1>d. Degrees' = Degrees
  BY DEF Degrees
<1>6. ShownValue' = ShownValue /\ Command' = Command /\ Reading' = Reading /\ Pairs' = Pairs
  BY <1>1, <1>d DEF ShownValue, Command, Reading, Pairs
<1>7. Open' = Open /\ HalfPoint' = HalfPoint /\ Answer' = Answer
  BY <1>6 DEF Open, HalfPoint, Answer
<1>8. \A h : ListOfPoint(h)' = ListOfPoint(h)
  BY <1>1, <1>2, <1>5 DEF ListOfPoint, mapWorkMode, mapAutoStop
<1>9. \A f : TemperatureShown(f)' = TemperatureShown(f)
  BY DEF TemperatureShown
<1>10. \A v : LevelIsShown(v)' <=> LevelIsShown(v)
  BY <1>1, <1>5, <1>8 DEF LevelIsShown, HasPoint, Carries, modeLevelKind
<1> QED BY <1>1, <1>2, <1>5, <1>6, <1>7, <1>8, <1>9, <1>10

\* The writes under way fit after a step when each of them does.
LEMMA OpsThen ==
  ASSUME shape' = shape,
         \A i \in DOMAIN ops' : OpenFits(ops'[i]) /\ OpenSure(ops'[i], cell'[1].val, dev'[1])
  PROVE  OpsFit'
<1>1. \A o : Declared(o)' <=> Declared(o)
  BY SameShape DEF Declared, Declares, Degrees
<1>2. HasRange' <=> HasRange
  BY SameShape DEF HasRange
<1>3. \A v : OwnedLevel(v)' <=> OwnedLevel(v)
  BY <1>2, SameShape DEF OwnedLevel
<1>4. \A h, v, c : AsWritten(h, v, c)' <=> AsWritten(h, v, c)
  BY <1>3, SameShape DEF AsWritten
<1>5. Command' = Command
  BY SameShape DEF Command, Degrees
<1>6. \A o : OpenFits(o)' <=> OpenFits(o)
  BY <1>1, <1>4, <1>5, SameShape DEF OpenFits
<1>7. \A o, t, d : OpenSure(o, t, d)' <=> OpenSure(o, t, d)
  BY SameShape DEF OpenSure
<1> QED BY <1>6, <1>7 DEF OpsFit

\* A write that can no longer rely on the tree is the same write otherwise.
LEMMA UnsureFits ==
  ASSUME ops \in Seq(Open)
  PROVE  /\ Unsure \in Seq(Open) /\ Len(Unsure) = Len(ops) /\ DOMAIN Unsure = DOMAIN ops
         /\ \A i \in DOMAIN ops :
              /\ Unsure[i].half = ops[i].half /\ Unsure[i].val = ops[i].val
              /\ Unsure[i].at = ops[i].at /\ Unsure[i].cmd = ops[i].cmd /\ ~Unsure[i].sure
<1>1. \A i \in DOMAIN ops : ops[i] \in Open
  BY ElementOfSeq, LenProperties
<1>2. \A i \in DOMAIN ops : Unsure[i] = [ops[i] EXCEPT !.sure = FALSE]
  BY DEF Unsure
<1>3. \A i \in DOMAIN ops :
        /\ Unsure[i].half = ops[i].half /\ Unsure[i].val = ops[i].val
        /\ Unsure[i].at = ops[i].at /\ Unsure[i].cmd = ops[i].cmd /\ Unsure[i].sure = FALSE
        /\ Unsure[i] \in Open
  BY <1>1, <1>2 DEF Open
<1>4. DOMAIN ops = 1..Len(ops) /\ Len(ops) \in Nat
  BY LenProperties
<1>5. Unsure \in [1..Len(ops) -> Open]
  <2>1. Unsure = [i \in 1..Len(ops) |-> Unsure[i]]
    BY <1>4 DEF Unsure
  <2> QED BY <1>3, <1>4, <2>1
<1>6. Unsure \in Seq(Open) /\ Len(Unsure) = Len(ops) /\ DOMAIN Unsure = DOMAIN ops
  BY <1>4, <1>5
<1> QED BY <1>3, <1>6

\* A write that can no longer rely on the tree still fits.
LEMMA UnsureStaysFit ==
  ASSUME ops \in Seq(Open), NEW t, NEW d, NEW i \in DOMAIN ops, OpenFits(ops[i])
  PROVE  OpenFits(Unsure[i]) /\ OpenSure(Unsure[i], t, d)
<1>1. Unsure[i] \in Open
  BY UnsureFits, ElementOfSeq, LenProperties
<1> QED BY <1>1, UnsureFits DEF OpenFits, OpenSure

\* A command that is put together is declared, and carries what was written.
LEMMA CommandFits ==
  ASSUME shape \in Shapes, NEW h \in Half, NEW v \in ShownValue, NEW s \in ShownValue \cup {None},
         NEW c, c = (IF h = 1 THEN StructOf(1, v, s) ELSE StructOf(2, s, v)), c # None
  PROVE  /\ c \in Command /\ Declared(c) /\ AsWritten(h, v, c)
         /\ ~IsMode /\ h = 2 => s # None /\ c[1] = TemperatureTaken(s)
<1>1. CASE IsMode
  <2>1. v \in Levels /\ s \in Levels \cup {None}
    BY <1>1 DEF ShownValue
  <2> DEFINE a == IF h = 1 THEN v ELSE s
             b == IF h = 1 THEN s ELSE v
             m == ModeOf(h, a, b)
  <2>2. c = resolveWorkModeStruct(h, a, b)
    BY <1>1 DEF StructOf, Half
  <2>3. m \in Modes /\ c = <<m, LevelOf(m, b)>> /\ b \in Levels \cup {None}
    BY <2>1, <2>2 DEF resolveWorkModeStruct
  <2>4. c[1] = m /\ c[2] = LevelOf(m, b) /\ LevelOf(m, b) \in Levels
        /\ Declares(m, LevelOf(m, b))
    BY <1>1, <2>3, LevelIsDeclared
  <2>5. h = 1 => m = v
    BY DEF ModeOf
  <2>6. ASSUME h = 2, OwnedLevel(v)
        PROVE  LevelOf(m, b) = v /\ v \in ToSet(shape.list[m])
    BY <1>1, <2>1, <2>6, OwnedLevelIsSent
  <2>7. c \in Command
    BY <1>1, <2>3, <2>4 DEF Command
  <2> HIDE DEF a, b, m
  <2>8. Declared(c) /\ AsWritten(h, v, c)
    BY <1>1, <2>3, <2>4, <2>5, <2>6 DEF Declared, AsWritten
  <2> QED BY <1>1, <2>7, <2>8
<1>2. CASE ~IsMode
  <2> DEFINE t == IF h = 1 THEN v ELSE s
             stop == IF h = 1 THEN s ELSE v
  <2>1. v \in Int /\ s \in Int \cup {None}
    BY <1>2 DEF ShownValue
  <2>2. c = TemperatureStruct(h, t, stop)
    BY <1>2 DEF StructOf, Half
  <2>3. t # None /\ c = <<TemperatureTaken(t), IF stop \in shape.stops THEN stop ELSE None>>
    BY <2>2 DEF TemperatureStruct
  <2>4. t \in Int
    BY <2>1, <2>3
  <2>5. TemperatureTaken(t) \in Degrees /\ shape.stops \subseteq {0, 1}
    BY <1>2, <2>4, HeatFacts
  <2>6. c \in Command /\ c[1] = TemperatureTaken(t)
    BY <1>2, <2>3, <2>5 DEF Command
  <2>7. Declared(c) /\ AsWritten(h, v, c)
    BY <1>2, <2>5, <2>6 DEF Declared, AsWritten
  <2> QED BY <2>3, <2>6, <2>7
<1> QED BY <1>1, <1>2

\* What is left after one was taken out was there before.
LEMMA LeftWasThere ==
  ASSUME NEW S, NEW l \in Seq(S), NEW k \in DOMAIN l
  PROVE  /\ RemoveAt(l, k) \in Seq(S) /\ Len(RemoveAt(l, k)) = Len(l) - 1
         /\ \A i \in DOMAIN RemoveAt(l, k) : \E j \in DOMAIN l : RemoveAt(l, k)[i] = l[j]
<1>1. RemoveAt(l, k) \in Seq(S) /\ Len(RemoveAt(l, k)) = Len(l) - 1
      /\ \A i \in 1..Len(l) - 1 : RemoveAt(l, k)[i] = IF i < k THEN l[i] ELSE l[i + 1]
  BY WithoutOne
<1>2. DOMAIN RemoveAt(l, k) = 1..Len(l) - 1 /\ DOMAIN l = 1..Len(l) /\ Len(l) \in Nat
  BY <1>1, LenProperties
<1>3. \A i \in 1..Len(l) - 1 : \E j \in 1..Len(l) : RemoveAt(l, k)[i] = l[j]
  <2> SUFFICES ASSUME NEW i \in 1..Len(l) - 1
               PROVE  \E j \in 1..Len(l) : RemoveAt(l, k)[i] = l[j]
    OBVIOUS
  <2>1. i \in 1..Len(l) /\ i + 1 \in 1..Len(l)
    BY <1>2
  <2> QED BY <1>1, <2>1
<1> QED BY <1>1, <1>2, <1>3

-----------------------------------------------------------------------------
\* At first nothing is shown and nothing under way.
LEMMA InitPairs == ApplianceInit => PairInv
<1> SUFFICES ASSUME ApplianceInit PROVE PairInv
  OBVIOUS
<1>1. shape \in Shapes /\ reach = TRUE /\ memory = dev /\ ops = <<>> /\ answer = None
      /\ quiet = FALSE /\ fresh = FALSE /\ count = [ops |-> 0, turns |-> 0]
      /\ cell = [h \in Half |-> [val |-> None, ack |-> FALSE, by |-> "none"]]
  BY DEF ApplianceInit
<1>2. dev \in Pairs
  <2>1. CASE IsMode
    <3>1. dev = <<shape.modes[1], LevelOf(shape.modes[1], None)>>
      BY <2>1 DEF ApplianceInit
    <3> QED BY <1>1, <2>1, <3>1, ModeFacts, LevelIsDeclared DEF Pairs
  <2>2. CASE ~IsMode
    BY <1>1, <2>2, HeatFacts DEF ApplianceInit, Pairs
  <2> QED BY <2>1, <2>2
<1>3. cell \in [Half -> HalfPoint] /\ \A h \in Half : cell[h].ack <=> cell[h].by \in {"ack", "cloud"}
  BY <1>1 DEF HalfPoint
<1>4. count \in [ops : 0..shape.ops, turns : 0..shape.turns] /\ Len(ops) <= count.ops
  BY <1>1, ApplianceAssumption
<1>5. PairTyped
  BY <1>1, <1>2, <1>3, <1>4, EmptySeq DEF PairTyped
<1>6. OnlyListedShown
  BY <1>1 DEF OnlyListedShown
<1> QED BY <1>1, <1>5, <1>6, EmptySeq DEF PairInv, AnswerTells, OpsFit, ReadShowsDevice

\* What the inductive invariant says of the types, piece by piece.
LEMMA PairFacts ==
  ASSUME PairInv
  PROVE  /\ shape \in Shapes /\ reach \in BOOLEAN /\ quiet \in BOOLEAN /\ fresh \in BOOLEAN
         /\ dev \in Pairs /\ memory \in Pairs
         /\ cell \in [Half -> HalfPoint] /\ \A h \in Half : cell[h].ack <=> cell[h].by \in {"ack", "cloud"}
         /\ ops \in Seq(Open) /\ DOMAIN ops = 1..Len(ops) /\ Len(ops) \in Nat
         /\ \A i \in DOMAIN ops : ops[i] \in Open
         /\ shape.ops \in Nat /\ shape.turns \in Nat
         /\ count \in [ops : 0..shape.ops, turns : 0..shape.turns] /\ Len(ops) <= count.ops
BY ApplianceAssumption, LenProperties, ElementOfSeq DEF PairInv, PairTyped

\* A datapoint is written with a value of its kind.
LEMMA CellIsSet ==
  ASSUME cell \in [Half -> HalfPoint], \A g \in Half : cell[g].ack <=> cell[g].by \in {"ack", "cloud"},
         NEW h \in Half, NEW v \in ShownValue, NEW by \in {"wish", "ack"}
  PROVE  /\ SetCell(h, v, by) \in [Half -> HalfPoint]
         /\ \A g \in Half : SetCell(h, v, by)[g].ack <=> SetCell(h, v, by)[g].by \in {"ack", "cloud"}
         /\ \A g \in Half : g # h => SetCell(h, v, by)[g] = cell[g]
         /\ SetCell(h, v, by)[h].by = by
<1> DEFINE p == [val |-> v, ack |-> by # "wish", by |-> by]
           k == [cell EXCEPT ![h] = p]
<1>1. p \in HalfPoint /\ p.by = by /\ (p.ack <=> p.by \in {"ack", "cloud"})
  <2>1. p \in HalfPoint
    BY DEF HalfPoint
  <2>2. p.by = by /\ (p.ack <=> by # "wish")
    OBVIOUS
  <2> QED BY <2>1, <2>2
<1>2. SetCell(h, v, by) = k
  BY DEF SetCell
<1> HIDE DEF p
<1>3. k \in [Half -> HalfPoint] /\ k[h] = p /\ \A g \in Half : g # h => k[g] = cell[g]
  BY <1>1
<1> HIDE DEF k
<1> QED BY <1>1, <1>2, <1>3

-----------------------------------------------------------------------------
\* A write that relies on the tree was made while the tree showed the device.
LEMMA UserWritesKeeps ==
  ASSUME PairInv, NEW h \in Half, NEW v \in Written(h), UserWrites(h, v)
  PROVE  PairInv'
<1> USE PairFacts
<1> DEFINE o == [half |-> h, val |-> v, at |-> "read", cmd |-> None, sure |-> fresh]
<1>1. /\ UNCHANGED <<shape, dev, reach, memory, answer>> /\ quiet' = FALSE /\ fresh' = FALSE
      /\ cell' = SetCell(h, v, "wish") /\ ops' = Append(Unsure, o)
      /\ count.ops < shape.ops /\ count' = [count EXCEPT !.ops = @ + 1]
  BY DEF UserWrites
<1>2. v \in ShownValue
  BY ApplianceAssumption DEF Written, ShownValue
<1>3. o \in Open /\ o.half = h /\ o.at = "read" /\ o.cmd = None /\ o.sure = fresh
  BY <1>2 DEF Open
<1> HIDE DEF o
<1>4. /\ cell' \in [Half -> HalfPoint] /\ \A g \in Half : cell'[g].ack <=> cell'[g].by \in {"ack", "cloud"}
      /\ \A g \in Half : g # h => cell'[g] = cell[g]
      /\ cell'[h].by = "wish"
  BY <1>1, <1>2, CellIsSet
<1>5. /\ ops' \in Seq(Open) /\ Len(ops') = Len(ops) + 1 /\ ops'[Len(ops) + 1] = o
      /\ \A i \in 1..Len(ops) : ops'[i] = Unsure[i]
  BY <1>1, <1>3, UnsureFits, AppendProperties
<1>6. count' \in [ops : 0..shape.ops, turns : 0..shape.turns] /\ count'.ops = count.ops + 1
  BY <1>1
<1>7. PairTyped'
  <2>1. Open' = Open /\ HalfPoint' = HalfPoint /\ Answer' = Answer /\ Pairs' = Pairs
        /\ (IsMode' <=> IsMode)
    BY <1>1, SameShape
  <2>2. Len(ops') <= count'.ops
    BY <1>5, <1>6
  <2> QED BY <1>1, <1>4, <1>5, <1>6, <2>1, <2>2 DEF PairInv, PairTyped
<1>8. OpsFit'
  <2> SUFFICES ASSUME NEW i \in DOMAIN ops'
               PROVE  OpenFits(ops'[i]) /\ OpenSure(ops'[i], cell'[1].val, dev'[1])
    BY <1>1, OpsThen
  <2>1. i \in 1..Len(ops) + 1
    BY <1>5, LenProperties
  <2>2. CASE i = Len(ops) + 1
    <3>1. ops'[i] = o
      BY <1>5, <2>2
    <3>2. OpenFits(o)
      BY <1>3 DEF OpenFits
    <3>3. ASSUME ~IsMode, h = 2, fresh
          PROVE  cell'[1].val = TemperatureShown(dev'[1])
      <4>1. cell[1].val = TemperatureShown(dev[1])
        BY <3>3 DEF PairInv, ReadShowsDevice, TemperatureShown, fahrenheitToCelsius
      <4>2. cell'[1] = cell[1]
        BY <1>4, <3>3 DEF Half
      <4> QED BY <1>1, <4>1, <4>2
    <3>4. OpenSure(o, cell'[1].val, dev'[1])
      BY <1>3, <3>3 DEF OpenSure
    <3> QED BY <3>1, <3>2, <3>4
  <2>3. CASE i # Len(ops) + 1
    <3>1. i \in DOMAIN ops /\ ops'[i] = Unsure[i]
      BY <1>5, <2>1, <2>3
    <3>2. OpenFits(ops[i])
      BY <3>1 DEF PairInv, OpsFit
    <3> QED BY <3>1, <3>2, UnsureStaysFit
  <2> QED BY <2>2, <2>3
<1>9. OnlyListedShown'
  <2> SUFFICES ASSUME NEW g \in Half, cell'[g].by = "cloud", ListOfPoint(g)' # None
               PROVE  cell'[g].val \in ListOfPoint(g)'
    BY DEF OnlyListedShown
  <2>1. g # h /\ cell'[g] = cell[g]
    BY <1>4
  <2>2. ListOfPoint(g)' = ListOfPoint(g)
    BY <1>1, SameShape
  <2> QED BY <2>1, <2>2 DEF PairInv, OnlyListedShown
<1>10. (reach => memory = dev)' /\ AnswerTells' /\ ReadShowsDevice'
  BY <1>1 DEF PairInv, AnswerTells, ReadShowsDevice
<1> QED BY <1>7, <1>8, <1>9, <1>10 DEF PairInv

\* A step that leaves the values the invariant rests on alone, and takes a write
\* away or leaves it as it was.
LEMMA FewerOpsKeep ==
  ASSUME PairInv, UNCHANGED <<shape, dev, reach, memory, cell, answer, count, quiet, fresh>>,
         ops' \in Seq(Open), Len(ops') <= Len(ops),
         \A i \in DOMAIN ops' : OpenFits(ops'[i]) /\ OpenSure(ops'[i], cell[1].val, dev[1])
  PROVE  PairInv'
<1> USE PairFacts
<1>1. /\ Open' = Open /\ HalfPoint' = HalfPoint /\ Answer' = Answer /\ Pairs' = Pairs
      /\ (IsMode' <=> IsMode)
      /\ Listed' = Listed /\ \A v : LevelIsShown(v)' <=> LevelIsShown(v)
      /\ (\A h : ListOfPoint(h)' = ListOfPoint(h)) /\ (\A f : TemperatureShown(f)' = TemperatureShown(f))
  BY SameShape
<1>2. PairTyped'
  <2>1. Len(ops') <= count'.ops
    <3>1. Len(ops') \in Nat
      BY LenProperties
    <3> QED BY <3>1
  <2> QED BY <1>1, <2>1 DEF PairInv, PairTyped
<1>3. OpsFit'
  BY OpsThen
<1>4. OnlyListedShown'
  BY <1>1 DEF PairInv, OnlyListedShown
<1>5. ReadShowsDevice'
  BY <1>1 DEF PairInv, ReadShowsDevice
<1>6. AnswerTells'
  BY <1>1 DEF PairInv, AnswerTells, ShownHalf, InFahrenheit
<1> QED BY <1>2, <1>3, <1>4, <1>5, <1>6 DEF PairInv

\* A write that ends without effect.
LEMMA RemovedKeeps ==
  ASSUME PairInv, UNCHANGED <<shape, dev, reach, memory, cell, answer, count, quiet, fresh>>,
         NEW i \in DOMAIN ops, ops' = RemoveAt(ops, i)
  PROVE  PairInv'
<1> USE PairFacts
<1> DEFINE l == RemoveAt(ops, i)
<1>0. l \in Seq(Open) /\ Len(l) = Len(ops) - 1 /\ \A k \in DOMAIN l : \E j \in DOMAIN ops : l[k] = ops[j]
  <2>1. ops \in Seq(Open)
    BY DEF PairInv, PairTyped
  <2> QED
    BY ONLY <2>1, i \in DOMAIN ops, LeftWasThere
<1> HIDE DEF l
<1>1. /\ ops' \in Seq(Open) /\ Len(ops') = Len(ops) - 1
      /\ \A k \in DOMAIN ops' : \E j \in DOMAIN ops : ops'[k] = ops[j]
  <2>1. ops' = l
    BY DEF l
  <2> QED BY <1>0, <2>1
<1>2. \A k \in DOMAIN ops' : OpenFits(ops'[k]) /\ OpenSure(ops'[k], cell[1].val, dev[1])
  BY <1>1 DEF PairInv, OpsFit
<1> QED BY <1>1, <1>2, FewerOpsKeep

\* A command that failed.
LEMMA GoveeRefusesKeeps ==
  ASSUME PairInv, NEW i \in DOMAIN ops, GoveeRefuses(i)
  PROVE  PairInv'
BY RemovedKeeps DEF GoveeRefuses

\* The pair that goes out is declared, and sends back what the tree shows.
LEMMA SendCombinedKeeps ==
  ASSUME PairInv, NEW i \in DOMAIN ops, SendCombined(i)
  PROVE  PairInv'
<1> USE PairFacts
<1> DEFINE o == ops[i]
           s == Sibling(o.half)
           c == IF o.half = 1 THEN StructOf(1, o.val, s.val) ELSE StructOf(2, s.val, o.val)
           k == [ops EXCEPT ![i].at = "queued", ![i].cmd = c]
<1>1. /\ UNCHANGED <<shape, dev, reach, memory, cell, answer, count, quiet, fresh>>
      /\ o.at = "read" /\ ops' = IF c = None THEN RemoveAt(ops, i) ELSE k
  BY DEF SendCombined
<1>2. CASE c = None
  BY <1>1, <1>2, RemovedKeeps
<1>3. CASE c # None
  <2>1. o \in Open /\ o.half \in Half /\ o.val \in ShownValue
    BY DEF Open
  <2>2. s.val \in ShownValue \cup {None}
    BY <2>1 DEF Sibling, Other, Half, HalfPoint
  <2> DEFINE t == s.val
             w == o.val
  <2>3. o.half = 2 => s = cell[1]
    BY DEF Sibling, Other, HasPoint
  <2>4. c = IF o.half = 1 THEN StructOf(1, w, t) ELSE StructOf(2, t, w)
    OBVIOUS
  <2>5. ops' = k
    BY <1>1, <1>3
  <2> HIDE DEF c, t
  <2>6. /\ c \in Command /\ Declared(c) /\ AsWritten(o.half, o.val, c)
        /\ ~IsMode /\ o.half = 2 => t # None /\ c[1] = TemperatureTaken(t)
    BY <1>3, <2>1, <2>2, <2>4, CommandFits DEF t
  <2> DEFINE q == [o EXCEPT !.at = "queued", !.cmd = c]
  <2>7. k[i] = q /\ (\A j \in DOMAIN ops : j # i => k[j] = ops[j]) /\ DOMAIN k = DOMAIN ops
    OBVIOUS
  <2>8. q \in Open /\ q.half = o.half /\ q.val = o.val /\ q.at = "queued" /\ q.cmd = c
        /\ q.sure = o.sure
    BY <2>1, <2>6 DEF Open
  <2> HIDE DEF q, k
  <2>9. k \in Seq(Open) /\ Len(k) = Len(ops)
    <3>1. \A j \in DOMAIN ops : k[j] \in Open
      BY <2>7, <2>8
    <3>2. k = [j \in 1..Len(ops) |-> k[j]]
      BY <2>7 DEF k
    <3> QED BY <2>7, <3>1, <3>2
  <2>10. OpenFits(q)
    BY <2>6, <2>8 DEF OpenFits
  <2>11. OpenSure(q, cell[1].val, dev[1])
    <3> SUFFICES ASSUME ~IsMode, o.half = 2, o.sure
                 PROVE  c[1] = dev[1]
      BY <2>8 DEF OpenSure
    <3>1. OpenSure(o, cell[1].val, dev[1])
      BY DEF PairInv, OpsFit
    <3>2. cell[1].val = TemperatureShown(dev[1])
      BY <1>1, <3>1 DEF OpenSure
    <3>3. dev[1] \in Degrees
      BY DEF Pairs
    <3> QED BY <2>3, <2>6, <3>2, <3>3, HeatFacts DEF t
  <2>12. \A j \in DOMAIN k : OpenFits(k[j]) /\ OpenSure(k[j], cell[1].val, dev[1])
    BY <2>7, <2>10, <2>11 DEF PairInv, OpsFit
  <2> QED BY <1>1, <2>5, <2>9, <2>12, FewerOpsKeep
<1> QED BY <1>2, <1>3

\* A step after which nothing under way relies on the tree.
LEMMA UnsureKeeps ==
  ASSUME PairInv, UNCHANGED <<shape, answer>>, quiet' = FALSE, fresh' = FALSE,
         dev' \in Pairs, memory' \in Pairs, reach' \in BOOLEAN, reach' => memory' = dev',
         cell' \in [Half -> HalfPoint], \A h \in Half : cell'[h].ack <=> cell'[h].by \in {"ack", "cloud"},
         \A h \in Half : cell'[h].by = "cloud" => cell'[h] = cell[h],
         count' \in [ops : 0..shape.ops, turns : 0..shape.turns], count'.ops = count.ops,
         ops' \in Seq(Open), Len(ops') <= Len(ops),
         \A i \in DOMAIN ops' : OpenFits(ops'[i]) /\ OpenSure(ops'[i], cell'[1].val, dev'[1])
  PROVE  PairInv'
<1> USE PairFacts
<1>1. /\ Open' = Open /\ HalfPoint' = HalfPoint /\ Answer' = Answer /\ Pairs' = Pairs
      /\ (IsMode' <=> IsMode)
      /\ (\A h : ListOfPoint(h)' = ListOfPoint(h))
  BY SameShape
<1>2. PairTyped'
  <2>1. Len(ops') <= count'.ops
    <3>1. Len(ops') \in Nat
      BY LenProperties
    <3> QED BY <3>1
  <2>2. answer' = None \/ (answer' \in Answer' /\ (answer'.unit # "none" => ~IsMode'))
    BY <1>1 DEF PairInv, PairTyped
  <2> QED BY <1>1, <2>1, <2>2 DEF PairTyped
<1>3. OpsFit'
  BY OpsThen
<1>4. OnlyListedShown'
  BY <1>1 DEF PairInv, OnlyListedShown
<1> QED BY <1>2, <1>3, <1>4 DEF PairInv, ReadShowsDevice, AnswerTells

\* The device now does what the command said.
LEMMA GoveeTakesKeeps ==
  ASSUME PairInv, NEW i \in DOMAIN ops, GoveeTakes(i)
  PROVE  PairInv'
<1> USE PairFacts
<1> DEFINE c == ops[i].cmd
           l == [Unsure EXCEPT ![i].at = "taken"]
           q == [Unsure[i] EXCEPT !.at = "taken"]
<1>1. /\ UNCHANGED <<shape, reach, cell, answer, count>> /\ quiet' = FALSE /\ fresh' = FALSE
      /\ dev' = <<c[1], IF c[2] = None THEN dev[2] ELSE c[2]>> /\ memory' = dev' /\ ops' = l
      /\ ops[i].at = "queued"
  BY DEF GoveeTakes
<1>2. OpenFits(ops[i]) /\ OpenSure(ops[i], cell[1].val, dev[1])
  BY DEF PairInv, OpsFit
<1>3. c \in Command
  BY <1>1, <1>2 DEF OpenFits
<1>4. dev' \in Pairs
  <2>1. CASE IsMode
    <3>1. c \in Modes \X Levels /\ dev \in Modes \X Levels
      BY <1>3, <2>1 DEF Command, Pairs
    <3> QED BY <1>1, <2>1, <3>1 DEF Pairs
  <2>2. CASE ~IsMode
    <3>1. c \in Degrees \X ({0, 1} \cup {None})
          /\ dev \in Degrees \X {0, 1}
      BY <1>3, <2>2 DEF Command, Pairs
    <3> QED BY <1>1, <2>2, <3>1 DEF Pairs
  <2> QED BY <2>1, <2>2
<1>5. Unsure \in Seq(Open) /\ Len(Unsure) = Len(ops) /\ DOMAIN Unsure = DOMAIN ops
      /\ Unsure[i].half = ops[i].half /\ Unsure[i].val = ops[i].val
      /\ Unsure[i].at = ops[i].at /\ Unsure[i].cmd = ops[i].cmd /\ ~Unsure[i].sure
      /\ \A j \in DOMAIN ops : Unsure[j] \in Open
  <2>1. Unsure \in Seq(Open) /\ DOMAIN Unsure = DOMAIN ops
    BY UnsureFits
  <2> QED BY <2>1, UnsureFits, ElementOfSeq, LenProperties
<1>6. q \in Open /\ q.half = ops[i].half /\ q.val = ops[i].val /\ q.at = "taken"
      /\ q.cmd = c /\ ~q.sure
  BY <1>5 DEF Open
<1>7. DOMAIN l = DOMAIN ops /\ l[i] = q /\ \A j \in DOMAIN ops : j # i => l[j] = Unsure[j]
  BY <1>5
<1> HIDE DEF q
<1>8. l \in Seq(Open) /\ Len(l) = Len(ops)
  <2>1. \A j \in DOMAIN ops : l[j] \in Open
    BY <1>5, <1>6, <1>7
  <2>2. l = [j \in 1..Len(ops) |-> l[j]]
    BY <1>5, <1>7
  <2> HIDE DEF l
  <2> QED BY <1>7, <2>1, <2>2
<1> HIDE DEF l
<1>9. OpenFits(q) /\ OpenSure(q, cell'[1].val, dev'[1])
  BY <1>1, <1>2, <1>6 DEF OpenFits, OpenSure
<1>10. ASSUME NEW j \in DOMAIN ops'
       PROVE  OpenFits(ops'[j]) /\ OpenSure(ops'[j], cell'[1].val, dev'[1])
  <2>1. j \in DOMAIN ops
    BY <1>1, <1>7
  <2>2. OpenFits(ops[j])
    BY <2>1 DEF PairInv, OpsFit
  <2>3. OpenFits(Unsure[j]) /\ OpenSure(Unsure[j], cell'[1].val, dev'[1])
    BY <2>1, <2>2, UnsureStaysFit
  <2> QED BY <1>1, <1>7, <1>9, <2>1, <2>3
<1>11. Len(ops') <= Len(ops) /\ ops' \in Seq(Open)
  BY <1>1, <1>8
<1> QED BY <1>1, <1>4, <1>10, <1>11, UnsureKeeps

\* A datapoint is confirmed with a value of its kind.
LEMMA AcknowledgeKeeps ==
  ASSUME PairInv, NEW i \in DOMAIN ops, Acknowledge(i)
  PROVE  PairInv'
<1> USE PairFacts
<1> DEFINE o == ops[i]
           v == IF ~IsMode /\ o.half = 1 THEN TemperatureShown(o.cmd[1]) ELSE o.val
           l == RemoveAt(Unsure, i)
<1>1. /\ UNCHANGED <<shape, dev, reach, memory, answer, count>> /\ quiet' = FALSE
      /\ fresh' = FALSE
      /\ cell' = SetCell(o.half, v, "ack") /\ ops' = l /\ o.at = "taken"
  BY DEF Acknowledge
<1>2. OpenFits(o) /\ o \in Open /\ o.half \in Half /\ o.val \in ShownValue
  BY DEF PairInv, OpsFit, Open
<1>3. v \in ShownValue
  <2>1. CASE ~IsMode /\ o.half = 1
    <3>1. o.cmd[1] \in Degrees
      BY <1>1, <1>2, <2>1 DEF OpenFits, Declared
    <3>2. o.cmd[1] \in Int
      BY <2>1, <3>1, HeatFacts
    <3> QED BY <2>1, <3>2, HeatFacts DEF ShownValue
  <2>2. CASE ~(~IsMode /\ o.half = 1)
    BY <1>2, <2>2
  <2> QED BY <2>1, <2>2
<1> HIDE DEF v
<1>4. /\ cell' \in [Half -> HalfPoint] /\ \A g \in Half : cell'[g].ack <=> cell'[g].by \in {"ack", "cloud"}
      /\ \A g \in Half : g # o.half => cell'[g] = cell[g]
      /\ cell'[o.half].by = "ack"
  BY <1>1, <1>2, <1>3, CellIsSet
<1>5. Unsure \in Seq(Open) /\ Len(Unsure) = Len(ops) /\ DOMAIN Unsure = DOMAIN ops
  BY UnsureFits
<1>6. /\ l \in Seq(Open) /\ Len(l) = Len(ops) - 1
      /\ \A k \in DOMAIN l : \E j \in DOMAIN ops : l[k] = Unsure[j]
  <2> DEFINE u == Unsure
  <2>1. u \in Seq(Open) /\ i \in DOMAIN u
    BY <1>5
  <2> HIDE DEF u
  <2>2. RemoveAt(u, i) \in Seq(Open) /\ Len(RemoveAt(u, i)) = Len(u) - 1
        /\ \A k \in DOMAIN RemoveAt(u, i) : \E j \in DOMAIN u : RemoveAt(u, i)[k] = u[j]
    BY ONLY <2>1, LeftWasThere
  <2>3. l = RemoveAt(u, i) /\ Len(u) = Len(ops) /\ DOMAIN u = DOMAIN ops /\ u = Unsure
    BY <1>5 DEF u
  <2> HIDE DEF l
  <2> QED BY <2>2, <2>3
<1> HIDE DEF l
<1>7. ASSUME NEW k \in DOMAIN ops'
      PROVE  OpenFits(ops'[k]) /\ OpenSure(ops'[k], cell'[1].val, dev'[1])
  <2>1. PICK j \in DOMAIN ops : ops'[k] = Unsure[j]
    BY <1>1, <1>6
  <2>2. OpenFits(ops[j])
    BY DEF PairInv, OpsFit
  <2>3. OpenFits(Unsure[j]) /\ OpenSure(Unsure[j], cell'[1].val, dev'[1])
    BY <2>2, UnsureStaysFit
  <2> QED BY <2>1, <2>3
<1>8. ops' \in Seq(Open) /\ Len(ops') <= Len(ops)
  BY <1>1, <1>6
<1>9. \A h \in Half : cell'[h].by = "cloud" => cell'[h] = cell[h]
  BY <1>2, <1>4
<1>10. dev' \in Pairs /\ memory' \in Pairs /\ reach' \in BOOLEAN /\ (reach' => memory' = dev')
       /\ count' \in [ops : 0..shape.ops, turns : 0..shape.turns] /\ count'.ops = count.ops
  BY <1>1 DEF PairInv
<1> QED BY <1>1, <1>4, <1>7, <1>8, <1>9, <1>10, UnsureKeeps

\* The device is turned by hand.
LEMMA TurnKeeps ==
  ASSUME PairInv, NEW pair \in Turns, Turn(pair)
  PROVE  PairInv'
<1> USE PairFacts
<1>1. /\ UNCHANGED <<shape, reach, cell, answer>> /\ quiet' = FALSE /\ fresh' = FALSE
      /\ dev' = pair /\ memory' = (IF reach THEN pair ELSE memory) /\ ops' = Unsure
      /\ count.turns < shape.turns /\ count' = [count EXCEPT !.turns = @ + 1]
  BY DEF Turn
<1>2. pair \in Pairs
  <2>1. CASE IsMode
    <3>1. Turns = Pairs
      BY <2>1 DEF Turns
    <3>2. pair \in Turns
      OBVIOUS
    <3> QED BY <3>1, <3>2
  <2>2. CASE ~IsMode
    <3>1. {shape.lo, shape.hi} \subseteq Degrees
      <4> DEFINE lo == shape.lo
                 hi == shape.hi
      <4>1. lo \in Int /\ hi \in Int /\ lo < hi /\ lo..hi \subseteq Degrees
        BY <2>2, HeatFacts
      <4> HIDE DEF lo, hi
      <4>2. {lo, hi} \subseteq lo..hi
        BY ONLY <4>1
      <4> QED BY <4>1, <4>2 DEF lo, hi
    <3>2. pair \in {shape.lo, shape.hi} \X {0, 1} /\ Pairs = Degrees \X {0, 1}
      BY <2>2 DEF Turns, Pairs
    <3> QED BY <3>1, <3>2
  <2> QED BY <2>1, <2>2
<1>3. ops' \in Seq(Open) /\ Len(ops') = Len(ops) /\ DOMAIN ops' = DOMAIN ops
  BY <1>1, UnsureFits
<1>4. ASSUME NEW j \in DOMAIN ops'
      PROVE  OpenFits(ops'[j]) /\ OpenSure(ops'[j], cell'[1].val, dev'[1])
  <2>1. OpenFits(ops[j])
    BY <1>3 DEF PairInv, OpsFit
  <2> QED BY <1>1, <1>3, <2>1, UnsureStaysFit
<1>5. count' \in [ops : 0..shape.ops, turns : 0..shape.turns] /\ count'.ops = count.ops
  BY <1>1
<1>6. dev' \in Pairs /\ memory' \in Pairs /\ reach' \in BOOLEAN /\ (reach' => memory' = dev')
  BY <1>1, <1>2
<1>7. /\ cell' \in [Half -> HalfPoint] /\ (\A h \in Half : cell'[h].ack <=> cell'[h].by \in {"ack", "cloud"})
      /\ \A h \in Half : cell'[h].by = "cloud" => cell'[h] = cell[h]
  BY <1>1
<1>8. Len(ops') <= Len(ops)
  BY <1>3
<1> QED BY <1>1, <1>3, <1>4, <1>5, <1>6, <1>7, <1>8, UnsureKeeps

\* A step that moves only what is remembered and what was answered.
LEMMA PlugKeeps ==
  ASSUME PairInv, Plug
  PROVE  PairInv'
<1> USE PairFacts
<1>1. /\ UNCHANGED <<shape, dev, cell, ops, answer, count, quiet, fresh>>
      /\ reach' = ~reach /\ memory' = (IF reach THEN memory ELSE dev)
  BY DEF Plug
<1>2. /\ Open' = Open /\ HalfPoint' = HalfPoint /\ Answer' = Answer /\ Pairs' = Pairs
      /\ (IsMode' <=> IsMode)
      /\ Listed' = Listed /\ \A v : LevelIsShown(v)' <=> LevelIsShown(v)
      /\ (\A h : ListOfPoint(h)' = ListOfPoint(h)) /\ (\A f : TemperatureShown(f)' = TemperatureShown(f))
  BY <1>1, SameShape
<1>3. reach' \in BOOLEAN /\ memory' \in Pairs /\ (reach' => memory' = dev')
  BY <1>1 DEF PairInv
<1>4. PairTyped'
  BY <1>1, <1>2, <1>3 DEF PairInv, PairTyped
<1>5. OpsFit'
  BY <1>1, OpsThen DEF PairInv, OpsFit
<1>6. OnlyListedShown'
  BY <1>1, <1>2 DEF PairInv, OnlyListedShown
<1>7. ReadShowsDevice'
  BY <1>1, <1>2 DEF PairInv, ReadShowsDevice
<1>8. AnswerTells'
  BY <1>1, <1>2 DEF PairInv, AnswerTells, ShownHalf, InFahrenheit
<1> QED BY <1>3, <1>4, <1>5, <1>6, <1>7, <1>8 DEF PairInv

\* An answer given while Govee reaches the device tells what it does.
LEMMA GoveeAnswersKeeps ==
  ASSUME PairInv, NEW unit \in {"none", "F", "C"}, GoveeAnswers(unit)
  PROVE  PairInv'
<1> USE PairFacts
<1> DEFINE p == IF unit = "C" THEN <<fahrenheitToCelsius(memory[1]), memory[2]>> ELSE memory
<1>1. /\ UNCHANGED <<shape, dev, reach, memory, cell, ops, count, fresh>> /\ quiet' = TRUE
      /\ unit # "none" => ~IsMode /\ shape.fahrenheit
      /\ answer' = [pair |-> p, unit |-> unit, online |-> reach]
  BY DEF GoveeAnswers
<1>2. /\ Open' = Open /\ HalfPoint' = HalfPoint /\ Answer' = Answer /\ Pairs' = Pairs
      /\ (IsMode' <=> IsMode)
      /\ Listed' = Listed /\ \A v : LevelIsShown(v)' <=> LevelIsShown(v)
      /\ (\A h : ListOfPoint(h)' = ListOfPoint(h)) /\ (\A f : TemperatureShown(f)' = TemperatureShown(f))
  BY <1>1, SameShape
<1>3. p \in Reading
  <2>1. CASE IsMode
    <3>1. p = memory /\ memory \in Modes \X Levels
      BY <1>1, <2>1 DEF Pairs
    <3> QED BY <2>1, <3>1 DEF Reading
  <2>2. CASE ~IsMode
    <3>1. memory \in Degrees \X {0, 1}
      BY <2>2 DEF Pairs
    <3>2. memory[1] \in Int /\ memory[2] \in {0, 1} /\ memory \in Int \X {0, 1}
      BY <2>2, <3>1, HeatFacts
    <3>3. fahrenheitToCelsius(memory[1]) \in Int
      BY <3>2, DegreeReturns
    <3> QED BY <2>2, <3>2, <3>3 DEF Reading
  <2> QED BY <2>1, <2>2
<1>4. AnswerTells'
  <2> SUFFICES ASSUME reach
               PROVE  IF IsMode THEN p = dev
                      ELSE (IF InFahrenheit(unit) THEN fahrenheitToCelsius(p[1]) ELSE p[1])
                             = TemperatureShown(dev[1])
    <3>1. answer'.online = reach /\ answer'.pair = p /\ answer'.unit = unit
      BY <1>1
    <3> HIDE DEF p
    <3> QED BY <1>1, <1>2, <3>1 DEF AnswerTells, ShownHalf, InFahrenheit
  <2>1. memory = dev
    BY DEF PairInv
  <2>2. CASE IsMode
    BY <1>1, <2>1, <2>2
  <2>3. CASE ~IsMode
    <3>1. shape.fahrenheit \in BOOLEAN
      BY <2>3, HeatFacts
    <3>2. CASE unit = "C"
      BY <1>1, <2>1, <2>3, <3>2 DEF InFahrenheit, TemperatureShown
    <3>3. CASE unit # "C"
      BY <1>1, <2>1, <2>3, <3>1, <3>3 DEF InFahrenheit, TemperatureShown
    <3> QED BY <3>2, <3>3
  <2> QED BY <2>2, <2>3
<1>5. answer' \in Answer /\ (answer'.unit # "none" => ~IsMode)
  <2> HIDE DEF p
  <2> QED BY <1>1, <1>3 DEF Answer
<1>6. PairTyped'
  BY <1>1, <1>2, <1>5 DEF PairInv, PairTyped
<1>7. OpsFit'
  BY <1>1, OpsThen DEF PairInv, OpsFit
<1>8. OnlyListedShown'
  BY <1>1, <1>2 DEF PairInv, OnlyListedShown
<1>9. ReadShowsDevice'
  BY <1>1, <1>2 DEF PairInv, ReadShowsDevice
<1> QED BY <1>1, <1>4, <1>6, <1>7, <1>8, <1>9 DEF PairInv

\* An answer that is written shows the device, unless something moved since.
LEMMA WriteStateKeeps ==
  ASSUME PairInv, writeCloudStateValues
  PROVE  PairInv'
<1> USE PairFacts
<1>1. /\ UNCHANGED <<shape, dev, reach, memory, count, quiet>> /\ answer # None
      /\ answer' = None
  BY DEF writeCloudStateValues
<1>2. /\ Open' = Open /\ HalfPoint' = HalfPoint /\ Answer' = Answer /\ Pairs' = Pairs
      /\ (IsMode' <=> IsMode)
      /\ Listed' = Listed /\ \A v : LevelIsShown(v)' <=> LevelIsShown(v)
      /\ (\A h : ListOfPoint(h)' = ListOfPoint(h)) /\ (\A f : TemperatureShown(f)' = TemperatureShown(f))
  BY <1>1, SameShape
<1>3. answer \in Answer /\ answer.pair \in Reading /\ answer.online \in BOOLEAN
      /\ (answer.unit # "none" => ~IsMode)
  BY <1>1 DEF PairInv, PairTyped, Answer
<1>4. CASE ~answer.online
  <2>1. UNCHANGED <<cell, fresh, ops>>
    BY <1>4 DEF writeCloudStateValues, cloudReportsOnline
  <2>2. PairTyped'
    BY <1>1, <1>2, <2>1 DEF PairInv, PairTyped
  <2>3. OpsFit'
    BY <1>1, <2>1, OpsThen DEF PairInv, OpsFit
  <2>4. OnlyListedShown'
    BY <1>2, <2>1 DEF PairInv, OnlyListedShown
  <2>5. ReadShowsDevice'
    BY <1>1, <1>2, <2>1 DEF PairInv, ReadShowsDevice
  <2> QED BY <1>1, <2>2, <2>3, <2>4, <2>5 DEF PairInv, AnswerTells
<1>5. CASE answer.online
  <2> DEFINE p(h) == [val |-> ShownHalf(answer, h), ack |-> TRUE, by |-> "cloud"]
  <2>1. /\ fresh' = quiet /\ ops' = IF quiet THEN ops ELSE Unsure
        /\ cell' = [h \in Half |-> IF IsShowable(h, ShownHalf(answer, h)) THEN p(h) ELSE cell[h]]
    BY <1>5 DEF writeCloudStateValues, cloudReportsOnline
  <2>2. ASSUME NEW h \in Half
        PROVE  ShownHalf(answer, h) \in ShownValue
    <3>1. CASE IsMode
      <4>1. answer.pair \in Levels \X Levels
        BY <1>3, <3>1, ModeFacts DEF Reading
      <4> QED BY <3>1, <4>1 DEF ShownHalf, ShownValue, Half
    <3>2. CASE ~IsMode
      <4>1. answer.pair \in Int \X {0, 1}
        BY <1>3, <3>2 DEF Reading
      <4>2. answer.pair[1] \in Int /\ answer.pair[2] \in {0, 1}
        BY <4>1
      <4>3. answer.pair[h] \in Int
        BY <4>2 DEF Half
      <4>4. fahrenheitToCelsius(answer.pair[h]) \in Int
        BY <4>3, DegreeReturns
      <4> QED BY <3>2, <4>3, <4>4 DEF ShownHalf, ShownValue
    <3> QED BY <3>1, <3>2
  <2>3. \A h \in Half : p(h) \in HalfPoint /\ p(h).ack /\ p(h).by = "cloud" /\ p(h).val = ShownHalf(answer, h)
    BY <2>2 DEF HalfPoint
  <2> HIDE DEF p
  <2>4. \A h \in Half : cell'[h] = IF IsShowable(h, ShownHalf(answer, h)) THEN p(h) ELSE cell[h]
    BY <2>1
  <2>5. cell' \in [Half -> HalfPoint] /\ \A g \in Half : cell'[g].ack <=> cell'[g].by \in {"ack", "cloud"}
    BY <2>1, <2>3
  <2>6. ops' \in Seq(Open) /\ Len(ops') = Len(ops) /\ DOMAIN ops' = DOMAIN ops
    BY <2>1, UnsureFits
  <2>7. PairTyped'
    BY <1>1, <1>2, <2>1, <2>5, <2>6 DEF PairInv, PairTyped
  <2>8. OnlyListedShown'
    <3> SUFFICES ASSUME NEW h \in Half, cell'[h].by = "cloud", ListOfPoint(h) # None
                 PROVE  cell'[h].val \in ListOfPoint(h)
      BY <1>2 DEF OnlyListedShown
    <3>1. CASE IsShowable(h, ShownHalf(answer, h))
      BY <2>3, <2>4, <3>1 DEF IsShowable, Carries
    <3>2. CASE ~IsShowable(h, ShownHalf(answer, h))
      BY <2>4, <3>2 DEF PairInv, OnlyListedShown
    <3> QED BY <3>1, <3>2
  <2>9. ASSUME quiet
        PROVE  IF IsMode THEN answer.pair = dev ELSE ShownHalf(answer, 1) = TemperatureShown(dev[1])
    BY <1>1, <1>5, <2>9 DEF PairInv, AnswerTells
  <2>10. ASSUME quiet, IsMode
         PROVE  /\ cell'[1].val = dev[1]
                /\ LevelIsShown(dev[2]) => cell'[2].val = dev[2]
    <3>1. ShownHalf(answer, 1) = dev[1] /\ ShownHalf(answer, 2) = dev[2]
      BY <2>9, <2>10 DEF ShownHalf
    <3>2. dev[1] \in Modes
      BY <2>10 DEF Pairs
    <3>3. IsShowable(1, dev[1])
      BY <2>10, <3>2 DEF IsShowable, HasPoint, Carries, ListOfPoint, mapWorkMode
    <3>4. LevelIsShown(dev[2]) => IsShowable(2, dev[2])
      BY DEF IsShowable, LevelIsShown
    <3>5. 1 \in Half /\ 2 \in Half
      BY DEF Half
    <3> QED BY <2>3, <2>4, <3>1, <3>3, <3>4, <3>5
  <2>11. ASSUME quiet, ~IsMode
         PROVE  cell'[1].val = TemperatureShown(dev[1])
    <3>1. IsShowable(1, ShownHalf(answer, 1))
      BY <2>11 DEF IsShowable, HasPoint, Carries, ListOfPoint, mapAutoStop
    <3>2. 1 \in Half
      BY DEF Half
    <3> QED BY <2>3, <2>4, <2>9, <2>11, <3>1, <3>2
  <2>12. ReadShowsDevice'
    <3> SUFFICES ASSUME quiet
                 PROVE  /\ IsMode /\ LevelIsShown(dev[2]) => cell'[2].val = dev[2]
                        /\ IsMode => cell'[1].val = dev[1]
                        /\ ~IsMode => cell'[1].val = (IF shape.fahrenheit THEN RoundUp(50 * (dev[1] - 32), 9)
                                                      ELSE dev[1])
      BY <1>1, <1>2, <2>1 DEF ReadShowsDevice
    <3>1. ~IsMode => cell'[1].val = (IF shape.fahrenheit THEN RoundUp(50 * (dev[1] - 32), 9) ELSE dev[1])
      BY <2>11 DEF TemperatureShown, fahrenheitToCelsius
    <3> QED BY <2>10, <3>1
  <2>13. OpsFit'
    <3> SUFFICES ASSUME NEW i \in DOMAIN ops'
                 PROVE  OpenFits(ops'[i]) /\ OpenSure(ops'[i], cell'[1].val, dev'[1])
      BY <1>1, OpsThen
    <3>1. i \in DOMAIN ops /\ OpenFits(ops[i]) /\ OpenSure(ops[i], cell[1].val, dev[1])
      BY <2>6 DEF PairInv, OpsFit
    <3>2. CASE quiet
      <4>1. OpenSure(ops[i], cell'[1].val, dev[1])
        BY <2>11, <3>1, <3>2 DEF OpenSure
      <4> QED BY <1>1, <2>1, <3>1, <3>2, <4>1
    <3>3. CASE ~quiet
      BY <1>1, <2>1, <3>1, <3>3, UnsureStaysFit
    <3> QED BY <3>2, <3>3
  <2> QED BY <1>1, <2>7, <2>8, <2>12, <2>13 DEF PairInv, AnswerTells
<1> QED BY <1>3, <1>4, <1>5

-----------------------------------------------------------------------------
\* Every step keeps the invariant.
LEMMA PairStep ==
  ASSUME PairInv, [ApplianceNext]_applianceVars
  PROVE  PairInv'
<1>1. CASE UNCHANGED applianceVars
  <2>1. UNCHANGED <<shape, dev, reach, memory, cell, answer, count, quiet, fresh>> /\ ops' = ops
    BY <1>1 DEF applianceVars
  <2>2. ops' \in Seq(Open) /\ Len(ops') <= Len(ops)
    BY <2>1, PairFacts
  <2>3. \A i \in DOMAIN ops' : OpenFits(ops'[i]) /\ OpenSure(ops'[i], cell[1].val, dev[1])
    BY <2>1 DEF PairInv, OpsFit
  <2> QED BY <2>1, <2>2, <2>3, FewerOpsKeep
<1>2. ASSUME NEW h \in Half, NEW v \in Written(h), UserWrites(h, v)
      PROVE  PairInv'
  BY <1>2, UserWritesKeeps
<1>3. ASSUME NEW i \in DOMAIN ops, SendCombined(i) \/ GoveeTakes(i) \/ GoveeRefuses(i) \/ Acknowledge(i)
      PROVE  PairInv'
  BY <1>3, SendCombinedKeeps, GoveeTakesKeeps, GoveeRefusesKeeps, AcknowledgeKeeps
<1>4. ASSUME NEW pair \in Turns, Turn(pair)
      PROVE  PairInv'
  BY <1>4, TurnKeeps
<1>5. ASSUME NEW unit \in {"none", "F", "C"}, GoveeAnswers(unit)
      PROVE  PairInv'
  BY <1>5, GoveeAnswersKeeps
<1> QED BY <1>1, <1>2, <1>3, <1>4, <1>5, PlugKeeps, WriteStateKeeps DEF ApplianceNext

\* A datapoint is confirmed or it is not.
LEMMA CellIsTold ==
  ASSUME cell \in [Half -> HalfPoint], NEW h \in Half
  PROVE  cell[h].ack \in BOOLEAN /\ cell[h].by \in {"none", "wish", "ack", "cloud"}
<1>1. cell[h] \in HalfPoint
  OBVIOUS
<1>2. \A p \in HalfPoint : p.ack \in BOOLEAN
  BY DEF HalfPoint
<1>3. cell[h].ack \in BOOLEAN
  BY <1>1, <1>2, Zenon
<1>4. cell[h].by \in {"none", "wish", "ack", "cloud"}
  BY <1>1 DEF HalfPoint
<1> QED BY <1>3, <1>4

\* The inductive invariant says what the run checks.
LEMMA PairInvFits == PairInv => PairsFit
<1> SUFFICES ASSUME PairInv PROVE PairsFit
  OBVIOUS
<1> USE PairFacts
<1>1. ASSUME NEW i \in DOMAIN ops
      PROVE  /\ OpenFits(ops[i]) /\ OpenSure(ops[i], cell[1].val, dev[1])
             /\ ops[i].half \in Half /\ ops[i].at \in {"read", "queued", "taken"}
  BY DEF PairInv, OpsFit, Open
<1>2. ApplianceTypeOK
  <2>1. Len(ops) <= shape.ops /\ count.ops \in 0..shape.ops /\ count.turns \in 0..shape.turns
    OBVIOUS
  <2>2. ASSUME NEW h \in Half
        PROVE  cell[h].ack \in BOOLEAN /\ cell[h].by \in {"none", "wish", "ack", "cloud"}
    <3>1. cell \in [Half -> HalfPoint]
      OBVIOUS
    <3> QED BY ONLY <3>1, h \in Half, CellIsTold
  <2>3. \A h \in Half : cell[h].ack <=> cell[h].by \in {"ack", "cloud"}
    OBVIOUS
  <2>4. \A i \in DOMAIN ops : ops[i].half \in Half /\ ops[i].at \in {"read", "queued", "taken"}
    BY <1>1
  <2>5. shape \in Shapes /\ reach \in BOOLEAN /\ quiet \in BOOLEAN /\ fresh \in BOOLEAN
        /\ dev \in Pairs /\ memory \in Pairs
    OBVIOUS
  <2> QED BY ONLY <2>1, <2>2, <2>3, <2>4, <2>5, Zenon DEF ApplianceTypeOK
<1>3. SentIsDeclared
  BY <1>1 DEF SentIsDeclared, OpenFits, Declared, Declares, Degrees
<1>4. WrittenIsSent
  BY <1>1 DEF WrittenIsSent, OpenFits, AsWritten, OwnedLevel
<1>5. NoDrift
  BY <1>1 DEF NoDrift, OpenSure
<1> QED BY <1>2, <1>3, <1>4, <1>5 DEF PairInv, PairsFit, CommandsFit, ReadsFit

\* An appliance is commanded within what it declares and as it was written, and
\* its tree shows the device as it is; for every appliance, however many writes
\* and answers are under way.
THEOREM PairsStayFit == ApplianceSpec => []PairsFit
<1>1. PairInv /\ [ApplianceNext]_applianceVars => PairInv'
  BY PairStep
<1> QED BY InitPairs, <1>1, PairInvFits, PTL DEF ApplianceSpec

-----------------------------------------------------------------------------
Snapshot == [name : SnapshotName, save : 0..MaxSaves]

\* What a store can hold: snapshots, each name once.
Named(l) == \A i, j \in DOMAIN l : l[i].name = l[j].name => i = j
Snapshots == {l \in Seq(Snapshot) : Named(l)}

Write == [of : Nat, put : BOOLEAN, was : Snapshots]

StoreTyped ==
  /\ running \in {"off", "root", "rootRemove", "dataDir", "dataDirRemove", "load", "on", "broken"}
  /\ available \in BOOLEAN /\ object \in BOOLEAN /\ wanted.kept \in BOOLEAN
  /\ wanted.stored \in BOOLEAN /\ emptied \in Nat /\ saves \in 0..MaxSaves /\ storeTurns \in Nat /\ rebuilds \in 0..2
  /\ list \in Snapshots /\ text \in Snapshots
  /\ oldFiles \in [Stores -> Snapshots]
  /\ persists \in Seq(Write)
  /\ wanted = [list |-> wanted.list, kept |-> wanted.kept, stored |-> wanted.stored]

\* Writes are under way only in a running store, read in the order they were asked.
WritesInOrder ==
  /\ running # "on" \/ ~available => persists = Empty /\ wanted.stored
  /\ ~available => list = Empty
  /\ \A i, j \in DOMAIN persists : i <= j /\ persists[j].put => persists[i].put

\* The newest write puts what memory holds.
LastPuts ==
  LET last == persists[Len(persists)] IN
    IF last.put THEN last.was = list ELSE TextOf(last) = list

\* As long as nothing was lost: what the user made is what the old file holds that is
\* left, what the object carries while the adapter starts, what memory holds while it
\* runs, and what the newest write puts.
NothingCutOff ==
  wanted.kept =>
    /\ object
    /\ oldFiles["root"] = Empty \/ oldFiles["dataDir"] = Empty
    /\ \A s \in Stores : oldFiles[s] # Empty =>
         wanted.list = oldFiles[s] /\ (running = Removing(s) => text = oldFiles[s])
    /\ NothingLeft =>
         /\ running # "on" => wanted.list = text
         /\ running = "on" /\ available => wanted.list = list
         /\ running = "on" /\ persists = Empty /\ wanted.stored => wanted.list = text
         /\ persists # Empty /\ wanted.stored => LastPuts

Offered == running = "on" /\ rebuilds = 0 => offered = NamesOf(GetSnapshots)

StoreInv == StoreTyped /\ WritesInOrder /\ NothingCutOff /\ Offered

-----------------------------------------------------------------------------
\* No snapshot at all is a list of snapshots.
LEMMA NoneSaved == Empty \in Snapshots /\ Empty \in Seq(Snapshot) /\ Len(Empty) = 0 /\ DOMAIN Empty = {}
BY DEF Snapshots, Named, Empty

\* The invariant holds what the store promises.
LEMMA InvIsKept == StoreInv => SnapshotsAreKept
<1> SUFFICES ASSUME StoreInv PROVE SnapshotsAreKept
  OBVIOUS
<1>1. StoreTypeOK
  BY DEF StoreInv, StoreTyped, WritesInOrder, StoreTypeOK, Snapshots, Named, Snapshot
<1>2. StartReadsTheLast /\ StoredOnceSettled
  BY DEF StoreInv, NothingCutOff, StartReadsTheLast, StoredOnceSettled
<1>3. OfferedIsRestored
  <2> SUFFICES ASSUME running = "on", rebuilds = 0, NEW i \in DOMAIN offered
               PROVE  i \in DOMAIN GetSnapshots /\ RestoredName(i) = offered[i]
    BY DEF OfferedIsRestored
  <2>1. offered = [k \in DOMAIN GetSnapshots |-> GetSnapshots[k].name]
    BY DEF StoreInv, Offered, NamesOf
  <2> QED BY <2>1 DEF RestoredName
<1> QED BY <1>1, <1>2, <1>3 DEF SnapshotsAreKept

\* Before anything was carried over, the stores hold what earlier versions left.
LEMMA InitStore == StoreInit => StoreInv
<1> SUFFICES ASSUME StoreInit PROVE StoreInv
  OBVIOUS
<1>1. \A l \in OldLists \cup {Empty} : l \in Snapshots
  <2> SUFFICES ASSUME NEW l \in OldLists PROVE l \in Snapshots
    BY NoneSaved
  <2>1. l \in Seq([name : SnapshotName, save : {0}]) /\ Named(l)
    BY SnapshotAssumption DEF Named
  <2>2. [name : SnapshotName, save : {0}] \subseteq Snapshot
    BY SnapshotAssumption DEF Snapshot
  <2>3. l \in Seq(Snapshot)
    BY <2>1, <2>2, SeqMonotonic
  <2> QED BY <2>1, <2>3 DEF Snapshots
<1>2. oldFiles \in [Stores -> Snapshots]
  BY <1>1 DEF StoreInit
<1>3. StoreTyped
  <2>1. persists \in Seq(Write)
    BY DEF StoreInit, Empty
  <2>2. running = "off" /\ available \in BOOLEAN /\ object \in BOOLEAN
        /\ wanted.kept \in BOOLEAN
    BY DEF StoreInit
  <2>3. emptied \in Nat /\ saves \in 0..MaxSaves /\ storeTurns \in Nat /\ rebuilds \in 0..2
    BY SnapshotAssumption DEF StoreInit
  <2>4. wanted = [list |-> wanted.list, kept |-> wanted.kept, stored |-> wanted.stored]
        /\ wanted.stored
    BY DEF StoreInit
  <2>5. list \in Snapshots /\ text \in Snapshots
    BY NoneSaved DEF StoreInit
  <2> QED BY <1>2, <2>1, <2>2, <2>3, <2>4, <2>5 DEF StoreTyped
<1>4. WritesInOrder /\ Offered
  BY NoneSaved DEF StoreInit, WritesInOrder, Offered
<1>6. NothingCutOff
  BY NoneSaved DEF StoreInit, NothingCutOff, NothingLeft, Stores, Removing
<1> QED BY <1>3, <1>4, <1>6 DEF StoreInv

-----------------------------------------------------------------------------
\* Saving keeps each name once.
LEMMA SavedKeepsNames ==
  ASSUME NEW l \in Snapshots, NEW s \in Snapshot
  PROVE  SavedIn(l, s) \in Snapshots
<1>1. l \in Seq(Snapshot) /\ Named(l)
  BY DEF Snapshots
<1>2. CASE Knows(l, s.name)
  <2> DEFINE k == PlaceOf(l, s.name)
  <2>1. k \in DOMAIN l /\ l[k].name = s.name
    BY <1>2 DEF Knows, PlaceOf
  <2> HIDE DEF k
  <2> DEFINE m == [l EXCEPT ![k] = s]
  <2>2. m \in Seq(Snapshot) /\ DOMAIN m = DOMAIN l
    BY <1>1, <2>1, ExceptSeq
  <2>3. \A i \in DOMAIN l : m[i].name = l[i].name
    BY <1>1, <2>1
  <2>4. Named(m)
    BY <1>1, <2>2, <2>3 DEF Named
  <2>5. SavedIn(l, s) = m
    BY <1>2 DEF SavedIn, k
  <2> HIDE DEF m
  <2> QED BY <2>2, <2>4, <2>5 DEF Snapshots
<1>3. CASE ~Knows(l, s.name)
  <2> DEFINE m == Append(l, s)
  <2>1. m \in Seq(Snapshot) /\ Len(m) = Len(l) + 1 /\ m[Len(l) + 1] = s
        /\ \A i \in 1..Len(l) : m[i] = l[i]
    BY <1>1, AppendProperties
  <2>2. \A i \in 1..Len(l) : l[i].name # s.name
    BY <1>1, <1>3 DEF Knows
  <2>3. Len(l) \in Nat /\ DOMAIN l = 1..Len(l) /\ DOMAIN m = 1..Len(l) + 1
    BY <1>1, <2>1, LenProperties
  <2>4. SavedIn(l, s) = m
    BY <1>3 DEF SavedIn
  <2> HIDE DEF m
  <2>5. Named(m)
    <3> SUFFICES ASSUME NEW i \in DOMAIN m, NEW j \in DOMAIN m, m[i].name = m[j].name
                 PROVE  i = j
      BY DEF Named
    <3>1. (i \in 1..Len(l) \/ i = Len(l) + 1) /\ (j \in 1..Len(l) \/ j = Len(l) + 1)
      BY <2>3
    <3>2. CASE i \in 1..Len(l) /\ j \in 1..Len(l)
      BY <1>1, <2>1, <2>3, <3>2 DEF Named
    <3>3. CASE i \in 1..Len(l) /\ j = Len(l) + 1
      BY <2>1, <2>2, <3>3
    <3>4. CASE j \in 1..Len(l) /\ i = Len(l) + 1
      BY <2>1, <2>2, <3>4
    <3> QED BY <3>1, <3>2, <3>3, <3>4
  <2> QED BY <2>1, <2>4, <2>5 DEF Snapshots
<1> QED BY <1>2, <1>3

\* Deleting keeps each name once.
LEMMA DeletedKeepsNames ==
  ASSUME NEW l \in Snapshots, NEW k \in DOMAIN l
  PROVE  RemoveAt(l, k) \in Snapshots
<1>1. l \in Seq(Snapshot) /\ Named(l) /\ Len(l) \in Nat /\ DOMAIN l = 1..Len(l)
  BY LenProperties DEF Snapshots
<1> DEFINE m == RemoveAt(l, k)
<1>2. m \in Seq(Snapshot) /\ Len(m) = Len(l) - 1
      /\ \A i \in 1..Len(l) - 1 : m[i] = IF i < k THEN l[i] ELSE l[i + 1]
  BY <1>1, WithoutOne
<1> HIDE DEF m
<1>3. Named(m)
  <2> SUFFICES ASSUME NEW i \in DOMAIN m, NEW j \in DOMAIN m, m[i].name = m[j].name
               PROVE  i = j
    BY DEF Named
  <2>1. i \in 1..Len(l) - 1 /\ j \in 1..Len(l) - 1
    BY <1>2, LenProperties
  <2> DEFINE at(n) == IF n < k THEN n ELSE n + 1
  <2>2. at(i) \in DOMAIN l /\ at(j) \in DOMAIN l /\ l[at(i)].name = l[at(j)].name
    BY <1>1, <1>2, <2>1
  <2>3. at(i) = at(j)
    <3> HIDE DEF at
    <3> QED BY <1>1, <2>2 DEF Named
  <2> QED BY <1>1, <2>1, <2>3
<1> QED BY <1>2, <1>3 DEF Snapshots, m

\* A write that is asked for comes last, and waits for its read.
LEMMA AskedLast ==
  ASSUME StoreTyped, WritesInOrder, NEW l \in Snapshots
  PROVE  /\ Persisted(l) \in Seq(Write) /\ Persisted(l) # Empty
         /\ Len(Persisted(l)) = Len(persists) + 1
         /\ Persisted(l)[Len(persists) + 1] = [of |-> emptied, put |-> FALSE, was |-> l]
         /\ \A i, j \in DOMAIN Persisted(l) : i <= j /\ Persisted(l)[j].put => Persisted(l)[i].put
<1> DEFINE p == [of |-> emptied, put |-> FALSE, was |-> l]
           q == Append(persists, p)
<1>1. p \in Write /\ persists \in Seq(Write) /\ p.put = FALSE
  BY DEF StoreTyped, Write
<1>2. q \in Seq(Write) /\ Len(q) = Len(persists) + 1 /\ q[Len(persists) + 1] = p
      /\ \A i \in 1..Len(persists) : q[i] = persists[i]
  <2> HIDE DEF p
  <2> QED BY <1>1, AppendProperties
<1>3. Persisted(l) = q
  BY DEF Persisted
<1>4. Len(persists) \in Nat /\ DOMAIN persists = 1..Len(persists)
      /\ DOMAIN q = 1..Len(persists) + 1
  <2> HIDE DEF q
  <2> QED BY <1>1, <1>2, LenProperties
<1>5. ASSUME NEW i \in DOMAIN q, NEW j \in DOMAIN q, i <= j, q[j].put
      PROVE  q[i].put
  <2>1. j \in 1..Len(persists)
    <3> HIDE DEF p, q
    <3> QED BY <1>1, <1>2, <1>4, <1>5
  <2>2. i \in 1..Len(persists)
    BY <1>4, <1>5, <2>1
  <2> HIDE DEF p, q
  <2> QED BY <1>2, <1>4, <1>5, <2>1, <2>2 DEF WritesInOrder
<1>6. q # Empty
  <2> HIDE DEF q
  <2> QED BY <1>2, <1>4, NoneSaved
<1> HIDE DEF q
<1> QED BY <1>2, <1>3, <1>5, <1>6 DEF p

\* A save or a delete: the list changes, and a write of it comes last.
LEMMA AskKeeps ==
  ASSUME StoreInv, running = "on", available,
         NEW l \in Snapshots, list' = l, persists' = Persisted(l), Wanted(l),
         emptied' \in Nat, emptied' = emptied \/ (emptied' # emptied /\ l = Empty),
         rebuilds' \in 1..2, saves' \in 0..MaxSaves,
         UNCHANGED <<running, available, object, text, oldFiles, storeTurns>>
  PROVE  StoreInv'
<1>0. StoreTyped /\ WritesInOrder
  BY DEF StoreInv
<1> DEFINE q == Persisted(l)
<1>1. /\ q \in Seq(Write) /\ q # Empty /\ Len(q) = Len(persists) + 1
      /\ q[Len(persists) + 1] = [of |-> emptied, put |-> FALSE, was |-> l]
      /\ \A i, j \in DOMAIN q : i <= j /\ q[j].put => q[i].put
  BY <1>0, AskedLast
<1>2. persists' = q
  OBVIOUS
<1> HIDE DEF q
<1>3. wanted' = [list |-> l, kept |-> object /\ NothingLeft, stored |-> TRUE]
      /\ NothingLeft' = NothingLeft
  BY DEF Wanted, NothingLeft
<1>4. StoreTyped'
  <2>1. persists' \in Seq(Write)
    BY <1>1, <1>2
  <2>2. wanted'.kept \in BOOLEAN /\ wanted'.stored
        /\ wanted' = [list |-> wanted'.list, kept |-> wanted'.kept, stored |-> wanted'.stored]
    <3>1. NothingLeft \in BOOLEAN
      BY DEF NothingLeft
    <3> QED BY <1>0, <1>3, <3>1 DEF StoreTyped
  <2> QED BY <1>0, <2>1, <2>2 DEF StoreTyped
<1>5. WritesInOrder'
  BY <1>0, <1>1, <1>2 DEF WritesInOrder
<1>6. Offered'
  BY DEF StoreInv, Offered
<1>7. NothingCutOff'
  <2> SUFFICES ASSUME wanted'.kept PROVE NothingCutOff'
    BY DEF NothingCutOff
  <2>1. object /\ NothingLeft /\ NothingLeft' /\ wanted'.list = l
    BY <1>3
  <2>2. persists'[Len(persists')].put = FALSE /\ persists'[Len(persists')].of = emptied
    BY <1>1, <1>2
  <2>3. TextOf(persists[Len(persists)])' = l
    BY <2>2 DEF TextOf
  <2>4. LastPuts'
    BY <2>2, <2>3 DEF LastPuts
  <2> QED BY <1>1, <1>2, <2>1, <2>4 DEF NothingCutOff, NothingLeft, Stores
<1> QED BY <1>4, <1>5, <1>6, <1>7 DEF StoreInv

\* A snapshot is saved under its name.
LEMMA SaveKeeps ==
  ASSUME StoreInv, NEW n \in SnapshotName, Save(n)
  PROVE  StoreInv'
<1>1. running = "on" /\ saves < MaxSaves /\ saves' = saves + 1 /\ rebuilds < 2
      /\ rebuilds' = rebuilds + 1
      /\ UNCHANGED <<running, available, emptied, object, text, oldFiles, offered, storeTurns>>
  BY DEF Save
<1>2. saves' \in 0..MaxSaves /\ rebuilds' \in 1..2
  BY <1>1, SnapshotAssumption DEF StoreInv, StoreTyped
<1>3. CASE available
  <2> DEFINE l == SavedIn(list, [name |-> n, save |-> saves + 1])
  <2>1. list' = l /\ persists' = Persisted(l) /\ Wanted(l)
    BY <1>3 DEF Save
  <2>2. [name |-> n, save |-> saves + 1] \in Snapshot
    BY <1>1, <1>2 DEF Snapshot
  <2>3. list \in Snapshots /\ emptied \in Nat
    BY DEF StoreInv, StoreTyped
  <2>4. l \in Snapshots
    BY <2>2, <2>3, SavedKeepsNames
  <2> HIDE DEF l
  <2> QED BY <1>1, <1>2, <1>3, <2>1, <2>3, <2>4, AskKeeps
<1>4. CASE ~available
  <2>1. UNCHANGED <<list, persists, wanted>>
    BY <1>4 DEF Save
  <2>2. StoreTyped'
    BY <1>1, <1>2, <2>1 DEF StoreInv, StoreTyped
  <2>3. WritesInOrder' /\ Offered'
    BY <1>1, <1>2, <2>1 DEF StoreInv, WritesInOrder, Offered
  <2>4. NothingCutOff'
    BY <1>1, <2>1 DEF StoreInv, NothingCutOff, LastPuts, NothingLeft, Removing, TextOf
  <2> QED BY <2>2, <2>3, <2>4 DEF StoreInv
<1> QED BY <1>3, <1>4

\* A snapshot is deleted.
LEMMA DeleteKeeps ==
  ASSUME StoreInv, NEW n \in SnapshotName, Delete(n)
  PROVE  StoreInv'
<1>1. running = "on" /\ available /\ Knows(list, n) /\ rebuilds < 2 /\ rebuilds' = rebuilds + 1
      /\ UNCHANGED <<running, available, object, text, oldFiles, offered, saves, storeTurns>>
  BY DEF Delete
<1>2. rebuilds' \in 1..2
  BY <1>1 DEF StoreInv, StoreTyped
<1> DEFINE k == PlaceOf(list, n)
           l == RemoveAt(list, k)
<1>3. list' = l /\ persists' = Persisted(l) /\ Wanted(l)
      /\ emptied' = IF l = Empty THEN emptied + 1 ELSE emptied
  BY DEF Delete
<1>4. k \in DOMAIN list
  BY <1>1 DEF Knows, PlaceOf
<1>5. list \in Snapshots /\ emptied \in Nat /\ saves \in 0..MaxSaves
  BY DEF StoreInv, StoreTyped
<1> HIDE DEF k
<1>6. l \in Snapshots
  BY <1>4, <1>5, DeletedKeepsNames
<1> HIDE DEF l
<1>7. emptied' \in Nat /\ (emptied' = emptied \/ (emptied' # emptied /\ l = Empty))
  BY <1>3, <1>5
<1> QED BY <1>1, <1>2, <1>3, <1>5, <1>6, <1>7, AskKeeps

\* A write that ends without the object is taken out; the last one says so.
LEMMA DropKeeps ==
  ASSUME StoreInv, NEW i \in DOMAIN persists, Unwritten(i),
         UNCHANGED <<running, available, list, emptied, object, text, oldFiles, offered,
                     rebuilds, saves, storeTurns>>
  PROVE  StoreInv'
<1>0. StoreTyped /\ WritesInOrder /\ NothingCutOff
  BY DEF StoreInv
<1> DEFINE q == RemoveAt(persists, i)
           ok == wanted.stored /\ i # Len(persists)
<1>1. persists' = q
  BY DEF Unwritten
<1>2. wanted' = [list |-> wanted.list, kept |-> wanted.kept, stored |-> ok]
  BY <1>0 DEF Unwritten, StoreTyped
<1>3. persists \in Seq(Write) /\ Len(persists) \in Nat /\ DOMAIN persists = 1..Len(persists)
  BY <1>0, LenProperties DEF StoreTyped
<1>4. persists # Empty /\ Len(persists) > 0
  BY <1>3, NoneSaved
<1>5. running = "on" /\ available
  BY <1>0, <1>4 DEF WritesInOrder
<1>6. q \in Seq(Write) /\ Len(q) = Len(persists) - 1
      /\ \A j \in 1..Len(persists) - 1 : q[j] = IF j < i THEN persists[j] ELSE persists[j + 1]
  BY <1>3, WithoutOne
<1>7. ok \in BOOLEAN /\ (ok => wanted.stored /\ i # Len(persists))
  BY <1>0 DEF StoreTyped
<1> HIDE DEF q, ok
<1>8. StoreTyped' /\ Offered'
  <2>1. StoreTyped'
    BY <1>0, <1>1, <1>2, <1>6, <1>7 DEF StoreTyped
  <2> QED BY <2>1 DEF StoreInv, Offered, GetSnapshots
<1>9. WritesInOrder'
  <2>1. ASSUME NEW a \in DOMAIN q, NEW b \in DOMAIN q, a <= b, q[b].put PROVE q[a].put
    <3>1. a \in 1..Len(persists) - 1 /\ b \in 1..Len(persists) - 1
      BY <1>6, LenProperties
    <3> DEFINE at(j) == IF j < i THEN j ELSE j + 1
    <3>2. at(a) \in DOMAIN persists /\ at(b) \in DOMAIN persists /\ at(a) <= at(b)
      BY <1>3, <2>1, <3>1
    <3>3. q[a] = persists[at(a)] /\ q[b] = persists[at(b)]
      BY <1>6, <3>1
    <3> HIDE DEF at
    <3> QED BY <1>0, <2>1, <3>2, <3>3 DEF WritesInOrder
  <2> QED BY <1>1, <1>5, <2>1 DEF WritesInOrder
<1>10. NothingCutOff'
  <2> SUFFICES ASSUME wanted.kept PROVE NothingCutOff'
    BY <1>2 DEF NothingCutOff
  <2>1. NothingLeft' = NothingLeft /\ wanted'.list = wanted.list /\ wanted'.stored = ok
    BY <1>2 DEF NothingLeft
  <2>2. ASSUME NothingLeft, ok PROVE persists' # Empty /\ LastPuts'
    <3>1. i \in 1..Len(persists) - 1
      BY <1>3, <1>7, <2>2
    <3>2. Len(persists) - 1 \in 1..Len(persists) - 1 /\ ~(Len(persists) - 1 < i)
          /\ Len(persists) - 1 + 1 = Len(persists)
      BY <1>3, <3>1
    <3>3. persists'[Len(persists')] = persists[Len(persists)]
      BY <1>1, <1>6, <3>2
    <3>4. persists' # Empty
      BY <1>1, <1>6, <3>2, NoneSaved
    <3>5. LastPuts
      BY <1>0, <1>4, <1>7, <2>2 DEF NothingCutOff
    <3>6. TextOf(persists[Len(persists)])' = TextOf(persists[Len(persists)])
      BY <3>3 DEF TextOf
    <3> QED BY <3>3, <3>4, <3>5, <3>6 DEF LastPuts
  <2>3. running' = running /\ available' = available /\ object' = object /\ text' = text
        /\ list' = list /\ oldFiles' = oldFiles
    OBVIOUS
  <2> QED BY <1>0, <1>5, <2>1, <2>2, <2>3 DEF NothingCutOff, Removing
<1> QED BY <1>8, <1>9, <1>10 DEF StoreInv

\* A read is answered: the array is put into text as it is now.
LEMMA ReadKeeps ==
  ASSUME StoreInv, PersistRead
  PROVE  StoreInv'
<1>0. StoreTyped /\ WritesInOrder /\ NothingCutOff
  BY DEF StoreInv
<1> SUFFICES ASSUME NEW i \in DOMAIN persists, ~persists[i].put,
                    \A j \in 1 .. i - 1 : persists[j].put, object,
                    persists' = [persists EXCEPT ![i].put = TRUE, ![i].was = TextOf(persists[i])],
                    UNCHANGED <<running, available, list, emptied, object, text, oldFiles, offered,
                                rebuilds, wanted, saves, storeTurns>>
             PROVE  StoreInv'
  BY DropKeeps DEF PersistRead
<1>3. persists \in Seq(Write) /\ Len(persists) \in Nat /\ DOMAIN persists = 1..Len(persists)
  BY <1>0, LenProperties DEF StoreTyped
<1>4. persists # Empty /\ Len(persists) > 0
  BY <1>3, NoneSaved
<1>5. running = "on" /\ available
  BY <1>0, <1>4 DEF WritesInOrder
<1>6. Offered'
  BY DEF StoreInv, Offered, GetSnapshots
<1> DEFINE w == [persists[i] EXCEPT !.put = TRUE, !.was = TextOf(persists[i])]
           q == [persists EXCEPT ![i] = w]
<1>2. persists' = q
  OBVIOUS
<1>7. w \in Write /\ w.put = TRUE /\ w.was = TextOf(persists[i])
  <2>1. TextOf(persists[i]) \in Snapshots
    BY <1>0, NoneSaved DEF TextOf, StoreTyped
  <2>2. persists[i] \in Write
    BY <1>3, ElementOfSeq
  <2> QED BY <2>1, <2>2 DEF Write
<1> HIDE DEF w
<1>8. q \in Seq(Write) /\ Len(q) = Len(persists) /\ DOMAIN q = DOMAIN persists
      /\ q[i] = w /\ \A j \in DOMAIN persists : j # i => q[j] = persists[j]
  BY <1>3, <1>7, ExceptSeq
<1> HIDE DEF q
<1>9. WritesInOrder' /\ StoreTyped'
  <2>1. ASSUME NEW a \in DOMAIN q, NEW b \in DOMAIN q, a <= b, q[b].put PROVE q[a].put
    <3>1. CASE b = i /\ a # i
      <4>1. a \in 1..i - 1
        BY <1>3, <1>8, <2>1, <3>1
      <4> QED BY <1>8, <3>1, <4>1
    <3>2. CASE b # i /\ a # i
      BY <1>0, <1>8, <2>1, <3>2 DEF WritesInOrder
    <3>3. CASE a = i
      BY <1>7, <1>8, <3>3
    <3> QED BY <3>1, <3>2, <3>3
  <2>2. WritesInOrder'
    BY <1>2, <1>5, <2>1 DEF WritesInOrder
  <2>3. StoreTyped'
    BY <1>0, <1>2, <1>8 DEF StoreTyped
  <2> QED BY <2>2, <2>3
<1>10. NothingCutOff'
  <2> SUFFICES ASSUME wanted.kept PROVE NothingCutOff'
    BY DEF NothingCutOff
  <2>1. persists' # Empty
    BY <1>2, <1>3, <1>4, <1>8, NoneSaved
  <2>2. ASSUME LastPuts PROVE LastPuts'
    <3>1. CASE i = Len(persists)
      <4>1. q[Len(q)] = w /\ TextOf(persists[i]) = list
        BY <1>8, <2>2, <3>1 DEF LastPuts
      <4> QED BY <1>2, <1>7, <4>1 DEF LastPuts
    <3>2. CASE i # Len(persists)
      <4>1. persists'[Len(persists')] = persists[Len(persists)]
        BY <1>2, <1>3, <1>4, <1>8, <3>2
      <4>2. TextOf(persists[Len(persists)])' = TextOf(persists[Len(persists)])
        BY <4>1 DEF TextOf
      <4> QED BY <2>2, <4>1, <4>2 DEF LastPuts
    <3> QED BY <3>1, <3>2
  <2>3. NothingLeft' = NothingLeft /\ (NothingLeft /\ wanted.stored => LastPuts)
    BY <1>0, <1>4 DEF NothingCutOff, NothingLeft
  <2>4. running' = running /\ available' = available /\ object' = object /\ text' = text
        /\ list' = list /\ oldFiles' = oldFiles /\ wanted' = wanted
    OBVIOUS
  <2> QED BY <1>0, <1>5, <2>1, <2>2, <2>3, <2>4 DEF NothingCutOff, Removing
<1> QED BY <1>6, <1>7, <1>8, <1>9, <1>10 DEF StoreInv

\* The oldest write reaches the database.
LEMMA PutKeeps ==
  ASSUME StoreInv, PersistPut
  PROVE  StoreInv'
<1>0. StoreTyped /\ WritesInOrder /\ NothingCutOff
  BY DEF StoreInv
<1> SUFFICES ASSUME persists # Empty, Head(persists).put,
                    text' = IF object THEN Head(persists).was ELSE text,
                    persists' = Tail(persists),
                    UNCHANGED <<running, available, list, emptied, object, oldFiles, offered,
                                rebuilds, wanted, saves, storeTurns>>
             PROVE  StoreInv'
  <2>1. persists # Empty => 1 \in DOMAIN persists
    <3>1. persists \in Seq(Write)
      BY <1>0 DEF StoreTyped
    <3> QED BY <3>1, EmptySeq, LenProperties DEF Empty
  <2> QED BY <2>1, DropKeeps DEF PersistPut, StoredAs
<1>1. /\ persists # Empty /\ Head(persists).put
      /\ text' = IF object THEN Head(persists).was ELSE text
      /\ persists' = Tail(persists)
      /\ UNCHANGED <<running, available, list, emptied, object, oldFiles, offered,
                     rebuilds, wanted, saves, storeTurns>>
  OBVIOUS
<1>2. persists \in Seq(Write) /\ Len(persists) \in Nat /\ DOMAIN persists = 1..Len(persists)
  BY <1>0, LenProperties DEF StoreTyped
<1>3. persists # <<>>
  BY <1>1 DEF Empty
<1>4. /\ Tail(persists) \in Seq(Write) /\ Len(Tail(persists)) = Len(persists) - 1
      /\ \A i \in 1..Len(persists) - 1 : Tail(persists)[i] = persists[i + 1]
      /\ Head(persists) = persists[1] /\ Len(persists) > 0
  <2>1. Len(persists) > 0
    BY <1>2, <1>3, EmptySeq
  <2> QED BY <1>2, <1>3, <2>1, HeadTailProperties
<1>5. running = "on" /\ available
  BY <1>0, <1>1 DEF WritesInOrder
<1>6. persists[1] \in Write
  BY <1>2, <1>4, ElementOfSeq
<1>7. StoreTyped'
  <2>1. text' \in Snapshots
    BY <1>0, <1>1, <1>4, <1>6 DEF Write, StoreTyped
  <2> QED BY <1>0, <1>1, <1>4, <2>1 DEF StoreTyped
<1>8. Offered'
  BY <1>1 DEF StoreInv, Offered, GetSnapshots
<1>9. WritesInOrder'
  <2>1. ASSUME NEW a \in DOMAIN Tail(persists), NEW b \in DOMAIN Tail(persists), a <= b,
               Tail(persists)[b].put
        PROVE  Tail(persists)[a].put
    <3>1. a \in 1..Len(persists) - 1 /\ b \in 1..Len(persists) - 1
      BY <1>4, LenProperties
    <3>2. Tail(persists)[a] = persists[a + 1] /\ Tail(persists)[b] = persists[b + 1]
          /\ a + 1 \in DOMAIN persists /\ b + 1 \in DOMAIN persists /\ a + 1 <= b + 1
      BY <1>2, <1>4, <2>1, <3>1
    <3> QED BY <1>0, <2>1, <3>2 DEF WritesInOrder
  <2> QED BY <1>1, <1>5, <2>1 DEF WritesInOrder
<1>10. NothingCutOff'
  <2> SUFFICES ASSUME wanted.kept PROVE NothingCutOff'
    BY <1>1 DEF NothingCutOff
  <2>1. object /\ NothingLeft' = NothingLeft
        /\ (NothingLeft => wanted.list = list /\ (wanted.stored => LastPuts))
    BY <1>0, <1>1, <1>5 DEF NothingCutOff, NothingLeft
  <2>2. running' = "on" /\ available' /\ object' /\ wanted' = wanted /\ list' = list
        /\ oldFiles' = oldFiles /\ persists' = Tail(persists) /\ Len(persists) >= 1
    BY <1>1, <1>2, <1>4, <1>5, <2>1
  <2>3. ASSUME NothingLeft, wanted.stored, Len(persists) = 1
        PROVE  text' = list /\ persists' = Empty
    <3>1. text' = list
      BY <1>1, <1>4, <2>1, <2>3 DEF LastPuts
    <3>2. persists' = Empty
      BY <1>1, <1>4, <2>3, EmptySeq DEF Empty
    <3> QED BY <3>1, <3>2
  <2>4. ASSUME NothingLeft, wanted.stored, Len(persists) > 1
        PROVE  LastPuts' /\ persists' # Empty
    <3>1. Len(persists) - 1 \in 1..Len(persists) - 1 /\ (Len(persists) - 1) + 1 = Len(persists)
      BY <1>2, <2>4
    <3>2. persists'[Len(persists')] = persists[Len(persists)]
      BY <1>4, <2>2, <3>1
    <3>3. TextOf(persists[Len(persists)])' = TextOf(persists[Len(persists)])
      BY <1>1, <3>2 DEF TextOf
    <3>4. persists' # Empty
      BY <1>1, <1>2, <1>4, <2>4, NoneSaved
    <3>5. LastPuts
      BY <2>1, <2>4
    <3> QED BY <1>1, <3>2, <3>3, <3>4, <3>5 DEF LastPuts
  <2>5. Len(persists) = 1 \/ Len(persists) > 1
    BY <1>2, <2>2
  <2> QED BY <1>0, <2>1, <2>2, <2>3, <2>4, <2>5 DEF NothingCutOff, Removing
<1> QED BY <1>7, <1>8, <1>9, <1>10 DEF StoreInv

\* A rebuild offers what memory holds.
LEMMA RebuildKeeps == ASSUME StoreInv, Rebuild PROVE StoreInv'
<1>1. running = "on" /\ rebuilds > 0 /\ rebuilds' = rebuilds - 1
      /\ offered' = NamesOf(GetSnapshots)
      /\ UNCHANGED <<running, available, list, emptied, persists, object, text, oldFiles,
                     wanted, saves, storeTurns>>
  BY DEF Rebuild, Offers
<1>2. StoreTyped'
  BY <1>1 DEF StoreInv, StoreTyped
<1>3. WritesInOrder'
  BY <1>1 DEF StoreInv, WritesInOrder
<1>4. NothingCutOff'
  BY <1>1 DEF StoreInv, NothingCutOff, NothingLeft, LastPuts, TextOf, Removing
<1>5. Offered'
  BY <1>1 DEF Offered, NamesOf, GetSnapshots
<1> QED BY <1>2, <1>3, <1>4, <1>5 DEF StoreInv

\* Before the start is through nothing is written for the user.
LEMMA QuietStart ==
  ASSUME StoreInv, running # "on", running' # "on",
         running' \in {"root", "rootRemove", "dataDir", "dataDirRemove", "load", "broken"},
         text' \in Snapshots, oldFiles' \in [Stores -> Snapshots],
         wanted'.kept => wanted.kept, wanted'.kept \in BOOLEAN,
         wanted' = [list |-> wanted.list, kept |-> wanted'.kept, stored |-> wanted.stored],
         UNCHANGED <<available, list, emptied, persists, object, offered, rebuilds, saves,
                     storeTurns>>
  PROVE  StoreTyped' /\ WritesInOrder' /\ Offered'
<1>0. StoreTyped /\ WritesInOrder
  BY DEF StoreInv
<1>1. persists = Empty /\ wanted.stored /\ wanted'.stored = wanted.stored
      /\ wanted'.list = wanted.list
  BY <1>0 DEF WritesInOrder
<1>2. StoreTyped'
  <2>1. running' \in {"off", "root", "rootRemove", "dataDir", "dataDirRemove", "load", "on", "broken"}
    OBVIOUS
  <2>2. wanted' = [list |-> wanted'.list, kept |-> wanted'.kept, stored |-> wanted'.stored]
    BY <1>1
  <2> QED BY <1>0, <1>1, <2>1, <2>2 DEF StoreTyped
<1>3. WritesInOrder'
  BY <1>0, <1>1 DEF WritesInOrder
<1> QED BY <1>2, <1>3 DEF Offered

\* A store of an earlier version is written to the device object, dropped, or left.
LEMMA CarryKeeps ==
  ASSUME StoreInv, NEW place \in Stores,
         CarryWrite(place) \/ CarryDrops(place) \/ CarryFails(place)
  PROVE  StoreInv'
<1>0. StoreTyped /\ WritesInOrder /\ NothingCutOff
  BY DEF StoreInv
<1>1. /\ running = place
      /\ running' \in {Removing(place), Behind(place)} \cup (IF place = "root" THEN {"broken"} ELSE {})
      /\ UNCHANGED <<available, list, emptied, persists, object, oldFiles, offered,
                     rebuilds, saves, storeTurns>>
  BY DEF CarryWrite, CarryDrops, CarryFails
<1>2. running # "on" /\ running' # "on" /\ persists = Empty
      /\ running' \in {"rootRemove", "dataDir", "dataDirRemove", "load", "broken"}
  BY <1>0, <1>1 DEF Removing, Behind, Stores, WritesInOrder
<1>3. oldFiles \in [Stores -> Snapshots] /\ wanted.kept \in BOOLEAN
      /\ wanted = [list |-> wanted.list, kept |-> wanted.kept, stored |-> wanted.stored]
  BY <1>0 DEF StoreTyped
<1>4. CASE CarryWrite(place)
  <2>1. text' = (IF oldFiles[place] # Empty /\ object THEN oldFiles[place] ELSE text)
        /\ running' = Removing(place) /\ wanted' = wanted
    BY <1>4 DEF CarryWrite, CarriedOver
  <2>2. text' \in Snapshots
    BY <1>0, <1>3, <2>1 DEF StoreTyped
  <2>3. StoreTyped' /\ WritesInOrder' /\ Offered'
    BY <1>1, <1>2, <1>3, <2>1, <2>2, QuietStart
  <2>4. \A s \in Stores : running' = Removing(s) => s = place
    BY <2>1 DEF Removing, Stores
  <2>5. NothingCutOff'
    <3> SUFFICES ASSUME wanted.kept PROVE NothingCutOff'
      BY <2>1 DEF NothingCutOff
    <3>1. object /\ (NothingLeft => text' = text)
      BY <1>0, <2>1 DEF NothingCutOff, NothingLeft
    <3>2. NothingLeft' = NothingLeft /\ oldFiles' = oldFiles
      BY <1>1 DEF NothingLeft
    <3>3. \A s \in Stores : oldFiles[s] # Empty =>
            wanted.list = oldFiles[s] /\ (running' = Removing(s) => text' = oldFiles[s])
      BY <1>0, <2>1, <2>4, <3>1 DEF NothingCutOff
    <3>4. \A s \in Stores : Removing(s)' = Removing(s)
      BY DEF Removing
    <3> QED BY <1>0, <1>1, <1>2, <2>1, <3>1, <3>2, <3>3, <3>4 DEF NothingCutOff
  <2> QED BY <2>3, <2>5 DEF StoreInv
<1>5. CASE CarryDrops(place)
  <2>1. text' = text /\ wanted' = [list |-> wanted.list, kept |-> FALSE, stored |-> wanted.stored]
    BY <1>3, <1>5 DEF CarryDrops
  <2>2. ~wanted'.kept /\ text' \in Snapshots
    BY <1>0, <2>1 DEF StoreTyped
  <2>3. StoreTyped' /\ WritesInOrder' /\ Offered'
    BY <1>1, <1>2, <1>3, <2>1, <2>2, QuietStart
  <2>4. NothingCutOff'
    BY <2>2 DEF NothingCutOff
  <2> QED BY <2>3, <2>4 DEF StoreInv
<1>6. CASE CarryFails(place)
  <2>1. text' = text /\ wanted' = wanted
        /\ running' \in {Behind(place)} \cup (IF place = "root" THEN {"broken"} ELSE {})
    BY <1>6 DEF CarryFails
  <2>2. text' \in Snapshots
    BY <1>0, <2>1 DEF StoreTyped
  <2>3. StoreTyped' /\ WritesInOrder' /\ Offered'
    BY <1>1, <1>2, <1>3, <2>1, <2>2, QuietStart
  <2>4. \A s \in Stores : running' # Removing(s) /\ Removing(s)' = Removing(s)
    BY <2>1 DEF Removing, Behind
  <2>5. NothingLeft' = NothingLeft /\ oldFiles' = oldFiles /\ object' = object
        /\ persists' = persists
    BY <1>1 DEF NothingLeft
  <2>6. NothingCutOff'
    BY <1>0, <1>2, <2>1, <2>4, <2>5 DEF NothingCutOff
  <2> QED BY <2>3, <2>6 DEF StoreInv
<1> QED BY <1>4, <1>5, <1>6

\* The file of a store that was carried over goes, or stays with the list in it.
LEMMA RemoveKeeps ==
  ASSUME StoreInv, NEW place \in Stores, CarryRemove(place)
  PROVE  StoreInv'
<1>0. StoreTyped /\ WritesInOrder /\ NothingCutOff
  BY DEF StoreInv
<1>1. /\ running = Removing(place) /\ running' = Behind(place)
      /\ oldFiles' = [oldFiles EXCEPT ![place] = Empty] \/ oldFiles' = oldFiles
      /\ UNCHANGED <<available, list, emptied, persists, object, text, offered, rebuilds,
                     wanted, saves, storeTurns>>
  BY DEF CarryRemove
<1>2. oldFiles \in [Stores -> Snapshots]
  BY <1>0 DEF StoreTyped
<1>3. /\ oldFiles' \in [Stores -> Snapshots]
      /\ \A s \in Stores : oldFiles'[s] = oldFiles[s] \/ (s = place /\ oldFiles'[s] = Empty)
  BY <1>1, <1>2, NoneSaved
<1>4. running # "on" /\ running' # "on" /\ persists = Empty
      /\ running' \in {"dataDir", "load"}
      /\ \A s \in Stores : running' # Removing(s) /\ Removing(s)' = Removing(s)
  BY <1>0, <1>1 DEF Removing, Behind, WritesInOrder
<1>5. StoreTyped' /\ WritesInOrder' /\ Offered'
  <2>1. text' \in Snapshots /\ wanted.kept \in BOOLEAN
        /\ wanted = [list |-> wanted.list, kept |-> wanted.kept, stored |-> wanted.stored]
    BY <1>0, <1>1 DEF StoreTyped
  <2> QED BY <1>1, <1>3, <1>4, <2>1, QuietStart
<1>6. NothingCutOff'
  <2> SUFFICES ASSUME wanted.kept PROVE NothingCutOff'
    BY <1>1 DEF NothingCutOff
  <2>1. object /\ (oldFiles["root"] = Empty \/ oldFiles["dataDir"] = Empty)
        /\ \A s \in Stores : oldFiles[s] # Empty =>
             wanted.list = oldFiles[s] /\ (running = Removing(s) => text = oldFiles[s])
    BY <1>0 DEF NothingCutOff
  <2>2. oldFiles'["root"] = Empty \/ oldFiles'["dataDir"] = Empty
    BY <1>3, <2>1 DEF Stores
  <2>3. \A s \in Stores : oldFiles'[s] # Empty => wanted.list = oldFiles'[s]
    BY <1>3, <2>1
  <2>4. ASSUME NothingLeft' PROVE wanted.list = text
    <3>1. CASE NothingLeft
      BY <1>0, <1>4, <3>1 DEF NothingCutOff
    <3>2. CASE ~NothingLeft
      <4>1. PICK s \in Stores : oldFiles[s] # Empty
        BY <3>2 DEF NothingLeft
      <4>2. oldFiles'[s] = Empty
        BY <2>4 DEF NothingLeft
      <4>3. s = place
        BY <1>3, <4>1, <4>2
      <4> QED BY <1>1, <2>1, <4>1, <4>3
    <3> QED BY <3>1, <3>2
  <2> QED BY <1>1, <1>4, <2>1, <2>2, <2>3, <2>4 DEF NothingCutOff
<1> QED BY <1>5, <1>6 DEF StoreInv

\* The start ends with what the object holds, or with nothing it could read.
LEMMA LoadKeeps == ASSUME StoreInv, LoadLists PROVE StoreInv'
<1>0. StoreTyped /\ WritesInOrder /\ NothingCutOff
  BY DEF StoreInv
<1>1. /\ running = "load" /\ running' = "on" /\ rebuilds' = 1
      /\ \/ list' = (IF object THEN text ELSE Empty) /\ available' = TRUE
         \/ list' = Empty /\ available' = FALSE
      /\ UNCHANGED <<emptied, persists, object, text, oldFiles, offered, wanted, saves, storeTurns>>
  BY DEF LoadLists
<1>2. persists = Empty
  BY <1>0, <1>1 DEF WritesInOrder
<1>3. StoreTyped'
  <2>1. list' \in Snapshots /\ available' \in BOOLEAN
    BY <1>0, <1>1, NoneSaved DEF StoreTyped
  <2> QED BY <1>0, <1>1, <2>1 DEF StoreTyped
<1>4. WritesInOrder' /\ Offered'
  <2>1. Offered'
    BY <1>1 DEF Offered
  <2>2. WritesInOrder'
    BY <1>0, <1>1, <1>2, NoneSaved DEF WritesInOrder
  <2> QED BY <2>1, <2>2
<1>5. NothingCutOff'
  <2>1. \A s \in Stores : running' # Removing(s)'
    BY <1>1 DEF Removing
  <2>2. NothingLeft' = NothingLeft
    BY <1>1 DEF NothingLeft
  <2> QED BY <1>0, <1>1, <1>2, <2>1, <2>2 DEF NothingCutOff
<1> QED BY <1>3, <1>4, <1>5 DEF StoreInv

\* A start looks at the oldest store first.
LEMMA StartKeepsStore == ASSUME StoreInv, StartStore PROVE StoreInv'
<1>1. running = "off" /\ running' = "root"
      /\ UNCHANGED <<available, list, emptied, persists, object, text, oldFiles, offered,
                     rebuilds, wanted, saves, storeTurns>>
  BY DEF StartStore
<1>2. StoreTyped'
  BY <1>1 DEF StoreInv, StoreTyped
<1>3. WritesInOrder' /\ Offered'
  BY <1>1 DEF StoreInv, WritesInOrder, Offered
<1>4. NothingCutOff'
  <2>1. \A s \in Stores : running' # Removing(s)'
    BY <1>1 DEF Removing
  <2>2. NothingLeft' = NothingLeft
    BY <1>1 DEF NothingLeft
  <2>3. NothingCutOff /\ persists = Empty
    BY <1>1 DEF StoreInv, WritesInOrder
  <2> QED BY <1>1, <2>1, <2>2, <2>3 DEF NothingCutOff
<1> QED BY <1>2, <1>3, <1>4 DEF StoreInv

\* A light that left has nothing to keep any more.
LEMMA LeavingKeeps == ASSUME StoreInv, LightLeaves PROVE StoreInv'
<1>1. running = "on" /\ storeTurns' = storeTurns + 1 /\ object' = ~object /\ text' = Empty
      /\ wanted' = [wanted EXCEPT !.kept = FALSE]
      /\ UNCHANGED <<running, available, list, emptied, persists, oldFiles, offered, rebuilds, saves>>
  BY DEF LightLeaves
<1>2. StoreTyped'
  <2>1. object' \in BOOLEAN /\ storeTurns' \in Nat /\ text' \in Snapshots
    BY <1>1, NoneSaved DEF StoreInv, StoreTyped
  <2>2. wanted' = [list |-> wanted.list, kept |-> FALSE, stored |-> wanted.stored]
        /\ wanted.stored \in BOOLEAN
    BY <1>1 DEF StoreInv, StoreTyped
  <2>3. wanted'.kept \in BOOLEAN /\ wanted'.stored \in BOOLEAN
        /\ wanted' = [list |-> wanted'.list, kept |-> wanted'.kept, stored |-> wanted'.stored]
    BY <2>2
  <2> QED BY <1>1, <2>1, <2>3 DEF StoreInv, StoreTyped
<1>3. WritesInOrder' /\ Offered'
  <2>1. wanted'.stored = wanted.stored
    BY <1>1 DEF StoreInv, StoreTyped
  <2> QED BY <1>1, <2>1 DEF StoreInv, WritesInOrder, Offered, GetSnapshots
<1>4. NothingCutOff'
  <2>1. ~wanted'.kept
    BY <1>1 DEF StoreInv, StoreTyped
  <2> QED BY <2>1 DEF NothingCutOff
<1> QED BY <1>2, <1>3, <1>4 DEF StoreInv

\* The adapter stops: of the writes under way only those that were put may arrive.
LEMMA StopKeeps == ASSUME StoreInv, StopStore PROVE StoreInv'
<1>0. StoreTyped /\ WritesInOrder /\ NothingCutOff
  BY DEF StoreInv
<1>1. PICK last \in {0} \cup {i \in DOMAIN persists : persists[i].put} :
        /\ text' = (IF last > 0 /\ object THEN persists[last].was ELSE text)
        /\ wanted' = [wanted EXCEPT !.kept = @ /\ wanted.stored /\ last = Len(persists),
                                   !.stored = TRUE]
  BY DEF StopStore
<1>2. /\ storeTurns' = storeTurns + 1
      /\ running' = "off" /\ available' = FALSE /\ list' = Empty /\ emptied' = 0
      /\ persists' = Empty /\ rebuilds' = 0
      /\ UNCHANGED <<object, oldFiles, offered, saves>>
  BY DEF StopStore
<1>3. persists \in Seq(Write) /\ Len(persists) \in Nat /\ DOMAIN persists = 1..Len(persists)
  BY <1>0, LenProperties DEF StoreTyped
<1> DEFINE kept == wanted.kept /\ wanted.stored /\ last = Len(persists)
<1>4. wanted' = [list |-> wanted.list, kept |-> kept, stored |-> TRUE] /\ kept \in BOOLEAN
  BY <1>0, <1>1 DEF StoreTyped
<1>5. kept => wanted.kept /\ wanted.stored /\ last = Len(persists)
  OBVIOUS
<1> HIDE DEF kept
<1>6. StoreTyped'
  <2>1. text' \in Snapshots
    <3>1. CASE last = 0
      BY <1>0, <1>1, <3>1 DEF StoreTyped
    <3>2. CASE last \in DOMAIN persists
      <4>1. persists[last] \in Write
        BY <1>3, <3>2, ElementOfSeq
      <4> QED BY <1>0, <1>1, <4>1 DEF Write, StoreTyped
    <3> QED BY <1>1, <3>1, <3>2
  <2>2. persists' \in Seq(Write) /\ list' \in Snapshots
    BY <1>2, NoneSaved DEF Empty
  <2>3. wanted'.kept \in BOOLEAN /\ wanted'.stored \in BOOLEAN
        /\ wanted' = [list |-> wanted'.list, kept |-> wanted'.kept, stored |-> wanted'.stored]
    BY <1>4
  <2>4. emptied' \in Nat /\ rebuilds' \in 0..2 /\ storeTurns' \in Nat
    BY <1>0, <1>2 DEF StoreTyped
  <2> QED BY <1>0, <1>2, <2>1, <2>2, <2>3, <2>4 DEF StoreTyped
<1>7. WritesInOrder' /\ Offered'
  BY <1>2, <1>4, NoneSaved DEF WritesInOrder, Offered
<1>8. NothingCutOff'
  <2> SUFFICES ASSUME kept PROVE NothingCutOff'
    BY <1>4 DEF NothingCutOff
  <2>1. wanted.kept /\ wanted.stored /\ last = Len(persists)
    BY <1>5
  <2>2. object /\ (oldFiles["root"] = Empty \/ oldFiles["dataDir"] = Empty)
        /\ \A s \in Stores : oldFiles[s] # Empty => wanted.list = oldFiles[s]
    BY <1>0, <2>1 DEF NothingCutOff
  <2>3. ASSUME NothingLeft PROVE wanted.list = text'
    <3>1. CASE persists = Empty
      <4>1. last = 0
        BY <2>1, <3>1, NoneSaved
      <4>2. text' = text
        BY <1>1, <4>1
      <4> QED BY <1>0, <2>1, <2>3, <3>1, <4>2 DEF NothingCutOff
    <3>2. CASE persists # Empty
      <4>1. Len(persists) > 0
        BY <1>3, <3>2, EmptySeq DEF Empty
      <4>2. persists[last].put /\ text' = persists[last].was
        BY <1>1, <1>3, <2>1, <2>2, <4>1
      <4>3. running = "on" /\ available /\ LastPuts /\ wanted.list = list
        BY <1>0, <2>1, <2>3, <3>2 DEF NothingCutOff, WritesInOrder
      <4> QED BY <2>1, <4>2, <4>3 DEF LastPuts
    <3> QED BY <3>1, <3>2
  <2>4. NothingLeft' = NothingLeft /\ \A s \in Stores : running' # Removing(s)'
    BY <1>2 DEF NothingLeft, Removing
  <2>5. wanted'.list = wanted.list
    BY <1>4
  <2> QED BY <1>2, <2>2, <2>3, <2>4, <2>5 DEF NothingCutOff
<1> QED BY <1>6, <1>7, <1>8 DEF StoreInv

\* Every step of the store keeps the invariant.
LEMMA StoreStep ==
  ASSUME StoreInv, [StoreNext]_storeVars
  PROVE  StoreInv'
<1>1. CASE UNCHANGED storeVars
  <2>1. StoreTyped' /\ WritesInOrder'
    BY <1>1 DEF storeVars, StoreInv, StoreTyped, WritesInOrder
  <2>2. NothingCutOff' /\ Offered'
    BY <1>1 DEF storeVars, StoreInv, NothingCutOff, Offered, NothingLeft, LastPuts, Removing, TextOf, GetSnapshots
  <2> QED BY <2>1, <2>2 DEF StoreInv
<1> QED BY <1>1, SaveKeeps, DeleteKeeps, ReadKeeps, PutKeeps, RebuildKeeps, CarryKeeps, RemoveKeeps,
           LoadKeeps, StartKeepsStore, StopKeeps, LeavingKeeps DEF StoreNext

\* Overlapping writes, an emptied and refilled list, a start that cannot read and the
\* files of earlier versions lose and revive nothing, wherever the adapter stops and
\* whatever write, listing or removal fails, but for the losses StartReadsTheLast names
\* (local-snapshots.ts).
THEOREM SnapshotsStayKept == StoreSpec => []SnapshotsAreKept
<1>1. StoreInv /\ [StoreNext]_storeVars => StoreInv'
  BY StoreStep
<1> QED BY <1>1, InitStore, InvIsKept, PTL DEF StoreSpec

-----------------------------------------------------------------------------
(***************************************************************************)
(* StateTree: builds of a device run one after the other, and what a build  *)
(* derived stays true of its device unless another one follows it.          *)
(***************************************************************************)
\* Builds that wait have done nothing; only the first one runs.
QueueFits(q) ==
  /\ q \in Seq(BuildRecord) /\ Len(q) <= MaxBuilds
  /\ \A i \in DOMAIN q :
       /\ i > 1 => q[i].at = "queued"
       /\ q[i].rows \cap Foreign = {}
       /\ q[i].kind = "lan" => q[i].at = "queued"
       /\ q[i].kind = "sweep" => q[i].at \in {"queued", "sweep"}

\* Without an API key nothing is built from a list, with one nothing swept as pure LAN.
KindsFit(q, k) == \A i \in DOMAIN q : IF k THEN q[i].kind # "sweep" ELSE q[i].kind # "full"

\* An API key is configured.
WithKey(k) == k = TRUE

\* What a light of which r is known declares.
Own(r) ==
  {c \in r.caps : c # "light_scene" /\ (r.ip => c # "power")} \cup (r.caps \cap {"light_scene"})
    \cup {"snapshot_local"} \cup (IF r.lib = "speed" THEN {"scene_speed"} ELSE {})

\* A build that may sweep the speed slider knows why.
SliderKnown(q) ==
  \A i \in DOMAIN q : q[i].kind = "full" /\ q[i].at \in {"write", "list", "sweep"} =>
    /\ "scene_speed" \in q[i].defs \cup q[i].keep \/ q[i].noSpeed
    /\ q[i].at = "sweep" => q[i].rows \cap (q[i].defs \cup q[i].keep) = {}
    /\ q[i].keep \subseteq {"scene_speed"}

\* A light with an address has its controls, or a build will write them.
ControlsCome(q, r, ps) ==
  r.ip => \/ LAN_STATE_IDS \subseteq ps
          \/ \E i \in DOMAIN q : q[i].at = "queued" /\ q[i].kind \in {"lan", "full"}

\* A build that has yet to look at what the light declares.
FullAhead(q) == \E i \in DOMAIN q : q[i].kind = "full" /\ (i > 1 \/ q[i].at \in {"queued", "derive"})

\* The points are what own says, but for other owners' and the slider.
Clean(own, ps) == ps \subseteq own \cup Foreign \cup {"scene_speed"}

\* The build b, the last one of a light that looked at the list, is on its way to that.
OnItsWay(b, own, ps) ==
  /\ own \subseteq b.defs /\ b.defs \subseteq own \cup Foreign
  /\ b.at \in {"list", "sweep"} => own \subseteq ps
  /\ b.at = "sweep" => b.rows \cap own = {} /\ Clean(own, ps \ b.rows)

\* s: a build in full has ended since the list last changed.
Converges(q, own, ps, s) ==
  ~FullAhead(q) =>
    IF 1 \in DOMAIN q /\ q[1].kind = "full" THEN OnItsWay(q[1], own, ps)
    ELSE s => own \subseteq ps /\ Clean(own, ps)

\* A light of which r is known, with its builds q and its datapoints ps; x: a step that
\* queues no build has changed what it declares.
LampHolds(q, r, ps, s, k, x) ==
  /\ KindsFit(q, k) /\ (~k => ~s)
  /\ SliderKnown(q) /\ ControlsCome(q, r, ps) /\ (~x => Converges(q, Own(r), ps, s))

TreeInv ==
  /\ key \in BOOLEAN /\ members \subseteq Lamps /\ swept \subseteq Lamps /\ unbuilt \subseteq Lamps
  /\ lamp \in [Lamps -> LampState]
  /\ points \in [Built -> SUBSET Point]
  /\ DOMAIN chain = Built /\ chain = [d \in Built |-> chain[d]]
  /\ \A d \in Built : QueueFits(chain[d])
  /\ \A l \in Lamps : LampHolds(chain[l], lamp[l], points[l], l \in swept, key, l \in unbuilt)

-----------------------------------------------------------------------------
\* A new build at the end of a queue with room.
LEMMA AppendFits ==
  ASSUME NEW q, QueueFits(q), Len(q) < MaxBuilds, NEW kind \in {"lan", "full", "sweep"},
         NEW r, r = Append(q, Waiting(kind))
  PROVE  /\ QueueFits(r) /\ Len(r) = Len(q) + 1 /\ r[Len(q) + 1] = Waiting(kind)
         /\ \A i \in DOMAIN q : i \in DOMAIN r /\ r[i] = q[i]
         /\ \A i \in DOMAIN r : i \in DOMAIN q \/ i = Len(q) + 1
<1>1. Waiting(kind) \in BuildRecord
  BY DEF Waiting, BuildRecord
<1>2. /\ r \in Seq(BuildRecord) /\ Len(r) = Len(q) + 1 /\ r[Len(q) + 1] = Waiting(kind)
      /\ \A i \in 1..Len(q) : r[i] = q[i]
  BY <1>1 DEF QueueFits
<1>3. DOMAIN q = 1..Len(q) /\ DOMAIN r = 1..Len(q) + 1 /\ Len(q) \in Nat
  BY <1>2, LenProperties DEF QueueFits
<1>4. Len(r) <= MaxBuilds
  BY <1>2, <1>3, TreeAssumption
<1>5. ASSUME NEW i \in DOMAIN r
      PROVE  /\ i > 1 => r[i].at = "queued"
             /\ r[i].rows \cap Foreign = {}
             /\ r[i].kind = "lan" => r[i].at = "queued"
             /\ r[i].kind = "sweep" => r[i].at \in {"queued", "sweep"}
  <2>1. CASE i \in 1..Len(q)
    BY <1>2, <1>3, <2>1 DEF QueueFits
  <2>2. CASE i = Len(q) + 1
    BY <1>2, <2>2 DEF Waiting
  <2> QED BY <1>3, <2>1, <2>2
<1> QED BY <1>2, <1>3, <1>4, <1>5 DEF QueueFits

\* The first build moves on.
LEMMA PutFits ==
  ASSUME NEW q, QueueFits(q), 1 \in DOMAIN q, NEW b \in BuildRecord, b.rows \cap Foreign = {},
         b.kind # "lan", b.kind = "sweep" => b.at = "sweep",
         NEW r, r = [q EXCEPT ![1] = b]
  PROVE  /\ QueueFits(r) /\ DOMAIN r = DOMAIN q /\ r[1] = b
         /\ \A i \in DOMAIN q : i # 1 => r[i] = q[i]
<1>1. q \in Seq(BuildRecord) /\ DOMAIN q = 1..Len(q) /\ Len(q) \in Nat
  BY LenProperties DEF QueueFits
<1>2. r \in Seq(BuildRecord) /\ Len(r) = Len(q)
  BY <1>1
<1>3. DOMAIN r = DOMAIN q /\ r[1] = b /\ \A i \in DOMAIN q : i # 1 => r[i] = q[i]
  BY <1>1
<1> QED BY <1>1, <1>2, <1>3 DEF QueueFits

\* The first build is over.
LEMMA EndFits ==
  ASSUME NEW d \in Built, QueueFits(chain[d]), 1 \in DOMAIN chain[d], NEW r, r = Ended(d, 1)
  PROVE  /\ QueueFits(r) /\ Len(chain[d]) = Len(r) + 1
         /\ DOMAIN r = 1..Len(r) /\ DOMAIN chain[d] = 1..Len(r) + 1
         /\ \A i \in DOMAIN r : i + 1 \in DOMAIN chain[d] /\ r[i] = chain[d][i + 1] /\ r[i].at = "queued"
<1> DEFINE q == chain[d]
<1>1. q \in Seq(BuildRecord) /\ DOMAIN q = 1..Len(q) /\ Len(q) \in Nat /\ Len(q) >= 1
  BY LenProperties DEF QueueFits
<1> HIDE DEF q
<1>2. SubSeq(q, 1, 0) = <<>>
  BY <1>1
<1>3. /\ SubSeq(q, 2, Len(q)) \in Seq(BuildRecord) /\ Len(SubSeq(q, 2, Len(q))) = Len(q) - 1
      /\ \A i \in 1..Len(q) - 1 : SubSeq(q, 2, Len(q))[i] = q[i + 1]
  BY <1>1
<1>4. r = SubSeq(q, 2, Len(q))
  BY <1>2, <1>3 DEF Ended, q
<1>5. /\ r \in Seq(BuildRecord) /\ Len(r) = Len(q) - 1 /\ DOMAIN r = 1..Len(q) - 1
      /\ \A i \in 1..Len(q) - 1 : r[i] = q[i + 1]
  BY <1>3, <1>4, LenProperties
<1>6. QueueFits(q)
  BY DEF q
<1>7. Len(r) <= MaxBuilds
  BY <1>1, <1>5, <1>6, TreeAssumption DEF QueueFits
<1>8. \A i \in DOMAIN r : /\ i + 1 \in DOMAIN q /\ r[i] = q[i + 1] /\ r[i].at = "queued"
                          /\ r[i].rows \cap Foreign = {}
  BY <1>1, <1>5, <1>6 DEF QueueFits
<1>9. QueueFits(r)
  BY <1>5, <1>7, <1>8 DEF QueueFits
<1> QED BY <1>1, <1>5, <1>8, <1>9 DEF q

\* What the model's definitions say of a light.
LEMMA DefsOf ==
  ASSUME NEW l \in Lamps
  PROVE  /\ buildCloudStateDefs(l) = Own(lamp[l])
         /\ libraryDecidesPending(l) = IF lamp[l].lib = "empty" /\ ~lamp[l].checked THEN {"scene_speed"} ELSE {}
         /\ buildLanStateDefs(l) = IF lamp[l].ip THEN {"power"} ELSE {}
<1>1. l # Group
  BY TreeAssumption
<1>2. mapCapabilities(l) = {c \in lamp[l].caps : c # "light_scene" /\ (lamp[l].ip => c # "power")}
  BY DEF mapCapabilities, LAN_STATE_IDS
<1> QED BY <1>1, <1>2 DEF buildCloudStateDefs, libraryDecidesPending, buildLanStateDefs, LAN_STATE_IDS, Own

\* What is declared are datapoints; the controls of a light with an address are not the cloud's.
LEMMA OwnIs ==
  ASSUME NEW r \in LampState
  PROVE  /\ Own(r) \subseteq Point \ SYNTHETIC
         /\ r.ip => "power" \notin Own(r)
         /\ "scene_speed" \in Own(r) <=> r.lib = "speed"
BY DEF Own, LampState, Point, Capability, SYNTHETIC

\* A step that concerns one device leaves the others as they are.
LEMMA OneDevice ==
  ASSUME TreeInv, NEW d \in Built, key' = key, members' \subseteq Lamps, swept' \subseteq Lamps,
         unbuilt' \subseteq Lamps, \A l \in Lamps : l # d => (l \in unbuilt' <=> l \in unbuilt),
         NEW q, chain' = [chain EXCEPT ![d] = q], QueueFits(q),
         NEW ps \in SUBSET Point, points' = [points EXCEPT ![d] = ps],
         lamp' \in [Lamps -> LampState], \A l \in Lamps : l # d => lamp'[l] = lamp[l],
         \A l \in Lamps : l # d => (l \in swept' <=> l \in swept),
         d \in Lamps => LampHolds(q, lamp'[d], ps, d \in swept', key, d \in unbuilt')
  PROVE  TreeInv'
<1>1. DOMAIN chain' = Built /\ chain' = [e \in Built |-> chain'[e]] /\ chain'[d] = q
      /\ \A e \in Built : e # d => chain'[e] = chain[e]
  BY DEF TreeInv
<1>2. \A e \in Built : QueueFits(chain'[e])
  BY <1>1 DEF TreeInv
<1>3. points' \in [Built -> SUBSET Point] /\ points'[d] = ps /\ \A e \in Built : e # d => points'[e] = points[e]
  BY DEF TreeInv
<1>4. ASSUME NEW l \in Lamps
      PROVE  LampHolds(chain'[l], lamp'[l], points'[l], l \in swept', key', l \in unbuilt')
  <2>1. l \in Built
    BY DEF Built
  <2>2. CASE l = d
    BY <1>1, <1>3, <2>2
  <2>3. CASE l # d
    <3>1. /\ chain'[l] = chain[l] /\ points'[l] = points[l] /\ lamp'[l] = lamp[l] /\ key' = key
          /\ (l \in swept' <=> l \in swept) /\ (l \in unbuilt' <=> l \in unbuilt)
      BY <1>1, <1>3, <2>1, <2>3
    <3>2. LampHolds(chain[l], lamp[l], points[l], l \in swept, key, l \in unbuilt)
      BY DEF TreeInv
    <3>3. KindsFit(chain'[l], key')
      BY <3>1, <3>2 DEF LampHolds
    <3>4. l \notin unbuilt' => Converges(chain'[l], Own(lamp'[l]), points'[l], l \in swept')
      BY <3>1, <3>2 DEF LampHolds, Converges
    <3> QED BY <3>1, <3>2, <3>3, <3>4 DEF LampHolds
  <2> QED BY <2>2, <2>3
<1> QED BY <1>1, <1>2, <1>3, <1>4 DEF TreeInv

-----------------------------------------------------------------------------
\* A build in full at the end: whatever was learned about the light, it will be looked at.
LEMMA FullBehind ==
  ASSUME NEW q, NEW k, WithKey(k), KindsFit(q, k), SliderKnown(q), QueueFits(q), Len(q) < MaxBuilds,
         NEW n, NEW ps, NEW t \in BOOLEAN, NEW x \in BOOLEAN,
         NEW u, u = Append(q, Waiting("full"))
  PROVE  QueueFits(u) /\ LampHolds(u, n, ps, t, k, x)
<1>0. "full" \in {"lan", "full", "sweep"}
  OBVIOUS
<1>1. /\ QueueFits(u) /\ Len(u) = Len(q) + 1 /\ u[Len(q) + 1] = Waiting("full")
      /\ \A i \in DOMAIN q : i \in DOMAIN u /\ u[i] = q[i]
      /\ \A i \in DOMAIN u : i \in DOMAIN q \/ i = Len(q) + 1
  <2>1. QueueFits(u)
    BY <1>0, AppendFits, Zenon
  <2>2. \A i \in DOMAIN q : i \in DOMAIN u /\ u[i] = q[i]
    BY <1>0, AppendFits
  <2>3. \A i \in DOMAIN u : i \in DOMAIN q \/ i = Len(q) + 1
    BY <1>0, AppendFits
  <2> QED BY <1>0, <2>1, <2>2, <2>3, AppendFits
<1>2. Len(q) \in Nat /\ Len(q) + 1 \in DOMAIN u
  BY <1>1, LenProperties DEF QueueFits
<1>3. u[Len(q) + 1].kind = "full" /\ u[Len(q) + 1].at = "queued"
  BY <1>1 DEF Waiting
<1>4. KindsFit(u, k)
  BY <1>1, <1>3 DEF KindsFit, WithKey
<1>5. SliderKnown(u)
  BY <1>1, <1>3 DEF SliderKnown
<1>6. ControlsCome(u, n, ps)
  BY <1>1, <1>2, <1>3 DEF ControlsCome
<1>7. FullAhead(u)
  BY <1>2, <1>3 DEF FullAhead
<1> QED BY <1>1, <1>4, <1>5, <1>6, <1>7 DEF LampHolds, Converges, WithKey

\* A light is found in the network.
LEMMA LanBehind ==
  ASSUME NEW q, NEW r \in LampState, NEW ps, NEW s \in BOOLEAN, NEW x \in BOOLEAN, NEW k \in BOOLEAN, LampHolds(q, r, ps, s, k, x),
         QueueFits(q), Len(q) < MaxBuilds, ~r.ip,
         NEW n, n = [r EXCEPT !.ip = TRUE],
         NEW u, u = Append(q, Waiting("lan"))
  PROVE  QueueFits(u) /\ LampHolds(u, n, ps, s, k, x)
<1>0. "lan" \in {"lan", "full", "sweep"}
  OBVIOUS
<1>1. /\ QueueFits(u) /\ Len(u) = Len(q) + 1 /\ u[Len(q) + 1] = Waiting("lan")
      /\ \A i \in DOMAIN q : i \in DOMAIN u /\ u[i] = q[i]
      /\ \A i \in DOMAIN u : i \in DOMAIN q \/ i = Len(q) + 1
  <2>1. QueueFits(u)
    BY <1>0, AppendFits, Zenon
  <2>2. \A i \in DOMAIN q : i \in DOMAIN u /\ u[i] = q[i]
    BY <1>0, AppendFits
  <2>3. \A i \in DOMAIN u : i \in DOMAIN q \/ i = Len(q) + 1
    BY <1>0, AppendFits
  <2> QED BY <1>0, <2>1, <2>2, <2>3, AppendFits
<1>2. Len(q) \in Nat /\ Len(q) + 1 \in DOMAIN u /\ DOMAIN q = 1..Len(q)
  BY <1>1, LenProperties DEF QueueFits
<1>3. u[Len(q) + 1].kind = "lan" /\ u[Len(q) + 1].at = "queued"
  BY <1>1 DEF Waiting
<1>4. n.lib = r.lib /\ n.checked = r.checked /\ n.caps = r.caps /\ n.ip
  BY DEF LampState
<1>5. KindsFit(u, k)
  BY <1>1, <1>3 DEF LampHolds, KindsFit
<1>6. SliderKnown(u)
  BY <1>1, <1>3 DEF LampHolds, SliderKnown
<1>7. ControlsCome(u, n, ps)
  BY <1>1, <1>2, <1>3 DEF ControlsCome
<1>8. FullAhead(q) => FullAhead(u)
  BY <1>1 DEF FullAhead
<1>9. Own(n) \subseteq Own(r) /\ Own(r) \subseteq Own(n) \cup Foreign
  BY <1>4 DEF Own, Foreign, LAN_STATE_IDS
<1>10. ~x => Converges(u, Own(n), ps, s)
  <2> SUFFICES ASSUME ~x, ~FullAhead(u)
               PROVE IF 1 \in DOMAIN u /\ u[1].kind = "full" THEN OnItsWay(u[1], Own(n), ps)
                     ELSE s => Own(n) \subseteq ps /\ Clean(Own(n), ps)
    BY DEF Converges
  <2>1. CASE 1 \in DOMAIN u /\ u[1].kind = "full"
    <3>1. 1 \in DOMAIN q /\ u[1] = q[1]
      BY <1>1, <1>2, <1>3, <2>1
    <3>2. OnItsWay(q[1], Own(r), ps)
      BY <1>8, <2>1, <3>1 DEF LampHolds, Converges
    <3>3. OnItsWay(q[1], Own(n), ps)
      BY <1>9, <3>2 DEF OnItsWay, Clean
    <3> QED BY <2>1, <3>1, <3>3
  <2>2. CASE ~(1 \in DOMAIN u /\ u[1].kind = "full")
    <3>1. ~(1 \in DOMAIN q /\ q[1].kind = "full")
      BY <1>1, <2>2
    <3>2. s => Own(r) \subseteq ps /\ Clean(Own(r), ps)
      BY <1>8, <3>1 DEF LampHolds, Converges
    <3>3. s => Own(n) \subseteq ps /\ Clean(Own(n), ps)
      BY <1>9, <3>2 DEF Clean
    <3> QED BY <2>2, <3>3
  <2> QED BY <2>1, <2>2
<1> QED BY <1>1, <1>5, <1>6, <1>7, <1>10 DEF LampHolds

\* Without an API key: the sweep of what a cloud once wrote.
LEMMA SweepBehind ==
  ASSUME NEW q, NEW r, NEW ps, NEW s \in BOOLEAN, NEW x \in BOOLEAN, NEW k, k = FALSE, LampHolds(q, r, ps, s, k, x),
         QueueFits(q), Len(q) < MaxBuilds, NEW u, u = Append(q, Waiting("sweep"))
  PROVE  QueueFits(u) /\ LampHolds(u, r, ps, s, k, x)
<1>0. "sweep" \in {"lan", "full", "sweep"}
  OBVIOUS
<1>1. /\ QueueFits(u) /\ Len(u) = Len(q) + 1 /\ u[Len(q) + 1] = Waiting("sweep")
      /\ \A i \in DOMAIN q : i \in DOMAIN u /\ u[i] = q[i]
      /\ \A i \in DOMAIN u : i \in DOMAIN q \/ i = Len(q) + 1
  <2>1. QueueFits(u)
    BY <1>0, AppendFits, Zenon
  <2>2. \A i \in DOMAIN q : i \in DOMAIN u /\ u[i] = q[i]
    BY <1>0, AppendFits
  <2>3. \A i \in DOMAIN u : i \in DOMAIN q \/ i = Len(q) + 1
    BY <1>0, AppendFits
  <2> QED BY <1>0, <2>1, <2>2, <2>3, AppendFits
<1>2. u[Len(q) + 1].kind = "sweep"
  BY <1>1 DEF Waiting
<1>3. KindsFit(u, k)
  BY <1>1, <1>2 DEF LampHolds, KindsFit
<1>4. SliderKnown(u)
  BY <1>3 DEF SliderKnown, KindsFit
<1>5. ControlsCome(u, r, ps)
  BY <1>1 DEF LampHolds, ControlsCome
<1>6. ~s
  BY DEF LampHolds
<1>7. Converges(u, Own(r), ps, s)
  BY <1>3, <1>6 DEF KindsFit, Converges
<1> QED BY <1>1, <1>3, <1>4, <1>5, <1>6, <1>7 DEF LampHolds

\* What is known of a light is not what it declares.
LEMMA LearnKeeps ==
  ASSUME NEW q, NEW r, NEW ps, NEW s \in BOOLEAN, NEW x \in BOOLEAN, NEW k \in BOOLEAN, LampHolds(q, r, ps, s, k, x),
         NEW n, n.ip = r.ip, n.caps = r.caps, n.lib = r.lib
  PROVE  LampHolds(q, n, ps, s, k, x)
<1>1. Own(n) = Own(r)
  BY DEF Own
<1>2. SliderKnown(q)
  BY DEF LampHolds, SliderKnown
<1> QED BY <1>1, <1>2 DEF LampHolds, ControlsCome

\* A report creates the battery.
LEMMA SensorKeeps ==
  ASSUME NEW q, NEW r \in LampState, NEW ps, NEW s \in BOOLEAN, NEW x \in BOOLEAN, NEW k \in BOOLEAN, LampHolds(q, r, ps, s, k, x)
  PROVE  LampHolds(q, r, ps \cup {"battery"}, s, k, x)
<1> DEFINE own == Own(r)
           more == ps \cup {"battery"}
<1>1. "battery" \in Foreign
  BY DEF Foreign, SYNTHETIC
<1>2. ControlsCome(q, r, more)
  BY DEF LampHolds, ControlsCome
<1>3. ~x => Converges(q, own, ps, s)
  BY DEF LampHolds
<1> HIDE DEF own
<1>4. Clean(own, ps) => Clean(own, more)
  BY <1>1 DEF Clean
<1>5. ASSUME NEW b, OnItsWay(b, own, ps)
      PROVE  OnItsWay(b, own, more)
  BY <1>1, <1>5 DEF OnItsWay, Clean
<1>6. ~x => Converges(q, own, more, s)
  BY <1>3, <1>4, <1>5 DEF Converges
<1> QED BY <1>2, <1>6 DEF LampHolds, own

-----------------------------------------------------------------------------
\* The device whose build takes a step.
LEMMA First ==
  ASSUME TreeInv, NEW d \in Built, 1 \in DOMAIN chain[d]
  PROVE  /\ QueueFits(chain[d]) /\ chain[d][1] \in BuildRecord /\ chain[d][1].rows \cap Foreign = {}
         /\ chain[d][1].kind = "lan" => chain[d][1].at = "queued"
         /\ chain[d][1].kind = "sweep" => chain[d][1].at \in {"queued", "sweep"}
         /\ points[d] \in SUBSET Point
         /\ d \in Lamps => /\ LampHolds(chain[d], lamp[d], points[d], d \in swept, key, d \in unbuilt)
                           /\ lamp[d] \in LampState
<1>1. QueueFits(chain[d]) /\ points[d] \in SUBSET Point
  BY DEF TreeInv
<1>2. chain[d][1] \in BuildRecord
  BY <1>1 DEF QueueFits
<1>3. d \in Lamps => /\ LampHolds(chain[d], lamp[d], points[d], d \in swept, key, d \in unbuilt)
                     /\ lamp[d] \in LampState
  BY DEF TreeInv
<1> QED BY <1>1, <1>2, <1>3 DEF QueueFits

\* The first build of a light moves on to b.
LEMMA PutHolds ==
  ASSUME TreeInv, NEW d \in Lamps, NEW qs, 1 \in DOMAIN chain[d],
         NEW b \in BuildRecord, b.rows \cap Foreign = {},
         b.kind = chain[d][1].kind, b.kind # "lan", b.kind = "sweep" => b.at = "sweep",
         b.kind = "full" => SliderKnown(<<b>>),
         lamp[d].ip => \/ LAN_STATE_IDS \subseteq qs
                       \/ /\ LAN_STATE_IDS \subseteq points[d] => LAN_STATE_IDS \subseteq qs
                          /\ chain[d][1].at = "queued" => chain[d][1].kind = "sweep",
         b.kind = "full" => \/ b.at \in {"queued", "derive"}
                            \/ chain[d][1].at = "derive" /\ OnItsWay(b, Own(lamp[d]), qs)
                            \/ /\ ~(chain[d][1].at \in {"queued", "derive"})
                               /\ OnItsWay(chain[d][1], Own(lamp[d]), points[d]) => OnItsWay(b, Own(lamp[d]), qs)
  PROVE  /\ LampHolds([chain[d] EXCEPT ![1] = b], lamp[d], qs, d \in swept, key, d \in unbuilt)
         /\ b.kind = "full" /\ OnItsWay(b, Own(lamp[d]), qs) =>
              LampHolds([chain[d] EXCEPT ![1] = b], lamp[d], qs, d \in swept, key, FALSE)
<1> DEFINE q == chain[d]
           r == lamp[d]
           ps == points[d]
           s == d \in swept
           x == d \in unbuilt
           k == key
           u == [q EXCEPT ![1] = b]
<1>0. LampHolds(q, r, ps, s, k, x) /\ QueueFits(q) /\ 1 \in DOMAIN q
  BY First DEF Built
<1>h. /\ b.kind = q[1].kind
      /\ r.ip => \/ LAN_STATE_IDS \subseteq qs
                 \/ (LAN_STATE_IDS \subseteq ps => LAN_STATE_IDS \subseteq qs) /\ (q[1].at = "queued" => q[1].kind = "sweep")
      /\ b.kind = "full" => \/ b.at \in {"queued", "derive"}
                            \/ q[1].at = "derive" /\ OnItsWay(b, Own(r), qs)
                            \/ /\ ~(q[1].at \in {"queued", "derive"})
                               /\ OnItsWay(q[1], Own(r), ps) => OnItsWay(b, Own(r), qs)
      /\ b.kind = "full" => SliderKnown(<<b>>)
  OBVIOUS
<1>u. u = [q EXCEPT ![1] = b]
  OBVIOUS
<1> HIDE DEF q, r, ps, s, k, u, x
<1>1. /\ QueueFits(u) /\ DOMAIN u = DOMAIN q /\ u[1] = b
      /\ \A i \in DOMAIN q : i # 1 => u[i] = q[i]
  BY <1>0, <1>h, <1>u, PutFits
<1>2. KindsFit(u, k)
  BY <1>0, <1>1, <1>h DEF LampHolds, KindsFit
<1>3. SliderKnown(u)
  <2> SUFFICES ASSUME NEW i \in DOMAIN u, u[i].kind = "full", u[i].at \in {"write", "list", "sweep"}
               PROVE  /\ "scene_speed" \in u[i].defs \cup u[i].keep \/ u[i].noSpeed
                      /\ u[i].at = "sweep" => u[i].rows \cap (u[i].defs \cup u[i].keep) = {}
                      /\ u[i].keep \subseteq {"scene_speed"}
    BY DEF SliderKnown
  <2>1. CASE i = 1
    <3>1. DOMAIN <<b>> = {1} /\ <<b>>[1] = b
      OBVIOUS
    <3> QED BY <1>1, <1>h, <2>1, <3>1 DEF SliderKnown
  <2>2. CASE i # 1
    BY <1>0, <1>1, <2>2 DEF LampHolds, SliderKnown
  <2> QED BY <2>1, <2>2
<1>4. ControlsCome(u, r, qs)
  <2> SUFFICES ASSUME r.ip, ~(LAN_STATE_IDS \subseteq qs)
               PROVE  \E i \in DOMAIN u : u[i].at = "queued" /\ u[i].kind \in {"lan", "full"}
    BY DEF ControlsCome
  <2>1. ~(LAN_STATE_IDS \subseteq ps) /\ (q[1].at = "queued" => q[1].kind = "sweep")
    BY <1>h
  <2>2. PICK i \in DOMAIN q : q[i].at = "queued" /\ q[i].kind \in {"lan", "full"}
    BY <1>0, <2>1 DEF LampHolds, ControlsCome
  <2> QED BY <1>1, <2>1, <2>2
<1>5. ~x => Converges(u, Own(r), qs, s)
  <2> SUFFICES ASSUME ~x, ~FullAhead(u)
               PROVE IF 1 \in DOMAIN u /\ u[1].kind = "full" THEN OnItsWay(u[1], Own(r), qs)
                     ELSE s => Own(r) \subseteq qs /\ Clean(Own(r), qs)
    BY DEF Converges
  <2>1. CASE b.kind = "full"
    <3>1. ~(b.at \in {"queued", "derive"})
      BY <1>0, <1>1, <2>1 DEF FullAhead
    <3>2. ~(q[1].at \in {"queued", "derive"}) /\ ~x => OnItsWay(q[1], Own(r), ps)
      <4> SUFFICES ASSUME ~(q[1].at \in {"queued", "derive"}), ~x
                   PROVE  ~FullAhead(q)
        BY <1>0, <1>h, <2>1 DEF LampHolds, Converges
      <4>1. DOMAIN q \subseteq Int
        BY <1>0, LenProperties DEF QueueFits
      <4>2. ASSUME NEW i \in DOMAIN q, q[i].kind = "full", i > 1
            PROVE  FullAhead(u)
        <5>1. i # 1 /\ i \in DOMAIN u /\ u[i] = q[i]
          BY <1>1, <4>1, <4>2
        <5> QED BY <4>2, <5>1 DEF FullAhead
      <4>3. ASSUME NEW i \in DOMAIN q, q[i].kind = "full"
            PROVE  ~(i > 1 \/ q[i].at \in {"queued", "derive"})
        <5>1. CASE i = 1
          BY <5>1
        <5>2. CASE i # 1
          <6>1. i \in DOMAIN u /\ u[i] = q[i]
            BY <1>1, <5>2
          <6> QED BY <4>2, <4>3, <6>1 DEF FullAhead
        <5> QED BY <5>1, <5>2
      <4> QED BY <4>3 DEF FullAhead
    <3>3. OnItsWay(b, Own(r), qs)
      BY <1>h, <2>1, <3>1, <3>2
    <3> QED BY <1>0, <1>1, <2>1, <3>3
  <2>2. CASE b.kind = "sweep"
    <3>1. ~s
      <4>1. ~k
        BY <1>0, <1>h, <2>2 DEF LampHolds, KindsFit
      <4> QED BY <1>0, <4>1 DEF LampHolds
    <3> QED BY <1>1, <2>2, <3>1
  <2>3. b.kind \in {"full", "sweep"}
    BY DEF BuildRecord
  <2> QED BY <2>1, <2>2, <2>3
<1>6. LampHolds(u, r, qs, s, k, x)
  BY <1>0, <1>2, <1>3, <1>4, <1>5 DEF LampHolds
<1>7. ASSUME b.kind = "full", OnItsWay(b, Own(r), qs)
      PROVE  LampHolds(u, r, qs, s, k, FALSE)
  <2>1. Converges(u, Own(r), qs, s)
    BY <1>0, <1>1, <1>7 DEF Converges
  <2> QED BY <1>6, <2>1 DEF LampHolds
<1> QED BY <1>6, <1>7 DEF q, r, s, k, u, x

\* The first build of a light is over.
LEMMA EndHolds ==
  ASSUME TreeInv, NEW d \in Lamps, NEW qs, NEW t \in BOOLEAN, 1 \in DOMAIN chain[d],
         lamp[d].ip => \/ LAN_STATE_IDS \subseteq qs
                       \/ /\ LAN_STATE_IDS \subseteq points[d] => LAN_STATE_IDS \subseteq qs
                          /\ chain[d][1].at # "queued",
         ~key => ~t,
         chain[d][1].kind = "full" =>
           /\ ~(chain[d][1].at \in {"queued", "derive"})
           /\ OnItsWay(chain[d][1], Own(lamp[d]), points[d]) => Own(lamp[d]) \subseteq qs /\ Clean(Own(lamp[d]), qs),
         chain[d][1].kind # "full" =>
           /\ t => d \in swept
           /\ Own(lamp[d]) \subseteq points[d] /\ Clean(Own(lamp[d]), points[d]) =>
                Own(lamp[d]) \subseteq qs /\ Clean(Own(lamp[d]), qs)
  PROVE  QueueFits(Ended(d, 1)) /\ LampHolds(Ended(d, 1), lamp[d], qs, t, key, d \in unbuilt)
<1> DEFINE q == chain[d]
           r == lamp[d]
           ps == points[d]
           s == d \in swept
           x == d \in unbuilt
           k == key
           u == Ended(d, 1)
<1>4. LampHolds(q, r, ps, s, k, x) /\ QueueFits(q) /\ 1 \in DOMAIN q
  BY First DEF Built
<1>h. /\ r.ip => \/ LAN_STATE_IDS \subseteq qs
                 \/ (LAN_STATE_IDS \subseteq ps => LAN_STATE_IDS \subseteq qs) /\ q[1].at # "queued"
      /\ ~k => ~t
      /\ q[1].kind = "full" => /\ ~(q[1].at \in {"queued", "derive"})
                               /\ OnItsWay(q[1], Own(r), ps) => Own(r) \subseteq qs /\ Clean(Own(r), qs)
      /\ q[1].kind # "full" =>
           /\ t => s
           /\ Own(r) \subseteq ps /\ Clean(Own(r), ps) => Own(r) \subseteq qs /\ Clean(Own(r), qs)
  OBVIOUS
<1>1. /\ QueueFits(u) /\ Len(q) = Len(u) + 1
      /\ DOMAIN u = 1..Len(u) /\ DOMAIN q = 1..Len(u) + 1
      /\ \A i \in DOMAIN u : i + 1 \in DOMAIN q /\ u[i] = q[i + 1] /\ u[i].at = "queued"
  BY <1>4, EndFits DEF Built
<1>2. Len(u) \in Nat
  BY <1>1, LenProperties DEF QueueFits
<1>3. \A i \in DOMAIN q : i # 1 => i - 1 \in DOMAIN u /\ u[i - 1] = q[i] /\ i > 1
  BY <1>1, <1>2
<1> HIDE DEF q, r, ps, s, k, u, x
<1>5. KindsFit(u, k)
  BY <1>1, <1>4 DEF LampHolds, KindsFit
<1>6. SliderKnown(u)
  BY <1>1 DEF SliderKnown
<1>7. ControlsCome(u, r, qs)
  <2> SUFFICES ASSUME r.ip, ~(LAN_STATE_IDS \subseteq qs)
               PROVE  \E i \in DOMAIN u : u[i].at = "queued" /\ u[i].kind \in {"lan", "full"}
    BY DEF ControlsCome
  <2>1. ~(LAN_STATE_IDS \subseteq ps) /\ q[1].at # "queued"
    BY <1>h
  <2>2. PICK i \in DOMAIN q : q[i].at = "queued" /\ q[i].kind \in {"lan", "full"}
    BY <1>4, <2>1 DEF LampHolds, ControlsCome
  <2>3. i - 1 \in DOMAIN u /\ u[i - 1] = q[i]
    BY <1>3, <2>1, <2>2
  <2> QED BY <2>2, <2>3
<1>8. ~x => Converges(u, Own(r), qs, t)
  <2> SUFFICES ASSUME ~x, ~FullAhead(u)
               PROVE IF 1 \in DOMAIN u /\ u[1].kind = "full" THEN OnItsWay(u[1], Own(r), qs)
                     ELSE t => Own(r) \subseteq qs /\ Clean(Own(r), qs)
    BY DEF Converges
  <2>1. \A i \in DOMAIN u : u[i].kind # "full"
    BY <1>1 DEF FullAhead
  <2>2. ~FullAhead(q)
    <3> SUFFICES ASSUME NEW i \in DOMAIN q, q[i].kind = "full", i > 1 \/ q[i].at \in {"queued", "derive"}
                 PROVE  FALSE
      BY DEF FullAhead
    <3>1. CASE i = 1
      BY <1>h, <3>1
    <3>2. CASE i # 1
      BY <1>3, <2>1, <3>2
    <3> QED BY <3>1, <3>2
  <2>4. CASE q[1].kind = "full"
    BY <1>4, <1>h, <2>1, <2>2, <2>4 DEF LampHolds, Converges
  <2>5. CASE q[1].kind # "full"
    BY <1>4, <1>h, <2>1, <2>2, <2>5 DEF LampHolds, Converges
  <2> QED BY <2>4, <2>5
<1>9. LampHolds(u, r, qs, t, k, x)
  BY <1>5, <1>6, <1>7, <1>8, <1>h DEF LampHolds
<1> QED BY <1>1, <1>9 DEF r, k, u, x

-----------------------------------------------------------------------------
\* createInfoStates and createLanStates.
LEMMA WriteLanKeeps ==
  ASSUME TreeInv, NEW d \in Built, WriteLan(d, 1)
  PROVE  TreeInv'
<1> DEFINE q == chain[d]
           b == [q[1] EXCEPT !.at = "derive"]
           ps == points[d] \cup buildLanStateDefs(d)
           u == IF q[1].kind = "lan" THEN Ended(d, 1) ELSE [q EXCEPT ![1] = b]
<1>1. /\ 1 \in DOMAIN q /\ q[1].at = "queued" /\ q[1].kind \in {"lan", "full"}
      /\ UNCHANGED <<key, lamp, members, swept, unbuilt>>
  BY DEF WriteLan, Step
<1>2. points' = [points EXCEPT ![d] = ps] /\ chain' = [chain EXCEPT ![d] = u]
  BY <1>1 DEF WriteLan, Step, Put, TreeInv
<1>3. /\ QueueFits(q) /\ q[1] \in BuildRecord /\ q[1].rows \cap Foreign = {} /\ points[d] \in SUBSET Point
      /\ d \in Lamps => LampHolds(q, lamp[d], points[d], d \in swept, key, d \in unbuilt) /\ lamp[d] \in LampState
  BY <1>1, First
<1>4. b \in BuildRecord /\ b.rows = q[1].rows /\ b.kind = q[1].kind /\ b.at = "derive"
  BY <1>3 DEF BuildRecord
<1>5. buildLanStateDefs(d) \subseteq {"power"} /\ (d \in Lamps /\ lamp[d].ip => LAN_STATE_IDS \subseteq ps)
  BY TreeAssumption DEF buildLanStateDefs, LAN_STATE_IDS
<1>6. ps \in SUBSET Point
  BY <1>3, <1>5 DEF Point, Capability
<1>7. key \in BOOLEAN /\ (d \in swept) \in BOOLEAN
  BY DEF TreeInv
<1>8. Own(lamp[d]) \subseteq points[d] /\ Clean(Own(lamp[d]), points[d]) =>
        Own(lamp[d]) \subseteq ps /\ Clean(Own(lamp[d]), ps)
  BY <1>5 DEF Clean, Foreign, LAN_STATE_IDS
<1>9. QueueFits(u)
  <2>1. CASE q[1].kind = "lan"
    BY <1>1, <1>3, <2>1, EndFits
  <2>2. CASE q[1].kind # "lan"
    BY <1>1, <1>3, <1>4, <2>2, PutFits
  <2> QED BY <2>1, <2>2
<1> HIDE DEF b, ps
<1>10. ASSUME d \in Lamps
       PROVE  LampHolds(u, lamp[d], ps, d \in swept, key, d \in unbuilt)
  <2>1. LampHolds(q, lamp[d], points[d], d \in swept, key, d \in unbuilt)
    BY <1>3, <1>10
  <2>2. CASE q[1].kind = "lan"
    <3>1. ~key => ~(d \in swept)
      BY <2>1 DEF LampHolds
    <3>2. u = Ended(d, 1)
      BY <2>2
    <3> HIDE DEF u
    <3> QED BY <1>1, <1>5, <1>7, <1>8, <1>10, <2>2, <3>1, <3>2, EndHolds
  <2>3. CASE q[1].kind = "full"
    <3>1. u = [q EXCEPT ![1] = b]
      BY <2>3
    <3>2. SliderKnown(<<b>>)
      BY <1>4 DEF SliderKnown
    <3> QED BY <1>1, <1>3, <1>4, <1>5, <1>10, <2>3, <3>1, <3>2, PutHolds
  <2> QED BY <1>1, <2>2, <2>3
<1> HIDE DEF u
<1>11. lamp' = lamp /\ members' = members /\ swept' = swept /\ unbuilt' = unbuilt /\ key' = key
  BY <1>1
<1> QED BY <1>2, <1>6, <1>9, <1>10, <1>11, OneDevice DEF TreeInv

\* The definitions: a build knows what its light declares.
LEMMA DeriveKeeps ==
  ASSUME TreeInv, NEW d \in Built, Derive(d, 1)
  PROVE  TreeInv'
<1> DEFINE q == chain[d]
           b == [q[1] EXCEPT !.at = "write", !.defs = buildCloudStateDefs(d),
                            !.keep = libraryDecidesPending(d), !.noSpeed = SpeedDenied(d)]
           u == [q EXCEPT ![1] = b]
<1>1. /\ 1 \in DOMAIN q /\ q[1].at = "derive"
      /\ key' = key /\ lamp' = lamp /\ members' = members /\ points' = points /\ swept' = swept /\ unbuilt' = unbuilt \ {d}
  BY DEF Derive, Step
<1>2. chain' = [chain EXCEPT ![d] = u]
  BY DEF Derive, Step, Put, TreeInv
<1>3. /\ QueueFits(q) /\ q[1] \in BuildRecord /\ q[1].rows \cap Foreign = {} /\ points[d] \in SUBSET Point
      /\ q[1].kind = "full"
      /\ d \in Lamps => LampHolds(q, lamp[d], points[d], d \in swept, key, d \in unbuilt) /\ lamp[d] \in LampState
  BY <1>1, First DEF BuildRecord
<1>4. libraryDecidesPending(d) \subseteq {"scene_speed"} /\ buildCloudStateDefs(d) \subseteq Point
  <2>1. CASE d = Group
    BY <2>1 DEF libraryDecidesPending, buildCloudStateDefs, buildGroupStateDefs, Point, Capability, LAN_STATE_IDS
  <2>2. CASE d # Group
    <3>1. d \in Lamps /\ lamp[d] \in LampState
      BY <1>3, <2>2 DEF Built
    <3> QED BY <3>1, DefsOf, OwnIs
  <2> QED BY <2>1, <2>2
<1>s. SpeedDenied(d) \in BOOLEAN
  BY DEF SpeedDenied
<1>5. /\ b \in BuildRecord /\ b.rows = q[1].rows /\ b.kind = "full" /\ b.at = "write"
      /\ b.defs = buildCloudStateDefs(d) /\ b.keep = libraryDecidesPending(d) /\ b.noSpeed = SpeedDenied(d)
  BY <1>3, <1>4, <1>s DEF BuildRecord, Point
<1> HIDE DEF b
<1>6. QueueFits(u)
  BY <1>1, <1>3, <1>5, PutFits
<1>7. key \in BOOLEAN /\ (d \in swept) \in BOOLEAN
  BY DEF TreeInv
<1>8. ASSUME d \in Lamps
      PROVE  LampHolds(u, lamp[d], points[d], d \in swept, key, FALSE)
  <2>1. b.defs = Own(lamp[d]) /\ lamp[d] \in LampState
    BY <1>3, <1>5, <1>8, DefsOf
  <2>2. "scene_speed" \in b.defs \cup b.keep \/ b.noSpeed
    BY <1>5, <1>8, <2>1, DefsOf, OwnIs, TreeAssumption DEF SpeedDenied
  <2>3. DOMAIN <<b>> = {1} /\ <<b>>[1] = b
    OBVIOUS
  <2>4. SliderKnown(<<b>>)
    BY <1>4, <1>5, <2>2, <2>3 DEF SliderKnown
  <2>5. OnItsWay(b, Own(lamp[d]), points[d])
    BY <1>5, <2>1 DEF OnItsWay
  <2>6. LampHolds(q, lamp[d], points[d], d \in swept, key, d \in unbuilt)
    BY <1>3, <1>8
  <2> QED BY <1>1, <1>3, <1>5, <1>8, <2>4, <2>5, PutHolds
<1> HIDE DEF u
<1>9. points' = [points EXCEPT ![d] = points[d]]
  BY <1>1 DEF TreeInv
<1>10. unbuilt' \subseteq Lamps /\ \A l \in Lamps : l # d => (l \in unbuilt' <=> l \in unbuilt)
  BY <1>1 DEF TreeInv
<1>11. ASSUME d \in Lamps
       PROVE  LampHolds(u, lamp'[d], points[d], d \in swept', key, d \in unbuilt')
  <2>1. (d \in unbuilt') = FALSE /\ lamp'[d] = lamp[d] /\ swept' = swept
    BY <1>1
  <2>2. LampHolds(u, lamp[d], points[d], d \in swept, key, FALSE)
    BY <1>8, <1>11
  <2> QED BY <2>1, <2>2
<1> QED BY <1>1, <1>2, <1>3, <1>6, <1>9, <1>10, <1>11, OneDevice DEF TreeInv

\* What was declared is written.
LEMMA WriteKeeps ==
  ASSUME TreeInv, NEW d \in Built, writeStateDefsToChannels(d, 1)
  PROVE  TreeInv'
<1> DEFINE q == chain[d]
           b == [q[1] EXCEPT !.at = "list"]
           ps == points[d] \cup q[1].defs
           u == [q EXCEPT ![1] = b]
<1>1. /\ 1 \in DOMAIN q /\ q[1].at = "write"
      /\ key' = key /\ lamp' = lamp /\ members' = members /\ swept' = swept /\ unbuilt' = unbuilt
  BY DEF writeStateDefsToChannels, Step
<1>2. points' = [points EXCEPT ![d] = ps] /\ chain' = [chain EXCEPT ![d] = u]
  BY DEF writeStateDefsToChannels, Step, Put, TreeInv
<1>3. /\ QueueFits(q) /\ q[1] \in BuildRecord /\ q[1].rows \cap Foreign = {} /\ points[d] \in SUBSET Point
      /\ q[1].kind = "full"
      /\ d \in Lamps => LampHolds(q, lamp[d], points[d], d \in swept, key, d \in unbuilt)
  BY <1>1, First DEF BuildRecord
<1>4. /\ b \in BuildRecord /\ b.rows = q[1].rows /\ b.kind = "full" /\ b.at = "list"
      /\ b.defs = q[1].defs /\ b.keep = q[1].keep /\ b.noSpeed = q[1].noSpeed
  BY <1>3 DEF BuildRecord
<1>5. ps \in SUBSET Point
  BY <1>3 DEF BuildRecord
<1> HIDE DEF b
<1>6. QueueFits(u)
  BY <1>1, <1>3, <1>4, PutFits
<1>7. ASSUME d \in Lamps
      PROVE  LampHolds(u, lamp[d], ps, d \in swept, key, d \in unbuilt)
  <2>1. SliderKnown(q)
    BY <1>3, <1>7 DEF LampHolds
  <2>2. DOMAIN <<b>> = {1} /\ <<b>>[1] = b
    OBVIOUS
  <2>3. SliderKnown(<<b>>)
    BY <1>1, <1>3, <1>4, <2>1, <2>2 DEF SliderKnown
  <2>4. OnItsWay(q[1], Own(lamp[d]), points[d]) => OnItsWay(b, Own(lamp[d]), ps)
    BY <1>4 DEF OnItsWay
  <2>5. LAN_STATE_IDS \subseteq points[d] => LAN_STATE_IDS \subseteq ps
    OBVIOUS
  <2> HIDE DEF ps
  <2> QED BY <1>1, <1>3, <1>4, <1>7, <2>3, <2>4, <2>5, PutHolds
<1> HIDE DEF u, ps
<1> QED BY <1>1, <1>2, <1>5, <1>6, <1>7, OneDevice DEF TreeInv

\* cleanupCloudOwnedStates reads the tree.
LEMMA ListKeeps ==
  ASSUME TreeInv, NEW d \in Built, ListRows(d, 1)
  PROVE  TreeInv'
<1> DEFINE q == chain[d]
           rows == {p \in points[d] : IsSwept(p, q[1])}
           b == [q[1] EXCEPT !.at = "sweep", !.rows = rows]
           u == [q EXCEPT ![1] = b]
<1>1. /\ 1 \in DOMAIN q /\ (q[1].at = "list" \/ (q[1].at = "queued" /\ q[1].kind = "sweep"))
      /\ key' = key /\ lamp' = lamp /\ members' = members /\ points' = points /\ swept' = swept /\ unbuilt' = unbuilt
  BY DEF ListRows, Step
<1>2. chain' = [chain EXCEPT ![d] = u]
  BY DEF ListRows, Step, Put, TreeInv
<1>3. /\ QueueFits(q) /\ q[1] \in BuildRecord /\ points[d] \in SUBSET Point
      /\ q[1].kind \in {"full", "sweep"} /\ (q[1].kind = "full" => q[1].at = "list")
      /\ d \in Lamps => LampHolds(q, lamp[d], points[d], d \in swept, key, d \in unbuilt)
  BY <1>1, First DEF BuildRecord
<1>4. /\ rows \cap Foreign = {} /\ rows \cap (q[1].defs \cup q[1].keep) = {} /\ rows \subseteq Point
      /\ points[d] \ rows \subseteq q[1].defs \cup q[1].keep \cup Foreign
  BY <1>3 DEF IsSwept
<1> HIDE DEF rows
<1>5. /\ b \in BuildRecord /\ b.rows = rows /\ b.kind = q[1].kind /\ b.at = "sweep"
      /\ b.defs = q[1].defs /\ b.keep = q[1].keep /\ b.noSpeed = q[1].noSpeed
  BY <1>3, <1>4 DEF BuildRecord
<1> HIDE DEF b
<1>6. QueueFits(u)
  BY <1>1, <1>3, <1>4, <1>5, PutFits
<1>7. ASSUME d \in Lamps
      PROVE  LampHolds(u, lamp[d], points[d], d \in swept, key, d \in unbuilt)
  <2>1. SliderKnown(q)
    BY <1>3, <1>7 DEF LampHolds
  <2>2. DOMAIN <<b>> = {1} /\ <<b>>[1] = b
    OBVIOUS
  <2>3. b.kind = "full" => b.keep \subseteq {"scene_speed"}
    BY <1>1, <1>3, <1>5, <2>1 DEF SliderKnown
  <2>4. ASSUME b.kind = "full"
        PROVE  SliderKnown(<<b>>)
    <3>1. "scene_speed" \in q[1].defs \cup q[1].keep \/ q[1].noSpeed
      BY <1>1, <1>3, <1>5, <2>1, <2>4 DEF SliderKnown
    <3>2. b.rows \cap (b.defs \cup b.keep) = {}
      BY <1>4, <1>5
    <3> HIDE DEF q
    <3>3. "scene_speed" \in b.defs \cup b.keep \/ b.noSpeed
      BY <1>5, <3>1
    <3> QED BY <2>2, <2>3, <2>4, <3>2, <3>3 DEF SliderKnown
  <2>5. b.kind = "full" /\ OnItsWay(q[1], Own(lamp[d]), points[d]) => OnItsWay(b, Own(lamp[d]), points[d])
    BY <1>3, <1>4, <1>5, <2>3 DEF OnItsWay, Clean
  <2> QED BY <1>1, <1>3, <1>4, <1>5, <1>7, <2>4, <2>5, PutHolds
<1> HIDE DEF u
<1>8. points' = [points EXCEPT ![d] = points[d]]
  BY <1>1 DEF TreeInv
<1> QED BY <1>1, <1>2, <1>3, <1>6, <1>7, <1>8, OneDevice DEF TreeInv

\* One row is deleted.
LEMMA RowDeleteKeeps ==
  ASSUME TreeInv, NEW d \in Built, DeleteRow(d, 1)
  PROVE  TreeInv'
<1> DEFINE q == chain[d]
<1>1. /\ 1 \in DOMAIN q /\ q[1].at = "sweep"
      /\ key' = key /\ lamp' = lamp /\ members' = members /\ swept' = swept /\ unbuilt' = unbuilt
  BY DEF DeleteRow, Step
<1>2. PICK p \in q[1].rows :
        /\ points' = [points EXCEPT ![d] = @ \ {p}]
        /\ chain' = [chain EXCEPT ![d][1] = [q[1] EXCEPT !.rows = @ \ {p}]]
  BY DEF DeleteRow, Step, Put
<1> DEFINE b == [q[1] EXCEPT !.rows = @ \ {p}]
           ps == points[d] \ {p}
           u == [q EXCEPT ![1] = b]
<1>3. points' = [points EXCEPT ![d] = ps] /\ chain' = [chain EXCEPT ![d] = u]
  BY <1>2 DEF TreeInv
<1>4. /\ QueueFits(q) /\ q[1] \in BuildRecord /\ points[d] \in SUBSET Point /\ q[1].rows \cap Foreign = {}
      /\ q[1].kind # "lan"
      /\ d \in Lamps => LampHolds(q, lamp[d], points[d], d \in swept, key, d \in unbuilt)
  BY <1>1, First
<1>5. /\ b \in BuildRecord /\ b.rows = q[1].rows \ {p} /\ b.kind = q[1].kind /\ b.at = "sweep"
      /\ b.defs = q[1].defs /\ b.keep = q[1].keep /\ b.noSpeed = q[1].noSpeed
  BY <1>1, <1>4 DEF BuildRecord
<1>6. p \notin Foreign /\ ps \in SUBSET Point /\ b.rows \cap Foreign = {}
  BY <1>2, <1>4, <1>5
<1> HIDE DEF b
<1>7. QueueFits(u)
  BY <1>1, <1>4, <1>5, <1>6, PutFits
<1>8. ASSUME d \in Lamps
      PROVE  LampHolds(u, lamp[d], ps, d \in swept, key, d \in unbuilt)
  <2>1. SliderKnown(q)
    BY <1>4, <1>8 DEF LampHolds
  <2>2. DOMAIN <<b>> = {1} /\ <<b>>[1] = b
    OBVIOUS
  <2>3. ASSUME b.kind = "full"
        PROVE  SliderKnown(<<b>>)
    <3>1. /\ "scene_speed" \in q[1].defs \cup q[1].keep \/ q[1].noSpeed
          /\ q[1].rows \cap (q[1].defs \cup q[1].keep) = {}
          /\ q[1].keep \subseteq {"scene_speed"}
      BY <1>1, <1>5, <2>1, <2>3 DEF SliderKnown
    <3> HIDE DEF q
    <3>2. /\ "scene_speed" \in b.defs \cup b.keep \/ b.noSpeed
          /\ b.rows \cap (b.defs \cup b.keep) = {}
          /\ b.keep \subseteq {"scene_speed"}
      BY <1>5, <3>1
    <3> QED BY <2>2, <3>2 DEF SliderKnown
  <2>4. OnItsWay(q[1], Own(lamp[d]), points[d]) => OnItsWay(b, Own(lamp[d]), ps)
    <3> SUFFICES ASSUME OnItsWay(q[1], Own(lamp[d]), points[d])
                 PROVE  OnItsWay(b, Own(lamp[d]), ps)
      OBVIOUS
    <3>1. p \notin Own(lamp[d])
      BY <1>1, <1>2 DEF OnItsWay
    <3>2. ps \ b.rows \subseteq points[d] \ q[1].rows
      BY <1>5
    <3> QED BY <1>1, <1>5, <3>1, <3>2 DEF OnItsWay, Clean
  <2>5. LAN_STATE_IDS \subseteq points[d] => LAN_STATE_IDS \subseteq ps
    BY <1>6 DEF Foreign
  <2> HIDE DEF ps
  <2> QED BY <1>1, <1>4, <1>5, <1>6, <1>8, <2>3, <2>4, <2>5, PutHolds
<1> HIDE DEF u, ps
<1> QED BY <1>1, <1>3, <1>6, <1>7, <1>8, OneDevice DEF TreeInv

\* The build ends.
LEMMA EndKeeps ==
  ASSUME TreeInv, NEW d \in Built, EndBuild(d, 1)
  PROVE  TreeInv'
<1> DEFINE q == chain[d]
           u == Ended(d, 1)
<1>1. /\ 1 \in DOMAIN q /\ q[1].at = "sweep" /\ q[1].rows = {}
      /\ key' = key /\ lamp' = lamp /\ members' = members /\ points' = points
      /\ chain' = [chain EXCEPT ![d] = u] /\ unbuilt' = unbuilt
      /\ swept' = IF d # Group /\ q[1].kind = "full" THEN swept \cup {d} ELSE swept
  BY DEF EndBuild, Step
<1>2. /\ QueueFits(q) /\ q[1] \in BuildRecord /\ points[d] \in SUBSET Point
      /\ d \in Lamps => LampHolds(q, lamp[d], points[d], d \in swept, key, d \in unbuilt)
  BY <1>1, First
<1>3. swept' \subseteq Lamps /\ \A l \in Lamps : l # d => (l \in swept' <=> l \in swept)
  <2>1. d # Group => d \in Lamps
    BY DEF Built
  <2>2. CASE d # Group /\ q[1].kind = "full"
    BY <1>1, <2>1, <2>2 DEF TreeInv
  <2>3. CASE ~(d # Group /\ q[1].kind = "full")
    BY <1>1, <2>3 DEF TreeInv
  <2> QED BY <2>2, <2>3
<1>4. QueueFits(u)
  BY <1>1, <1>2, EndFits
<1>5. ASSUME d \in Lamps
      PROVE  LampHolds(u, lamp[d], points[d], d \in swept', key, d \in unbuilt)
  <2>1. d # Group
    BY <1>5, TreeAssumption
  <2>2. q[1].kind = "full" /\ OnItsWay(q[1], Own(lamp[d]), points[d]) =>
          Own(lamp[d]) \subseteq points[d] /\ Clean(Own(lamp[d]), points[d])
    BY <1>1 DEF OnItsWay, Clean
  <2>3. q[1].kind # "full" => (d \in swept' => d \in swept)
    BY <1>1
  <2>4. ~key => ~(d \in swept')
    <3>1. LampHolds(q, lamp[d], points[d], d \in swept, key, d \in unbuilt)
      BY <1>2, <1>5
    <3>2. ~key => q[1].kind # "full" /\ ~(d \in swept)
      BY <1>1, <3>1 DEF LampHolds, KindsFit
    <3> QED BY <2>3, <3>2
  <2>5. (d \in swept') \in BOOLEAN
    OBVIOUS
  <2> DEFINE t == d \in swept'
  <2>6. t \in BOOLEAN /\ (~key => ~t) /\ (q[1].kind # "full" => (t => d \in swept))
    BY <2>3, <2>4
  <2> HIDE DEF t
  <2>7. LampHolds(u, lamp[d], points[d], t, key, d \in unbuilt)
    BY <1>1, <1>5, <2>2, <2>6, EndHolds
  <2> QED BY <2>7 DEF t
<1> HIDE DEF u
<1>6. points' = [points EXCEPT ![d] = points[d]]
  BY <1>1 DEF TreeInv
<1> QED BY <1>1, <1>2, <1>3, <1>4, <1>5, <1>6, OneDevice DEF TreeInv

\* The builds.
LEMMA DeviceBuildKeeps ==
  ASSUME TreeInv, NEW d \in Built, BuildStep(d)
  PROVE  TreeInv'
<1>1. PICK i \in 1..MaxBuilds :
        \/ WriteLan(d, i) \/ Derive(d, i) \/ writeStateDefsToChannels(d, i)
        \/ ListRows(d, i) \/ DeleteRow(d, i) \/ EndBuild(d, i)
  BY DEF BuildStep
<1>2. i = 1
  BY <1>1 DEF WriteLan, Derive, writeStateDefsToChannels, ListRows, DeleteRow, EndBuild, MayRun
<1> QED BY <1>1, <1>2, WriteLanKeeps, DeriveKeeps, WriteKeeps, ListKeeps, RowDeleteKeeps, EndKeeps

-----------------------------------------------------------------------------
\* A light is found, its library answers or breaks off, a light without a cloud is swept: a build waits behind.
LEMMA LanFoundKeeps ==
  ASSUME TreeInv, NEW l \in Lamps, LanFound(l)
  PROVE  TreeInv'
<1> DEFINE q == chain[l]
           u == Append(q, Waiting("lan"))
           n == [lamp[l] EXCEPT !.ip = TRUE]
<1>1. l \in Built /\ DOMAIN chain = Built
  BY DEF Built, TreeInv
<1>2. /\ ~lamp[l].ip /\ Len(q) < MaxBuilds
      /\ lamp' = [lamp EXCEPT ![l] = n] /\ chain' = [chain EXCEPT ![l] = u]
      /\ key' = key /\ members' = members /\ points' = points /\ swept' = swept /\ unbuilt' = unbuilt
  BY <1>1 DEF LanFound, Room, runDeviceBuild, TreeInv
<1>3. /\ lamp[l] \in LampState /\ QueueFits(q) /\ points[l] \in SUBSET Point
      /\ LampHolds(q, lamp[l], points[l], l \in swept, key, l \in unbuilt)
  BY <1>1 DEF TreeInv
<1>4. n \in LampState
  BY <1>3 DEF LampState
<1> DEFINE s == l \in swept
           x == l \in unbuilt
<1>5. key \in BOOLEAN /\ s \in BOOLEAN /\ x \in BOOLEAN /\ LampHolds(q, lamp[l], points[l], s, key, x)
  BY <1>3 DEF TreeInv
<1> HIDE DEF s, x
<1>6. QueueFits(u) /\ LampHolds(u, n, points[l], s, key, x)
  BY <1>2, <1>3, <1>5, LanBehind
<1> HIDE DEF u, n
<1>7. /\ lamp'[l] = n /\ lamp' \in [Lamps -> LampState] /\ \A m \in Lamps : m # l => lamp'[m] = lamp[m]
      /\ points' = [points EXCEPT ![l] = points[l]]
  BY <1>2, <1>4 DEF TreeInv
<1>8. LampHolds(u, lamp'[l], points[l], l \in swept', key, l \in unbuilt')
  BY <1>2, <1>6, <1>7 DEF s, x
<1> QED BY <1>1, <1>2, <1>3, <1>6, <1>7, <1>8, OneDevice DEF TreeInv

\* What is learned of one light, with a build in full behind it or none.
LEMMA LearnedKeeps ==
  ASSUME TreeInv, NEW l \in Lamps, WithKey(key), NEW n \in LampState, n.ip = lamp[l].ip,
         lamp' = [lamp EXCEPT ![l] = n], UNCHANGED <<key, members, points, swept>>,
         \/ chain' = [chain EXCEPT ![l] = Append(@, Waiting("full"))] /\ Len(chain[l]) < MaxBuilds /\ unbuilt' = unbuilt
         \/ chain' = chain /\ n.caps = lamp[l].caps /\ n.lib = lamp[l].lib /\ unbuilt' = unbuilt
         \/ chain' = chain /\ unbuilt' = unbuilt \cup {l}
  PROVE  TreeInv'
<1> DEFINE q == chain[l]
           r == lamp[l]
           w == lamp'[l]
           ps == points[l]
           s == l \in swept
           x == l \in unbuilt
           y == l \in unbuilt'
           u == chain'[l]
<1>1. l \in Built /\ DOMAIN chain = Built
  BY DEF Built, TreeInv
<1>2. /\ key' = key /\ members' = members /\ points' = points /\ swept' = swept
  OBVIOUS
<1>3. QueueFits(q) /\ ps \in SUBSET Point /\ LampHolds(q, r, ps, l \in swept, key, l \in unbuilt)
  BY <1>1 DEF TreeInv
<1>4. /\ QueueFits(q) /\ ps \in SUBSET Point /\ s \in BOOLEAN /\ x \in BOOLEAN /\ y \in BOOLEAN
      /\ LampHolds(q, r, ps, s, key, x) /\ WithKey(key)
  BY <1>3
<1>5. w = n /\ w.ip = r.ip
  BY DEF TreeInv
<1>6. /\ lamp' \in [Lamps -> LampState] /\ \A m \in Lamps : m # l => lamp'[m] = lamp[m]
      /\ points' = [points EXCEPT ![l] = ps]
  BY <1>2 DEF TreeInv
<1>7. /\ chain' = [chain EXCEPT ![l] = u]
      /\ \/ u = Append(q, Waiting("full")) /\ Len(q) < MaxBuilds
         \/ u = q /\ w.caps = r.caps /\ w.lib = r.lib /\ (y <=> x)
         \/ u = q /\ y
  BY <1>1, <1>5 DEF TreeInv
<1>u. unbuilt' \subseteq Lamps /\ \A m \in Lamps : m # l => (m \in unbuilt' <=> m \in unbuilt)
  BY DEF TreeInv
<1> HIDE DEF q, r, w, ps, s, x, y, u
<1>8. QueueFits(u) /\ LampHolds(u, w, ps, s, key, y)
  <2>1. CASE u = Append(q, Waiting("full")) /\ Len(q) < MaxBuilds
    <3>1. WithKey(key) /\ LampHolds(q, r, ps, s, key, x) /\ QueueFits(q) /\ s \in BOOLEAN /\ x \in BOOLEAN
      BY <1>4
    <3>2. KindsFit(q, key) /\ SliderKnown(q) /\ y \in BOOLEAN
      BY <1>4 DEF LampHolds
    <3>3. LampHolds(u, w, ps, s, key, y)
      BY <2>1, <3>1, <3>2, FullBehind
    <3>4. QueueFits(u)
      <4>1. "full" \in {"lan", "full", "sweep"}
        OBVIOUS
      <4> QED BY <2>1, <3>1, <4>1, AppendFits, Zenon
    <3> QED BY <3>3, <3>4
  <2>2. CASE u = q /\ w.caps = r.caps /\ w.lib = r.lib /\ (y <=> x)
    <3>1. key \in BOOLEAN
      BY DEF TreeInv
    <3>2. LampHolds(q, w, ps, s, key, x)
      BY <1>4, <1>5, <2>2, <3>1, LearnKeeps
    <3>3. LampHolds(q, w, ps, s, key, y)
      BY <2>2, <3>2 DEF LampHolds
    <3> QED BY <1>4, <2>2, <3>3
  <2>3. CASE u = q /\ y
    <3>1. ControlsCome(q, w, ps)
      BY <1>4, <1>5 DEF LampHolds, ControlsCome
    <3>2. LampHolds(q, w, ps, s, key, y)
      BY <1>4, <2>3, <3>1 DEF LampHolds
    <3> QED BY <1>4, <2>3, <3>2
  <2> QED BY <1>7, <2>1, <2>2, <2>3
<1>9. LampHolds(u, lamp'[l], ps, l \in swept', key, l \in unbuilt')
  BY <1>2, <1>8 DEF s, w, y
<1> QED BY <1>1, <1>2, <1>4, <1>6, <1>7, <1>8, <1>9, <1>u, OneDevice DEF TreeInv

\* The end of a run: what came is kept, with a build behind it or a note that none follows.
LEMMA RunEndKeeps ==
  ASSUME TreeInv, NEW l \in Lamps, WithKey(key), NEW n \in LampState, n.ip = lamp[l].ip, n.caps = lamp[l].caps,
         NEW came \in BOOLEAN, NEW cancelled \in BOOLEAN, finishLibraryRun(l, n, came, cancelled)
  PROVE  TreeInv'
<1>1. l # Group
  BY TreeAssumption
<1>2. lamp' = [lamp EXCEPT ![l] = n] /\ UNCHANGED <<key, members, points, swept>>
  BY DEF finishLibraryRun
<1>3. CASE cancelled \/ ~(n.scenes \/ came)
  <2>1. chain' = chain /\ unbuilt' = IF n.lib = lamp[l].lib THEN unbuilt ELSE unbuilt \cup {l}
    BY <1>3 DEF finishLibraryRun
  <2> QED BY <1>2, <2>1, LearnedKeeps
<1>4. CASE ~(cancelled \/ ~(n.scenes \/ came))
  <2>1. /\ Len(chain[l]) < MaxBuilds /\ unbuilt' = unbuilt
        /\ chain' = [chain EXCEPT ![l] = Append(@, Waiting("full"))]
    BY <1>1, <1>4 DEF finishLibraryRun, Room, onCloudDataReady, runDeviceBuild
  <2> QED BY <1>2, <2>1, LearnedKeeps
<1> QED BY <1>3, <1>4

\* The scene list, a job of it and the refresh of one light.
LEMMA LibraryKeeps ==
  ASSUME TreeInv, NEW l \in Lamps,
         \/ \E some \in BOOLEAN : ScenesArrive(l, some)
         \/ \E x \in Lib : LibraryArrives(l, x) \/ LibraryFails(l, x) \/ LibraryCancelled(l, x)
         \/ \E some, confirmed, cancelled \in BOOLEAN, x \in Lib : RefreshLoads(l, some, x, confirmed, cancelled)
         \/ \E c \in SUBSET Capability : RefreshMerges(l, c)
  PROVE  TreeInv'
<1>1. l # Group /\ lamp[l] \in LampState /\ lamp \in [Lamps -> LampState]
  BY TreeAssumption DEF TreeInv
<1>2. ASSUME NEW some \in BOOLEAN, ScenesArrive(l, some)
      PROVE  TreeInv'
  <2> DEFINE n == [lamp[l] EXCEPT !.scenes = @ \/ some, !.asked = TRUE]
  <2>1. lamp' = [lamp EXCEPT ![l] = n]
    BY <1>1, <1>2 DEF ScenesArrive
  <2>2. n \in LampState /\ n.ip = lamp[l].ip /\ n.caps = lamp[l].caps /\ n.lib = lamp[l].lib
    BY <1>1 DEF LampState
  <2>3. WithKey(key) /\ UNCHANGED <<key, members, points, swept>> /\ chain' = chain /\ unbuilt' = unbuilt
    BY <1>2 DEF ScenesArrive, TreeInv, WithKey
  <2> HIDE DEF n
  <2> QED BY <2>1, <2>2, <2>3, LearnedKeeps
<1>3. ASSUME NEW x \in Lib, NEW confirmed \in BOOLEAN, NEW cancelled \in BOOLEAN,
             LibraryJob(l, x, confirmed, cancelled)
      PROVE  TreeInv'
  <2> DEFINE n == [lamp[l] EXCEPT !.lib = x, !.checked = confirmed]
             came == x # lamp[l].lib
  <2>1. n \in LampState /\ n.ip = lamp[l].ip /\ n.caps = lamp[l].caps
    BY <1>1 DEF LampState
  <2>2. WithKey(key) /\ finishLibraryRun(l, n, came, cancelled) /\ came \in BOOLEAN
    BY <1>3 DEF LibraryJob, TreeInv, WithKey
  <2> HIDE DEF n, came
  <2> QED BY <2>1, <2>2, RunEndKeeps
<1>4. ASSUME NEW some \in BOOLEAN, NEW confirmed \in BOOLEAN, NEW cancelled \in BOOLEAN, NEW x \in Lib,
             RefreshLoads(l, some, x, confirmed, cancelled)
      PROVE  TreeInv'
  <2> DEFINE n == [lamp[l] EXCEPT !.scenes = @ \/ some, !.asked = TRUE, !.checked = @ \/ confirmed,
                                  !.lib = IF x = "empty" THEN @ ELSE x]
             came == x # "empty"
  <2>1. n \in LampState /\ n.ip = lamp[l].ip /\ n.caps = lamp[l].caps
    BY <1>1 DEF LampState
  <2>2. WithKey(key) /\ finishLibraryRun(l, n, came, cancelled) /\ came \in BOOLEAN
    BY <1>4 DEF RefreshLoads, TreeInv, WithKey
  <2> HIDE DEF n, came
  <2> QED BY <2>1, <2>2, RunEndKeeps
<1>5. ASSUME NEW c \in SUBSET Capability, RefreshMerges(l, c)
      PROVE  TreeInv'
  <2> DEFINE n == [lamp[l] EXCEPT !.caps = c]
  <2>1. lamp' = [lamp EXCEPT ![l] = n] /\ n \in LampState /\ n.ip = lamp[l].ip
    BY <1>1, <1>5 DEF RefreshMerges, LampState
  <2>2. WithKey(key) /\ UNCHANGED <<key, members, points, swept>> /\ chain' = chain /\ unbuilt' = unbuilt \cup {l}
    BY <1>5 DEF RefreshMerges, TreeInv, WithKey
  <2> HIDE DEF n
  <2> QED BY <2>1, <2>2, LearnedKeeps
<1> QED BY <1>2, <1>3, <1>4, <1>5 DEF LibraryArrives, LibraryFails, LibraryCancelled

\* A list that changes something rebuilds every light.
LEMMA CloudListKeeps ==
  ASSUME TreeInv, NEW l \in Lamps, NEW caps \in SUBSET Capability, CloudList(l, caps)
  PROVE  TreeInv'
<1> DEFINE n == [lamp[l] EXCEPT !.caps = caps]
<1>1. /\ WithKey(key) /\ key' = key /\ members' = members /\ points' = points /\ swept' = {} /\ unbuilt' = unbuilt
      /\ \A m \in Lamps : Len(chain[m]) < MaxBuilds
  BY DEF CloudList, Room, TreeInv, WithKey
<1>2. lamp' = [lamp EXCEPT ![l] = n] /\ lamp[l] \in LampState
  BY DEF CloudList, TreeInv
<1>3. n \in LampState /\ n.ip = lamp[l].ip
  BY <1>2 DEF LampState
<1> HIDE DEF n
<1>4. /\ lamp' \in [Lamps -> LampState]
      /\ \A m \in Lamps : lamp'[m].ip = lamp[m].ip
  BY <1>2, <1>3 DEF TreeInv
<1>5. /\ chain' = [d \in Built |-> chain'[d]] /\ DOMAIN chain' = Built
      /\ \A m \in Lamps : m \in Built /\ chain'[m] = Append(chain[m], Waiting("full"))
      /\ \A d \in Built : d \notin Lamps => chain'[d] = chain[d]
  BY DEF CloudList, Built
<1>6. ASSUME NEW m \in Lamps
      PROVE  QueueFits(chain'[m]) /\ LampHolds(chain'[m], lamp'[m], points'[m], m \in swept', key', m \in unbuilt')
  <2> DEFINE q == chain[m]
             u == chain'[m]
             s == m \in swept
             t == m \in swept'
             x == m \in unbuilt
             y == m \in unbuilt'
             r == lamp[m]
             w == lamp'[m]
             ps == points[m]
  <2>h. QueueFits(q) /\ LampHolds(q, r, ps, m \in swept, key, m \in unbuilt)
    BY <1>5 DEF TreeInv
  <2>0. /\ QueueFits(q) /\ LampHolds(q, r, ps, s, key, x)
        /\ s \in BOOLEAN /\ t \in BOOLEAN /\ x \in BOOLEAN /\ y \in BOOLEAN
    BY <2>h
  <2>1. /\ Len(q) < MaxBuilds /\ w.ip = r.ip
        /\ u = Append(q, Waiting("full"))
    BY <1>1, <1>4, <1>5
  <2>2. points'[m] = ps /\ key' = key
    BY <1>1
  <2> HIDE DEF q, u, s, t, x, y, r, w, ps
  <2>4. WithKey(key)
    BY <1>1
  <2>5. KindsFit(q, key) /\ SliderKnown(q)
    BY <2>0 DEF LampHolds
  <2>3. QueueFits(u) /\ LampHolds(u, w, ps, t, key, y)
    BY <2>0, <2>1, <2>4, <2>5, FullBehind
  <2> QED BY <2>2, <2>3 DEF u, w, t, y
<1>7. \A d \in Built : QueueFits(chain'[d])
  BY <1>5, <1>6 DEF TreeInv
<1>8. key' \in BOOLEAN /\ members' \subseteq Lamps /\ swept' \subseteq Lamps /\ unbuilt' \subseteq Lamps /\ points' \in [Built -> SUBSET Point]
  BY <1>1 DEF TreeInv
<1> QED BY <1>4, <1>5, <1>6, <1>7, <1>8 DEF TreeInv

\* A report creates a point; a light without a cloud is swept; the members of the group are known.
LEMMA OthersKeep ==
  ASSUME TreeInv,
         \/ \E l \in Lamps : SensorReport(l) \/ PureLanSweep(l)
         \/ \E m \in SUBSET Lamps : ResolveMembers(m)
  PROVE  TreeInv'
<1>1. ASSUME NEW l \in Lamps, SensorReport(l)
      PROVE  TreeInv'
  <2> DEFINE s == l \in swept
             x == l \in unbuilt
             ps == points[l] \cup {"battery"}
  <2>1. /\ l \in Built /\ lamp[l] \in LampState /\ QueueFits(chain[l]) /\ points[l] \in SUBSET Point
        /\ key \in BOOLEAN /\ s \in BOOLEAN /\ x \in BOOLEAN /\ LampHolds(chain[l], lamp[l], points[l], s, key, x)
    <3>1. l \in Built /\ lamp[l] \in LampState /\ QueueFits(chain[l]) /\ points[l] \in SUBSET Point
      BY DEF Built, TreeInv
    <3>2. LampHolds(chain[l], lamp[l], points[l], l \in swept, key, l \in unbuilt)
      BY DEF TreeInv
    <3>3. key \in BOOLEAN /\ s \in BOOLEAN /\ x \in BOOLEAN
      BY DEF TreeInv
    <3> QED BY <3>1, <3>2, <3>3
  <2>2. /\ points' = [points EXCEPT ![l] = ps] /\ chain' = [chain EXCEPT ![l] = chain[l]]
        /\ key' = key /\ lamp' = lamp /\ members' = members /\ swept' = swept /\ unbuilt' = unbuilt
    BY <1>1 DEF SensorReport, TreeInv
  <2>3. ps \in SUBSET Point
    BY <2>1 DEF Point, SYNTHETIC
  <2> HIDE DEF s, x
  <2>4. LampHolds(chain[l], lamp[l], ps, s, key, x)
    BY <2>1, SensorKeeps
  <2> HIDE DEF ps
  <2>5. LampHolds(chain[l], lamp'[l], ps, l \in swept', key, l \in unbuilt')
    BY <2>2, <2>4 DEF s, x
  <2> QED BY <2>1, <2>2, <2>3, <2>5, OneDevice DEF TreeInv
<1>2. ASSUME NEW l \in Lamps, PureLanSweep(l)
      PROVE  TreeInv'
  <2> DEFINE s == l \in swept
             x == l \in unbuilt
             q == chain[l]
             u == Append(q, Waiting("sweep"))
  <2>1. key = FALSE
    BY <1>2 DEF PureLanSweep, TreeInv
  <2>2. /\ l \in Built /\ QueueFits(q) /\ points[l] \in SUBSET Point /\ Len(q) < MaxBuilds
        /\ LampHolds(q, lamp[l], points[l], l \in swept, key, l \in unbuilt)
    BY <1>2, <2>1 DEF Built, TreeInv, PureLanSweep, Room
  <2>0. s \in BOOLEAN /\ x \in BOOLEAN /\ LampHolds(q, lamp[l], points[l], s, key, x)
    BY <2>2
  <2>3. /\ points' = [points EXCEPT ![l] = points[l]] /\ chain' = [chain EXCEPT ![l] = u]
        /\ key' = key /\ lamp' = lamp /\ members' = members /\ swept' = swept /\ unbuilt' = unbuilt
    BY <1>2 DEF PureLanSweep, runDeviceBuild, TreeInv
  <2> HIDE DEF s, x, q
  <2>4. QueueFits(u) /\ LampHolds(u, lamp[l], points[l], s, key, x)
    BY <2>0, <2>1, <2>2, SweepBehind
  <2> HIDE DEF u
  <2>5. LampHolds(u, lamp'[l], points[l], l \in swept', key, l \in unbuilt')
    BY <2>3, <2>4 DEF s, x
  <2> QED BY <2>2, <2>3, <2>4, <2>5, OneDevice DEF TreeInv
<1>3. ASSUME NEW m \in SUBSET Lamps, ResolveMembers(m)
      PROVE  TreeInv'
  <2> DEFINE q == chain[Group]
             u == Append(q, Waiting("full"))
  <2>1. Group \in Built /\ Group \notin Lamps /\ QueueFits(q) /\ points[Group] \in SUBSET Point
        /\ Len(q) < MaxBuilds /\ "full" \in {"lan", "full", "sweep"}
    BY <1>3, TreeAssumption DEF Built, TreeInv, ResolveMembers, Room
  <2>2. /\ points' = [points EXCEPT ![Group] = points[Group]] /\ chain' = [chain EXCEPT ![Group] = u]
        /\ key' = key /\ lamp' = lamp /\ members' = m /\ swept' = swept /\ unbuilt' = unbuilt
    BY <1>3 DEF ResolveMembers, runDeviceBuild, TreeInv
  <2> HIDE DEF q
  <2>3. QueueFits(u)
    BY <2>1, AppendFits, Zenon
  <2> HIDE DEF u
  <2> QED BY <2>1, <2>2, <2>3, OneDevice DEF TreeInv
<1> QED BY <1>1, <1>2, <1>3

-----------------------------------------------------------------------------
\* A start has at most one build of a light, and it waits.
LEMMA InitTree == TreeInit => TreeInv
<1> SUFFICES ASSUME TreeInit
             PROVE  TreeInv
  OBVIOUS
<1>1. CachedLamp \subseteq LampState /\ NewLamp \subseteq LampState
  <2>1. NewLamp \subseteq LampState
    BY DEF NewLamp, LampState, Lib
  <2>2. ASSUME NEW i \in BOOLEAN, NEW c \in {Capability \ {"toggle"}}
        PROVE  [ip |-> i, caps |-> c, lib |-> "speed", scenes |-> TRUE, asked |-> TRUE, checked |-> TRUE] \in LampState
    <3>1. c \subseteq Capability /\ "speed" \in Lib
      BY DEF Lib
    <3> QED BY <3>1 DEF LampState
  <2> QED BY <2>1, <2>2 DEF CachedLamp
<1>2. lamp \in [Lamps -> LampState]
  BY <1>1 DEF TreeInit
<1>3. points \in [Built -> SUBSET Point]
  BY DEF TreeInit, Point, Capability
<1>4. ASSUME NEW kind \in {"lan", "full"}
      PROVE  QueueFits(<<Waiting(kind)>>)
  <2> DEFINE w == Waiting(kind)
  <2>1. w \in BuildRecord /\ w.rows = {} /\ w.at = "queued" /\ w.kind # "sweep"
    BY DEF Waiting, BuildRecord
  <2> HIDE DEF w
  <2>2. <<w>> \in Seq(BuildRecord) /\ Len(<<w>>) = 1 /\ DOMAIN <<w>> = {1} /\ <<w>>[1] = w
    BY <2>1
  <2>3. 1 <= MaxBuilds
    BY TreeAssumption
  <2> QED BY <2>1, <2>2, <2>3 DEF QueueFits, w
<1>5. QueueFits(<<>>)
  <2>1. <<>> \in Seq(BuildRecord) /\ Len(<<>>) = 0 /\ DOMAIN <<>> = {}
    OBVIOUS
  <2> QED BY <2>1, TreeAssumption DEF QueueFits
<1>6. chain = [d \in Built |-> chain[d]] /\ DOMAIN chain = Built
      /\ \A d \in Built : chain[d] = IF d \in Lamps THEN firePostCachePhaseCallbacks(d) ELSE <<>>
  BY DEF TreeInit
<1>7. \A d \in Built : QueueFits(chain[d])
  BY <1>4, <1>5, <1>6 DEF firePostCachePhaseCallbacks
<1>8. ASSUME NEW l \in Lamps
      PROVE  LampHolds(chain[l], lamp[l], points[l], l \in swept, key, l \in unbuilt)
  <2>1. l \in Built /\ swept = {} /\ "power" \in points[l] /\ lamp[l] \in LampState
    BY <1>2 DEF Built, TreeInit
  <2>2. chain[l] = firePostCachePhaseCallbacks(l) /\ (~key => lamp[l].caps = {})
    BY <1>6, <2>1 DEF TreeInit, NewLamp
  <2>3. ASSUME NEW i \in DOMAIN chain[l]
        PROVE  /\ i = 1 /\ chain[l][1].at = "queued"
               /\ chain[l][1].kind = IF lamp[l].caps # {} THEN "full" ELSE "lan"
    BY <2>2 DEF firePostCachePhaseCallbacks, Waiting
  <2>4. KindsFit(chain[l], key) /\ SliderKnown(chain[l])
    BY <2>2, <2>3 DEF KindsFit, SliderKnown
  <2>5. ControlsCome(chain[l], lamp[l], points[l])
    BY <2>1 DEF ControlsCome, LAN_STATE_IDS
  <2>6. Converges(chain[l], Own(lamp[l]), points[l], l \in swept)
    BY <2>1, <2>3 DEF Converges, FullAhead
  <2> QED BY <2>1, <2>4, <2>5, <2>6 DEF LampHolds
<1> QED BY <1>2, <1>3, <1>6, <1>7, <1>8 DEF TreeInv, TreeInit

\* Every step of the trees keeps their invariant.
LEMMA NextTree == TreeInv /\ [TreeNext]_treeVars => TreeInv'
<1> SUFFICES ASSUME TreeInv, [TreeNext]_treeVars
             PROVE  TreeInv'
  OBVIOUS
<1>1. CASE UNCHANGED treeVars
  <2>1. /\ key' = key /\ lamp' = lamp /\ members' = members /\ points' = points /\ chain' = chain /\ swept' = swept /\ unbuilt' = unbuilt
    BY <1>1 DEF treeVars
  <2> QED BY <2>1 DEF TreeInv, LampHolds, QueueFits, Built
<1>2. CASE TreeNext
  BY <1>2, DeviceBuildKeeps, LanFoundKeeps, LibraryKeeps, CloudListKeeps, OthersKeep DEF TreeNext
<1> QED BY <1>1, <1>2

\* No step takes a slider or another owner's point away.
LEMMA NothingTaken ==
  ASSUME TreeInv, [TreeNext]_treeVars
  PROVE  SliderNeedsAnswer /\ ForeignStays
<1>1. CASE \E d \in Built : DeleteRow(d, 1)
  <2>1. PICK d \in Built : DeleteRow(d, 1)
    BY <1>1
  <2> DEFINE q == chain[d]
  <2>2. 1 \in DOMAIN q /\ q[1].at = "sweep"
    BY <2>1 DEF DeleteRow, Step
  <2>3. PICK p \in q[1].rows : points' = [points EXCEPT ![d] = @ \ {p}]
    BY <2>1 DEF DeleteRow, Step
  <2>4. /\ q[1] \in BuildRecord /\ q[1].rows \cap Foreign = {} /\ q[1].kind # "lan"
        /\ d \in Lamps => LampHolds(q, lamp[d], points[d], d \in swept, key, d \in unbuilt)
    BY <2>2, First
  <2>5. \A e \in Built : \A x : Gone(e, x) => e = d /\ x = p
    BY <2>3 DEF Gone, TreeInv
  <2>6. ForeignStays
    BY <2>3, <2>4, <2>5 DEF ForeignStays
  <2>7. ASSUME NEW l \in Lamps, Gone(l, "scene_speed"), key
        PROVE  l = d /\ q[1].noSpeed
    <3>1. l = d /\ p = "scene_speed"
      BY <2>5, <2>7 DEF Built
    <3>2. LampHolds(q, lamp[l], points[l], l \in swept, key, l \in unbuilt)
      BY <2>4, <3>1
    <3>3. q[1].kind = "full"
      BY <2>2, <2>4, <2>7, <3>2 DEF LampHolds, KindsFit, BuildRecord
    <3> QED BY <2>2, <2>3, <3>1, <3>2, <3>3 DEF LampHolds, SliderKnown
  <2> QED BY <2>2, <2>6, <2>7 DEF SliderNeedsAnswer
<1>2. CASE ~ \E d \in Built : DeleteRow(d, 1)
  <2>1. \A e \in Built : points[e] \subseteq points'[e]
    <3>1. CASE points' = points
      BY <3>1
    <3>2. CASE \E d \in Built : points' = [points EXCEPT ![d] = @ \cup buildLanStateDefs(d)]
      BY <3>2 DEF TreeInv
    <3>3. CASE \E d \in Built : points' = [points EXCEPT ![d] = @ \cup chain[d][1].defs]
      BY <3>3 DEF TreeInv
    <3>4. CASE \E d \in Built : points' = [points EXCEPT ![d] = @ \cup {"battery"}]
      BY <3>4 DEF TreeInv
    <3>5. CASE UNCHANGED treeVars
      BY <3>1, <3>5 DEF treeVars
    <3>6. ASSUME NEW d \in Built, BuildStep(d)
          PROVE  \E e \in Built : \/ points' = points \/ points' = [points EXCEPT ![e] = @ \cup buildLanStateDefs(e)]
                                  \/ points' = [points EXCEPT ![e] = @ \cup chain[e][1].defs]
      <4>1. PICK i \in 1..MaxBuilds :
              \/ WriteLan(d, i) \/ Derive(d, i) \/ writeStateDefsToChannels(d, i)
              \/ ListRows(d, i) \/ DeleteRow(d, i) \/ EndBuild(d, i)
        BY <3>6 DEF BuildStep
      <4>2. i = 1
        BY <4>1 DEF WriteLan, Derive, writeStateDefsToChannels, ListRows, DeleteRow, EndBuild, MayRun
      <4> QED BY <1>2, <4>1, <4>2 DEF WriteLan, Derive, writeStateDefsToChannels, ListRows, EndBuild, Step
    <3>7. ASSUME NEW l \in Lamps, SensorReport(l)
          PROVE  \E d \in Built : points' = [points EXCEPT ![d] = @ \cup {"battery"}]
      BY <3>7 DEF SensorReport, Built
    <3>8. ASSUME NEW l \in Lamps,
                 \/ LanFound(l) \/ PureLanSweep(l) \/ \E c \in SUBSET Capability : CloudList(l, c)
                 \/ \E some \in BOOLEAN : ScenesArrive(l, some)
                 \/ \E x \in Lib : LibraryArrives(l, x) \/ LibraryFails(l, x) \/ LibraryCancelled(l, x)
                 \/ \E some, confirmed, cancelled \in BOOLEAN, x \in Lib :
                      RefreshLoads(l, some, x, confirmed, cancelled)
                 \/ \E c \in SUBSET Capability : RefreshMerges(l, c)
          PROVE  points' = points
      BY <3>8 DEF LanFound, PureLanSweep, CloudList, ScenesArrive, LibraryArrives, LibraryFails, LibraryCancelled,
                  LibraryJob, RefreshLoads, RefreshMerges, finishLibraryRun
    <3>9. ASSUME NEW m \in SUBSET Lamps, ResolveMembers(m)
          PROVE  points' = points
      BY <3>9 DEF ResolveMembers
    <3> QED BY <3>1, <3>2, <3>3, <3>4, <3>5, <3>6, <3>7, <3>8, <3>9 DEF TreeNext
  <2>2. \A e \in Built : \A x : ~Gone(e, x)
    BY <2>1 DEF Gone
  <2> QED BY <2>2 DEF SliderNeedsAnswer, ForeignStays, Built, Foreign
<1> QED BY <1>1, <1>2

\* A light whose builds are through has what it declares and nothing of an older list.
LEMMA ThroughIsDone == TreeInv => TreeTypeOK /\ BuildsConverge
<1> SUFFICES ASSUME TreeInv
             PROVE  TreeTypeOK /\ BuildsConverge
  OBVIOUS
<1>1. TreeTypeOK
  BY DEF TreeTypeOK, TreeInv, QueueFits
<1>2. ASSUME NEW l \in Lamps, chain[l] = <<>>, l \in swept, l \notin unbuilt
      PROVE  /\ buildCloudStateDefs(l) \cup buildLanStateDefs(l) \subseteq points[l]
             /\ points[l] \subseteq buildCloudStateDefs(l) \cup Foreign \cup {"scene_speed"}
  <2>1. LampHolds(chain[l], lamp[l], points[l], l \in swept, key, l \in unbuilt)
    BY DEF TreeInv
  <2>2. DOMAIN chain[l] = {}
    BY <1>2
  <2>3. Own(lamp[l]) \subseteq points[l] /\ Clean(Own(lamp[l]), points[l])
    BY <1>2, <2>1, <2>2 DEF LampHolds, Converges, FullAhead
  <2>4. lamp[l].ip => LAN_STATE_IDS \subseteq points[l]
    BY <2>1, <2>2 DEF LampHolds, ControlsCome
  <2> QED BY <2>3, <2>4, DefsOf DEF Clean, LAN_STATE_IDS
<1> QED BY <1>1, <1>2 DEF BuildsConverge

\* Builds of a tree end in the datapoints the device calls for and take away nothing they must not, for
\* any number of lights and of builds that wait.
THEOREM TreesConverge == TreeSpec => TreeConverges
<1>1. TreeSpec => []TreeInv
  BY InitTree, NextTree, PTL DEF TreeSpec
<1>2. TreeInv /\ [TreeNext]_treeVars => [SliderNeedsAnswer /\ ForeignStays]_treeVars
  BY NothingTaken
<1> QED BY <1>1, <1>2, ThroughIsDone, PTL DEF TreeSpec, TreeConverges
=============================================================================
