----------------------------- MODULE ShownValues -----------------------------
(***************************************************************************)
(* What the adapter shows of the reachability of its devices, and the      *)
(* memory it compares every such value against before it writes.  Every    *)
(* 20 s a round resolves each device's marker (info.online), refreshes the *)
(* groups when a light changed, and counts the markers into the rollup; a  *)
(* report does the first two for its device at once.  The cleanup deletes  *)
(* the trees of devices that are gone, one await after the other, beside   *)
(* the rounds; the stop and the start mark everything offline.             *)
(*                                                                         *)
(* A value only the adapter writes is compared in memory, not read back:   *)
(* what memory holds has to be what the database holds.                    *)
(*   state-manager.ts, online-sync.ts, group-fanout-handler.ts,            *)
(*   device-events.ts, device-reaper.ts                                    *)
(***************************************************************************)
EXTENDS Naturals, FiniteSets, NoValue

CONSTANTS
    Devs,              \* real devices; all of them members of one app group
    LightDevs,         \* those of them that are lights
    Total, Online, All, \* info.devicesTotal, info.devicesOnline, info.devicesAllOnline
    GroupOnline, Out,  \* the group's info.online and info.membersUnreachable
    WritesFail,        \* whether a write to the database may fail
    GoesSilent,        \* whether the evidence of a device may run out
    MaxRuns,           \* bound: how often the process starts
    Returns            \* whether a device may come back while a cleanup runs

ASSUME ShownAssumption ==
    /\ LightDevs \subseteq Devs
    /\ IsFiniteSet(Devs)
    /\ WritesFail \in BOOLEAN /\ GoesSilent \in BOOLEAN /\ Returns \in BOOLEAN /\ MaxRuns \in Nat
    /\ Total \notin {Online, All, GroupOnline, Out} /\ Online \notin {All, GroupOnline, Out}
    /\ All \notin {GroupOnline, Out} /\ GroupOnline # Out
    /\ {Total, Online, All, GroupOnline, Out} \cap Devs = {}
    /\ None \notin BOOLEAN \cup Nat

Ids == Devs \cup {Total, Online, All, GroupOnline, Out}   \* a device stands for its marker

VARIABLES
    up,          \* "down", "run", "unloading"
    here,        \* the devices of the device map
    group,       \* the group is in the device map
    heard,       \* what proves a device's reachability: "yes", "no", "silent"
    flag,        \* device.state.online
    built,        \* the devices whose objects exist
    ensured,     \* ensuredStates: objects this run made
    cached,      \* onlineMarkerCache
    resolved,    \* resolvedOnline
    value,       \* the database
    remembered,      \* readOnlyValues; None: not known
    round,       \* the running round, [pc |-> "idle"] between two
    primed,      \* groupReachabilityPrimed
    reap,        \* the running cleanup
    runs,        \* bounds the starts
    settled,     \* history: "round": nothing else happened since the round began; "yes": and it has ended
    word         \* history: the last proven verdict the resolver gave on a device this run

shownVars == <<up, here, group, heard, flag, built, ensured, cached, resolved, value,
               remembered, round, primed, reap, runs, settled, word>>

deviceWorld == <<here, group, heard>>
treeWorld == <<built, ensured, cached>>

NoRound == [pc |-> "idle"]
NoReap == [pc |-> "idle"]

ShownTypeOK ==
    /\ up \in {"down", "run", "unloading"}
    /\ here \subseteq Devs /\ built \subseteq Devs /\ ensured \subseteq Devs /\ cached \subseteq Devs
    /\ group \in BOOLEAN /\ primed \in BOOLEAN
    /\ heard \in [Devs -> {"yes", "no", "silent"}]
    /\ word \in [Devs -> {"yes", "no", "silent"}]
    /\ flag \in [Devs -> BOOLEAN]
    /\ resolved \in [Devs -> BOOLEAN \cup {None}]
    /\ DOMAIN value = Ids /\ DOMAIN remembered = Ids
    /\ \A m \in {value, remembered} :
          /\ \A id \in Devs \cup {All, GroupOnline} : m[id] \in BOOLEAN \cup {None}
          /\ \A id \in {Total, Online} : m[id] \in 0..Cardinality(Devs) \cup {None}
          /\ m[Out] \in (SUBSET Devs) \cup {None}
    /\ round.pc \in {"idle", "sync", "rollup"}
    /\ reap.pc \in {"idle", "list", "delete", "forget"}
    /\ runs \in 0..MaxRuns
    /\ settled \in {"no", "round", "yes"}

-----------------------------------------------------------------------------
(* The memory of written values                                            *)

(* storeReadOnly: nothing when memory holds the value already; otherwise   *)
(* it is remembered and then written.                                      *)
StoredIn(m, writes) == [id \in Ids |-> IF id \in DOMAIN writes THEN writes[id] ELSE m[id]]

Differs(writes) == {id \in DOMAIN writes : remembered[id] # writes[id]}

store(writes) ==
    /\ remembered' = StoredIn(remembered, writes)
    /\ \E lost \in IF WritesFail THEN SUBSET Differs(writes) ELSE {{}} :
          value' = [id \in Ids |-> IF id \in Differs(writes) \ lost THEN writes[id] ELSE value[id]]

(* writeReadOnly: from the unload on nothing is written any more.          *)
writeReadOnly(writes) ==
    IF up = "unloading" THEN UNCHANGED <<remembered, value>> ELSE store(writes)

(* A mutation of the next: the values of a deleted tree stay in memory.    *)
Remembers(d) == remembered

(* forgetReadOnly: a deleted state has no value any more.                  *)
forgetReadOnly(d) == [remembered EXCEPT ![d] = None]

-----------------------------------------------------------------------------
(* Reachability                                                            *)

(* resolveDeviceReachability, reduced to its verdict: reachable, and       *)
(* whether somebody said so (proven) or nobody said anything.              *)
Reachable(d) == heard[d] = "yes"
Proven(d) == heard[d] # "silent"

(* A mutation of the next: silence is written back like a word.            *)
SilenceWrites(d) == d \in LightDevs /\ flag[d] # Reachable(d)

(* Whether the resolved value is written back into the device: a proven    *)
(* one always, an unproven one only upwards; lights only.                  *)
WritesBack(d) == d \in LightDevs /\ flag[d] # Reachable(d) /\ (Proven(d) \/ Reachable(d))

Unreachable == {d \in here : ~Reachable(d)}

(* updateGroupMembersUnreachable: a group is reachable while each of its   *)
(* members in the map is, and it has one.                                  *)
GroupWrites == [id \in {GroupOnline, Out} |->
                   IF id = Out THEN Unreachable ELSE here # {} /\ Unreachable = {}]

(* History: a proven verdict is noted, silence is not.                     *)
WordAfter(d) == IF Proven(d) THEN [word EXCEPT ![d] = heard[d]] ELSE word

(* A mutation of the next: the device's own flag is shown.                 *)
FlagShown(d) == [id \in {d} |-> flag[d]]

MarkerWrites(d) == [id \in {d} |-> Reachable(d)]

Both(f, g) == [id \in DOMAIN f \cup DOMAIN g |-> IF id \in DOMAIN f THEN f[id] ELSE g[id]]

-----------------------------------------------------------------------------
(* The round of the online sync                                            *)

RoundBegins ==
    /\ up = "run" /\ round = NoRound
    /\ round' = [pc |-> "sync", todo |-> here, changed |-> FALSE]
    /\ settled' = IF reap = NoReap THEN "round" ELSE "no"
    /\ UNCHANGED <<runs, up, deviceWorld, word, flag, treeWorld, resolved, value, remembered, primed, reap>>

(* syncInfoOnline for the next device of the round.                        *)
RoundSyncs ==
    /\ round.pc = "sync"
    /\ \E d \in round.todo :
          /\ resolved' = [resolved EXCEPT ![d] = Reachable(d)]
          /\ writeReadOnly(MarkerWrites(d))
          /\ flag' = IF WritesBack(d) THEN [flag EXCEPT ![d] = Reachable(d)] ELSE flag
          /\ word' = WordAfter(d)
          /\ round' = [round EXCEPT !.todo = @ \ {d}, !.changed = @ \/ WritesBack(d)]
    /\ UNCHANGED <<runs, up, deviceWorld, treeWorld, primed, reap, settled>>

(* A mutation of the next: every device of the map counts.                 *)
CountsTheMap == [total |-> Cardinality(here), online |-> Cardinality({d \in here : resolved[d] = TRUE})]

(* A mutation of the next: the group's marker counts like a device's.      *)
CountsTheGroup ==
    [total |-> Cardinality(cached) + 1, online |-> Cardinality({d \in cached : resolved[d] = TRUE})]

(* writeDeviceRollup counts the markers there are, by the values this run  *)
(* resolved - before it sees to the three datapoints' objects.             *)
MarkersCounted ==
    [total |-> Cardinality(cached), online |-> Cardinality({d \in cached : resolved[d] = TRUE})]

(* The groups: in the first round that finds one, and whenever a light     *)
(* changed.  The markers are counted right after.                          *)
RoundGroups ==
    /\ round.pc = "sync" /\ round.todo = {}
    /\ round' = [pc |-> "rollup", found |-> MarkersCounted]
    /\ IF group /\ (round.changed \/ ~primed)
       THEN /\ writeReadOnly(GroupWrites)
            /\ primed' = TRUE
       ELSE UNCHANGED <<remembered, value, primed>>
    /\ UNCHANGED <<runs, up, deviceWorld, word, flag, treeWorld, resolved, reap, settled>>

(* The three datapoints, once their objects are seen to.                   *)
RoundWrites ==
    /\ round.pc = "rollup"
    /\ LET n == round.found
       IN  writeReadOnly([id \in {Total, Online, All} |->
                             IF id = Total THEN n.total
                             ELSE IF id = Online THEN n.online
                             ELSE n.total > 0 /\ n.online = n.total])
    /\ round' = NoRound
    /\ settled' = IF settled = "round" /\ up = "run" THEN "yes" ELSE "no"
    /\ UNCHANGED <<runs, up, deviceWorld, word, flag, treeWorld, resolved, primed, reap>>

-----------------------------------------------------------------------------
(* Reports, silence and devices                                            *)

(* A report about a device.  One whose patch carries `online` refreshes    *)
(* the groups and the device's marker at once; one that only proves        *)
(* something waits for the round.                                          *)
Report(d, said, carries) ==
    /\ up = "run" /\ d \in here
    /\ <<said, carries>> # <<heard[d], FALSE>>
    /\ heard' = [heard EXCEPT ![d] = said]
    /\ word' = IF carries THEN [word EXCEPT ![d] = said] ELSE word
    /\ flag' = IF carries THEN [flag EXCEPT ![d] = (said = "yes")] ELSE flag
    /\ settled' = "no"
    /\ IF carries
       THEN LET un == (Unreachable \ {d}) \cup (IF said = "yes" THEN {} ELSE {d})
                groups == [id \in (IF group THEN {GroupOnline, Out} ELSE {}) |->
                              IF id = Out THEN un ELSE un = {}]
                marker == [id \in {d} |-> said = "yes"]
            IN  /\ writeReadOnly(Both(groups, marker))
                /\ resolved' = [resolved EXCEPT ![d] = (said = "yes")]
       ELSE UNCHANGED <<remembered, value, resolved>>
    /\ UNCHANGED <<runs, up, here, group, treeWorld, round, primed, reap>>

(* The evidence runs out, or no cloud path is left: nobody says anything.  *)
FallsSilent(d) ==
    /\ GoesSilent
    /\ up = "run" /\ heard[d] # "silent"
    /\ heard' = [heard EXCEPT ![d] = "silent"]
    /\ settled' = "no"
    /\ UNCHANGED <<runs, up, here, group, word, flag, treeWorld, resolved, value, remembered, round, primed, reap>>

(* An object is made once a run.                                           *)
ensureState(d) == IF d \in ensured THEN built ELSE built \cup {d}

(* A device is built, for the first time or again: its marker's object is  *)
(* made unless this run made it already, and the marker is resolved.       *)
BuildTree(d) ==
    /\ up = "run"
    /\ Returns \/ reap = NoReap \/ d \in here
    /\ here' = here \cup {d}
    /\ built' = ensureState(d)
    /\ ensured' = ensured \cup {d}
    /\ cached' = cached \cup {d}
    /\ resolved' = [resolved EXCEPT ![d] = Reachable(d)]
    /\ store(MarkerWrites(d))
    /\ flag' = IF WritesBack(d) THEN [flag EXCEPT ![d] = Reachable(d)] ELSE flag
    /\ settled' = "no"
    /\ word' = WordAfter(d)
    /\ UNCHANGED <<runs, up, group, heard, round, primed, reap>>

GroupArrives ==
    /\ up = "run" /\ ~group
    /\ group' = TRUE
    /\ settled' = "no"
    /\ UNCHANGED <<runs, up, here, heard, word, flag, treeWorld, resolved, value, remembered, round, primed, reap>>

(* A device leaves the map: no list names it any more.                     *)
Leaves(d) ==
    /\ up = "run" /\ d \in here
    /\ here' = here \ {d}
    /\ flag' = [flag EXCEPT ![d] = FALSE]
    /\ heard' = [heard EXCEPT ![d] = "silent"]
    /\ word' = [word EXCEPT ![d] = "silent"]
    /\ settled' = "no"
    /\ UNCHANGED <<runs, up, group, treeWorld, resolved, value, remembered, round, primed, reap>>

-----------------------------------------------------------------------------
(* The cleanup: the devices of the map, then the rows of the object tree,  *)
(* then each tree without a device, deleted and forgotten.                 *)
CleanupBegins ==
    /\ up = "run" /\ reap = NoReap
    /\ reap' = [pc |-> "list", current |-> here]
    /\ settled' = "no"
    /\ UNCHANGED <<runs, up, deviceWorld, word, flag, treeWorld, resolved, value, remembered, round, primed>>

CleanupLists ==
    /\ reap.pc = "list"
    /\ reap' = IF built \subseteq reap.current THEN NoReap
               ELSE [pc |-> "delete", rows |-> built \ reap.current]
    /\ settled' = "no"
    /\ UNCHANGED <<runs, up, deviceWorld, word, flag, treeWorld, resolved, value, remembered, round, primed>>

DeleteTree(d) ==
    /\ reap.pc = "delete" /\ d \in reap.rows
    /\ built' = built \ {d}
    /\ value' = [value EXCEPT ![d] = None]
    /\ reap' = [pc |-> "forget", rows |-> reap.rows, gone |-> d]
    /\ settled' = "no"
    /\ UNCHANGED <<runs, up, deviceWorld, word, flag, ensured, cached, resolved, remembered, round, primed>>

(* forgetPrefix                                                            *)
ForgetPrefix ==
    /\ reap.pc = "forget"
    /\ LET d == reap.gone
           left == reap.rows \ {d}
       IN  /\ cached' = cached \ {d}
           /\ ensured' = ensured \ {d}
           /\ resolved' = [resolved EXCEPT ![d] = None]
           /\ remembered' = forgetReadOnly(d)
           /\ reap' = IF left = {} THEN NoReap ELSE [pc |-> "delete", rows |-> left]
    /\ settled' = "no"
    /\ UNCHANGED <<runs, up, deviceWorld, word, flag, built, value, round, primed>>

-----------------------------------------------------------------------------
(* Stop and start                                                          *)

(* The markers and the two counts that speak of reachability: offline.     *)
OfflineWrites(ds) ==
    [id \in ds \cup {GroupOnline, Online, All} |-> IF id = Online THEN 0 ELSE FALSE]

(* onUnload: the last words, past the unload check.                        *)
Unload ==
    /\ up = "run"
    /\ up' = "unloading"
    /\ resolved' = [d \in Devs |-> IF d \in cached THEN FALSE ELSE resolved[d]]
    /\ store(OfflineWrites(cached))
    /\ settled' = "no"
    /\ UNCHANGED <<runs, deviceWorld, word, flag, treeWorld, round, primed, reap>>

(* The process ends, after an unload or without one.                       *)
Ends ==
    /\ up # "down"
    /\ up' = "down"
    /\ here' = {} /\ group' = FALSE
    /\ heard' = [d \in Devs |-> "silent"] /\ word' = [d \in Devs |-> "silent"]
    /\ flag' = [d \in Devs |-> FALSE]
    /\ ensured' = {} /\ cached' = {}
    /\ resolved' = [d \in Devs |-> None]
    /\ remembered' = [id \in Ids |-> None]
    /\ round' = NoRound /\ reap' = NoReap
    /\ primed' = FALSE
    /\ settled' = "no"
    /\ UNCHANGED <<runs, built, value>>

(* The markers of the last run: every stored one, found by the one scan.   *)
onlineMarkerIds == built

(* The start: one bulk read of the stored values, the three datapoints,    *)
(* and everything offline before anything is asked.  A value that is read  *)
(* is remembered; a bulk read that fails leaves memory empty.              *)
Starts ==
    /\ up = "down"
    /\ runs < MaxRuns
    /\ runs' = runs + 1
    /\ up' = "run"
    /\ cached' = onlineMarkerIds
    /\ resolved' = [d \in Devs |-> IF d \in built THEN FALSE ELSE None]
    /\ LET w == OfflineWrites(built)
       IN  /\ \E read \in BOOLEAN :
                 remembered' = StoredIn(IF read THEN value ELSE remembered, w)
           /\ value' = StoredIn(value, w)
    /\ UNCHANGED <<deviceWorld, word, flag, built, ensured, round, primed, reap, settled>>

-----------------------------------------------------------------------------
ShownInit ==
    /\ up = "down"
    /\ here = {} /\ group = FALSE
    /\ heard = [d \in Devs |-> "silent"] /\ word = [d \in Devs |-> "silent"]
    /\ flag = [d \in Devs |-> FALSE]
    /\ built \in SUBSET Devs
    /\ ensured = {} /\ cached = {}
    /\ resolved = [d \in Devs |-> None]
    /\ value = [id \in Ids |-> IF id \in Devs \ built THEN None
                               ELSE IF id \in built \cup {All, GroupOnline} THEN TRUE
                               ELSE IF id = Out THEN {} ELSE 0]
    /\ remembered = [id \in Ids |-> None]
    /\ round = NoRound /\ reap = NoReap
    /\ primed = FALSE
    /\ runs = 0
    /\ settled = "no"

ShownNext ==
    \/ RoundBegins \/ RoundSyncs \/ RoundGroups \/ RoundWrites
    \/ \E d \in Devs :
          \/ \E said \in {"yes", "no"}, carries \in BOOLEAN : Report(d, said, carries)
          \/ FallsSilent(d) \/ BuildTree(d) \/ Leaves(d) \/ DeleteTree(d)
    \/ GroupArrives
    \/ CleanupBegins \/ CleanupLists \/ ForgetPrefix
    \/ Unload \/ Ends \/ Starts

ShownSpec == ShownInit /\ [][ShownNext]_shownVars

-----------------------------------------------------------------------------
(* Properties                                                              *)

(* A value compared in memory is never left unwritten: what memory holds   *)
(* of a state is what the database holds, except while that state's tree   *)
(* is being deleted (storeReadOnly, forgetReadOnly, primeReadOnly).        *)
MemoryIsWritten ==
    \A id \in Ids :
        remembered[id] \in {None, value[id]} \/ (reap.pc = "forget" /\ reap.gone = id)

(* "It can never drift away from what the individual devices say": when a  *)
(* round ran with nothing else happening, the rollup counts the trees      *)
(* there are and the markers that show a device as reachable               *)
(* (writeDeviceRollup).                                                    *)
RollupCountsMarkers ==
    settled = "yes" =>
        /\ value[Total] = Cardinality(built)
        /\ value[Online] = Cardinality({d \in built : value[d] = TRUE})
        /\ value[All] = (built # {} /\ \A d \in built : value[d] = TRUE)

(* After such a round the marker of every device of the map that has a     *)
(* tree says what is known of the device (syncInfoOnline).                 *)
MarkersTellEvidence ==
    settled = "yes" => \A d \in built \cap here : value[d] = Reachable(d)

(* Nobody saying anything is never written back as if somebody had said    *)
(* "offline": a light's own flag is the last proven verdict on it this     *)
(* run, however long ago (syncInfoOnline, `proven`).                       *)
WordOutlivesSilence ==
    \A d \in here \cap LightDevs : word[d] # "silent" => flag[d] = (word[d] = "yes")

(* Refuted: a group is reachable while every member is, so after such a    *)
(* round a group shown as reachable has no member in the map whose marker  *)
(* says the opposite (updateGroupReachability).                            *)
GroupTellsMembers ==
    (settled = "yes" /\ group /\ value[GroupOnline] = TRUE) =>
        \A d \in here \cap built : value[d] = TRUE

(* The cleanup deletes only the objects of devices no longer present       *)
(* (reapStaleDevices).                                                     *)
LiveTreeStays ==
    [][\A d \in Devs : DeleteTree(d) => d \notin here]_shownVars

\* What is shown of the devices is what is known of them, and what is remembered
\* is what is shown.
ShownIsTrue ==
  /\ ShownTypeOK
  /\ MemoryIsWritten
  /\ RollupCountsMarkers
  /\ MarkersTellEvidence
  /\ WordOutlivesSilence
=============================================================================
