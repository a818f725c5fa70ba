---------------------------- MODULE SegmentTree ----------------------------
(***************************************************************************)
(* The segments of one LED strip: the AA-A5 push the count is read from    *)
(* (device-manager/lookups.ts), the count the device manager learns, lowers*)
(* or defers (device-manager.ts), the manual list of a cut strip and the   *)
(* wizard's result (handlers/state-change-router.ts, wizard-handler.ts),   *)
(* and the segment channels of the object tree, which                      *)
(* StateManager.createSegmentStates writes one await at a time.            *)
(*                                                                         *)
(* A colour slot of a push is one of four classes, which is all the parser *)
(* tells apart: a lit segment, an all-zero slot, a slot with an impossible *)
(* brightness, and a slot whose colour repeats the brightness before it.   *)
(***************************************************************************)
EXTENDS Integers, FiniteSets, FiniteSetsExt

CONSTANTS
  CountMax,        \* SEGMENT_COUNT_MAX, the slots the protocol can address
  Strips,          \* the strips: [length, layout (slots a packet carries), quirk, caps]
  SegmentLists,    \* the index lists a user or the wizard may hand in
  MaxPushes,       \* pushes, and
  MaxEdits         \* manual edits, wizard results and other writes of a behaviour

ASSUME SegmentAssumption ==
  /\ CountMax \in Nat \ {0}
  /\ \A s \in Strips : s.length \in 1 .. CountMax /\ s.layout \in {3, 4}
  /\ \A list \in SegmentLists : IsFiniteSet(list) /\ list \subseteq Nat
  /\ MaxPushes \in Nat /\ MaxEdits \in Nat

VARIABLES
  strip,       \* the strip on the wall, its quirk and its cloud capability (0: none)
  mask,        \* the segments the app's snapshots address; 0: not loaded, or no such frame
  learned,     \* device.segmentCount (0: undefined)
  origin,      \* device.segmentCountOrigin
  manual,      \* device.manualSegments in manual mode; {}: manual mode is off
  deferred,    \* deferredSegmentShrink of this light (0: none)
  saved,       \* learned and manual as the cache file holds them
  tree,        \* the segment channels that exist
  builds,      \* the tree builds under way
  overlapped,  \* a build was started while another one ran
  echo,        \* the segment datapoints the last step wrote, and what made it write them;
               \* history: the segments hidden in the push it took a count from
  pushes, edits

segVars == <<strip, mask, learned, origin, manual, deferred, saved, tree, builds,
             overlapped, echo, pushes, edits>>

Indices == 0 .. CountMax - 1
NoEcho  == [by |-> "none", into |-> {}, hidden |-> {}]

-----------------------------------------------------------------------------
(* The count.                                                              *)

\* A mutation: a count the protocol cannot address is taken.
AnyPositive(n) == n > 0

\* plausibleSegmentCount
Plausible(n) == n \in 1 .. CountMax

\* resolveSegmentCountWithSource: a quirk, else the learned count, else what
\* the capabilities agree on.
Resolve(s, count) ==
  CASE Plausible(s.quirk) -> s.quirk
    [] ~Plausible(s.quirk) /\ Plausible(count) -> count
    [] OTHER -> IF Plausible(s.caps) THEN s.caps ELSE 0

Current == Resolve(strip, learned)

\* effectiveSegmentCount: what the tree is built for.
Effective == Min({Max({Current} \cup {i + 1 : i \in manual}), CountMax})

\* The channels a build has to leave: the manual list, or the first `count`.
ValidIndices(list, count) == IF list # {} THEN list ELSE 0 .. count - 1

-----------------------------------------------------------------------------
(* The push. A push carries the packets `packets`, with a status report    *)
(* before and after them or not; `filler` is what the device pads with,    *)
(* `lookalike` says that its last segment looks like padding, `dark` how   *)
(* many of its last segments are off and black.                            *)

Ceil(n, d) == (n + d - 1) \div d
PacketsOf(s) == 1 .. Ceil(s.length, s.layout)

\* Any frame of the report may be lost, and any number of its last segments dark.
PushesOf(s) ==
  {p \in [packets : SUBSET PacketsOf(s), before : BOOLEAN, after : BOOLEAN,
          filler : {"zero", "big", "shift"}, lookalike : BOOLEAN, dark : 0 .. s.length] :
     p.packets # {}}

\* The segments a push says nothing of: off and black at the end of the strip, or in a
\* packet that is lost although the status reports before and after the packets came.
HiddenIn(s, push) ==
  {i \in 0 .. s.length - 1 :
     \/ i >= s.length - push.dark
     \/ push.before /\ push.after /\ i \div s.layout + 1 \notin push.packets}

\* What slot k of packet n holds.
SlotOf(s, push, n, k) ==
  LET i == (n - 1) * s.layout + (k - 1) IN
  CASE k > s.layout -> "zero"
    [] k <= s.layout /\ i >= s.length -> push.filler
    [] k <= s.layout /\ i < s.length /\ i >= s.length - push.dark -> "zero"
    [] OTHER -> IF i = s.length - 1 /\ push.lookalike THEN "shift" ELSE "segment"

\* Three slots a packet when the fourth is empty in every one of at least two.
SlotsPerPacket(s, push) ==
  IF Cardinality(push.packets) >= 2 /\ \A n \in push.packets : SlotOf(s, push, n, 4) = "zero"
  THEN 3 ELSE 4

Before(p, q) == p[1] < q[1] \/ (p[1] = q[1] /\ p[2] < q[2])

\* parseMqttSegmentData: the slots up to the last one that is no padding.
\* The rule on a repeated brightness needs a slot before it.
Parsed(s, push) ==
  LET per   == SlotsPerPacket(s, push)
      read  == push.packets \X (1 .. per)
      ends  == {p \in read :
                  \/ SlotOf(s, push, p[1], p[2]) = "segment"
                  \/ SlotOf(s, push, p[1], p[2]) = "shift" /\ ~\E q \in read : Before(q, p)}
      kept  == {p \in read : \E q \in ends : p = q \/ Before(p, q)}
      first == 1 .. Cardinality(push.packets)
  IN [indices  |-> {(p[1] - 1) * per + (p[2] - 1) : p \in kept},
      complete |-> push.packets = first /\ push.before /\ push.after,
      guess    |-> \E p \in read \ kept : SlotOf(s, push, p[1], p[2]) = "shift",
      hidden   |-> HiddenIn(s, push)]

\* All that a push of a strip can be read as.
Readings == [s \in Strips |-> {Parsed(s, p) : p \in PushesOf(s)}]

-----------------------------------------------------------------------------
(* The tree builds. `count` is settled by the caller, the list of channels *)
(* is read when the build reaches the segments, and each channel is one    *)
(* await. `keeps` builds save the device once the tree is written.         *)

Build(chained, keeps) ==
  [chained |-> chained, keeps |-> keeps, phase |-> "begin", count |-> Effective,
   valid |-> {}, todo |-> {}]

\* A build that runs beside another one of this light.
Started(b) ==
  /\ Cardinality(builds) < 2 /\ b \notin builds
  /\ builds' = builds \cup {b}
  /\ overlapped' = (overlapped \/ builds # {})

Saved == [learned |-> learned, manual |-> manual]

\* A mutation: the build is called with the count from before the change.
BuildBefore(count, list, keeps) == Build(FALSE, keeps)

\* The count a build is called with is the one after the change that calls it.
BuildAfter(count, list, keeps) ==
  LET current == Resolve(strip, count)
      reach   == Max({current} \cup {i + 1 : i \in list})
  IN [Build(FALSE, keeps) EXCEPT !.count = Min({reach, CountMax})]


-----------------------------------------------------------------------------
(* Learning a count from a push.                                           *)

QuirkLocked == Plausible(strip.quirk)

\* A mutation: a guessed end of the strip needs no second witness.
TrustsTheGuess(seen, parsed) == parsed.complete

\* A mutation: a report that lost frames is believed as well.
TrustsTheCut(seen, parsed) == ~parsed.guess \/ mask = seen

\* mayLowerSegmentCount
MayLower(seen, parsed) == parsed.complete /\ (~parsed.guess \/ mask = seen)

\* adoptSegmentCount: remember, save, rebuild; this push writes no segment.
Adopt(count, hidden) ==
  /\ learned' = count /\ origin' = "push"
  /\ saved' = [learned |-> count, manual |-> manual]
  /\ Started(BuildAfter(count, manual, FALSE))
  /\ echo' = [NoEcho EXCEPT !.hidden = hidden]

\* A mutation: an echo goes to every index reported.
EchoAnywhere(indices) == indices

\* writeSegmentEcho: below the physical count only.
EchoInto(indices) == {i \in indices : i < Resolve(strip, learned')}

\* processMqttSegmentPacket
ReceivePush(parsed) ==
  LET seen   == Max({0} \cup {i + 1 : i \in parsed.indices})
      grow   == seen > Current
      lower  == seen < Current /\ MayLower(seen, parsed)
      adopt  == ~QuirkLocked /\ (grow \/ lower)
      learn  == ~QuirkLocked /\ seen = Current /\ learned # seen
  IN
  /\ pushes < MaxPushes /\ pushes' = pushes + 1
  /\ parsed.indices # {} /\ Plausible(seen)
  /\ deferred' = IF seen < Current /\ parsed.complete /\ parsed.guess /\ mask = 0
                   THEN seen ELSE deferred
  /\ \/ adopt /\ Adopt(seen, parsed.hidden)
     \/ /\ ~adopt
        /\ IF learn THEN learned' = seen /\ origin' = "push"
                         /\ saved' = [learned |-> seen, manual |-> manual]
                    ELSE UNCHANGED <<learned, origin, saved>>
        /\ echo' = [by   |-> "push",
                    into |-> EchoInto(IF manual # {} THEN parsed.indices \cap manual
                                                     ELSE parsed.indices), hidden |-> {}]
        /\ UNCHANGED <<builds, overlapped>>
  /\ UNCHANGED <<strip, mask, manual, tree, edits>>

\* finishLibraryRun brings the masks; reviewDeferredSegmentShrink judges a
\* lowered count that waited for them.
LoadMasks ==
  /\ mask = 0 /\ edits < MaxEdits /\ edits' = edits + 1
  /\ mask' \in 0 .. strip.length
  /\ deferred' = 0
  /\ \/ deferred # 0 /\ deferred < Current /\ mask' = deferred /\ Adopt(deferred, {})
     \/ /\ ~(deferred # 0 /\ deferred < Current /\ mask' = deferred)
        /\ echo' = NoEcho
        /\ UNCHANGED <<learned, origin, saved, builds, overlapped>>
  /\ UNCHANGED <<strip, manual, tree, pushes>>

-----------------------------------------------------------------------------
(* The user and the wizard.                                                *)

\* handleManualSegmentsChange and applyManualSegments: a list beyond the
\* physical length is refused, and a refused or empty list ends manual mode.
SetManual(list) ==
  LET bound    == IF Current > 0 THEN Current ELSE CountMax
      accepted == IF \A i \in list : i < bound THEN list ELSE {}
  IN
  /\ edits < MaxEdits /\ edits' = edits + 1
  /\ manual' = accepted
  /\ Started(BuildAfter(learned, accepted, TRUE))
  /\ echo' = NoEcho
  /\ UNCHANGED <<strip, mask, learned, origin, deferred, saved, tree, pushes>>

\* applyWizardResult: the strip ends at its highest lit segment, and a gap
\* below it becomes a manual list.
ApplyWizardResult(lit) ==
  LET count == Max(lit) + 1
      gaps  == Cardinality(lit) < count
  IN
  /\ edits < MaxEdits /\ edits' = edits + 1
  /\ lit # {} /\ Plausible(count)
  /\ learned' = count /\ origin' = "wizard"
  /\ manual' = IF gaps THEN lit ELSE {}
  /\ Started(BuildAfter(count, manual', TRUE))
  /\ echo' = NoEcho
  /\ UNCHANGED <<strip, mask, deferred, saved, tree, pushes>>

\* parseSegmentBatch keeps of the indices in a user's command those that are on
\* the strip; a batch of the adapter's own (coerceParsedBatch) is taken as it is.
ParsedBatch(asked)  == asked \cap ValidIndices(manual, Current)
CoercedBatch(asked) == asked

\* dispatchSegmentBatch: the batch went out, by the LAN or the Cloud, and is
\* echoed below the physical count. The wizard's flash names every index of the
\* protocol, a restored snapshot those up to the count of the tree.
SendBatch(by, batch) ==
  /\ edits < MaxEdits /\ edits' = edits + 1
  /\ batch # {}
  /\ echo' = [by |-> by, into |-> {i \in batch : i < Current}, hidden |-> {}]
  /\ UNCHANGED <<strip, mask, learned, origin, manual, deferred, saved, tree, builds,
                 overlapped, pushes>>

-----------------------------------------------------------------------------
(* onCloudDataReady builds through runDeviceBuild: one chained build at a  *)
(* time. A count change and a manual edit call createSegmentStates as it is.*)

CloudListBuild ==
  /\ edits < MaxEdits /\ edits' = edits + 1
  /\ \A b \in builds : ~b.chained
  /\ Started(Build(TRUE, FALSE))
  /\ echo' = NoEcho
  /\ UNCHANGED <<strip, mask, learned, origin, manual, deferred, saved, tree, pushes>>

Moves(b, next) == builds' = (builds \ {b}) \cup {next}

\* The list of channels is read after the first await.
BeginSegments(b) ==
  /\ b.phase = "begin"
  /\ LET valid == ValidIndices(manual, b.count) IN
       Moves(b, [b EXCEPT !.phase = "create", !.valid = valid, !.todo = valid])
  /\ UNCHANGED <<tree, saved>>

CreateNext(b) ==
  /\ b.phase = "create" /\ b.todo # {}
  /\ tree' = tree \cup {Min(b.todo)}
  /\ Moves(b, [b EXCEPT !.todo = @ \ {Min(b.todo)}])
  /\ UNCHANGED saved

\* cleanupExcessSegments reads the channels once, then deletes one by one.
ListExcess(b) ==
  /\ b.phase = "create" /\ b.todo = {}
  /\ Moves(b, [b EXCEPT !.phase = "delete", !.todo = tree \ b.valid])
  /\ UNCHANGED <<tree, saved>>

DeleteNext(b) ==
  /\ b.phase = "delete" /\ b.todo # {}
  /\ tree' = tree \ {Min(b.todo)}
  /\ Moves(b, [b EXCEPT !.todo = @ \ {Min(b.todo)}])
  /\ UNCHANGED saved

\* A mutation: the tree is written, the device never saved.
FinishUnsaved(b) ==
  /\ b.phase = "delete" /\ b.todo = {}
  /\ builds' = builds \ {b}
  /\ UNCHANGED <<tree, saved>>

\* persistDeviceToCache of applyManualSegments comes after the tree.
FinishBuild(b) ==
  /\ b.phase = "delete" /\ b.todo = {}
  /\ builds' = builds \ {b}
  /\ saved' = IF b.keeps THEN Saved ELSE saved
  /\ UNCHANGED tree

BuildStep ==
  /\ \E b \in builds : \/ BeginSegments(b) \/ CreateNext(b) \/ ListExcess(b)
                       \/ DeleteNext(b) \/ FinishBuild(b)
  /\ echo' = NoEcho
  /\ UNCHANGED <<strip, mask, learned, origin, manual, deferred, overlapped, pushes, edits>>

\* The adapter stops between any two steps and starts from the cache file; the
\* objects stay, the start builds the tree again.
Restart ==
  /\ edits < MaxEdits /\ edits' = edits + 1
  /\ learned' = saved.learned /\ manual' = saved.manual
  /\ origin' = "cache" /\ deferred' = 0 /\ mask' \in {0, mask}
  /\ builds' = {[BuildAfter(saved.learned, saved.manual, FALSE) EXCEPT !.chained = TRUE]}
  /\ overlapped' = FALSE /\ echo' = NoEcho
  /\ UNCHANGED <<strip, saved, tree, pushes>>

SegInit ==
  /\ strip \in Strips
  /\ mask = 0 /\ learned = 0 /\ origin = "none" /\ manual = {} /\ deferred = 0
  /\ saved = [learned |-> 0, manual |-> {}]
  /\ tree = {}
  /\ builds = {Build(TRUE, FALSE)}
  /\ overlapped = FALSE /\ echo = NoEcho /\ pushes = 0 /\ edits = 0

SegNext ==
  \/ \E parsed \in Readings[strip] : ReceivePush(parsed)
  \/ LoadMasks
  \/ \E list \in SegmentLists \cup {{}} : SetManual(list)
  \/ \E lit \in SegmentLists : ApplyWizardResult(lit)
  \/ \E asked \in SegmentLists \cup {Indices} : SendBatch("user", ParsedBatch(asked))
  \/ \E asked \in {Indices, 0 .. Effective - 1} : SendBatch("adapter", CoercedBatch(asked))
  \/ CloudListBuild
  \/ BuildStep
  \/ Restart

SegSpec == SegInit /\ [][SegNext]_segVars

-----------------------------------------------------------------------------
(* Properties.                                                             *)

\* Types; one chained build at a time; no build is listed twice.
SegTypeOK ==
  /\ strip \in Strips
  /\ mask \in 0 .. CountMax /\ learned \in 0 .. CountMax /\ deferred \in 0 .. CountMax
  /\ origin \in {"none", "push", "wizard", "cache"}
  /\ manual \subseteq Indices /\ tree \subseteq Indices /\ echo.into \subseteq Indices
  /\ saved \in [learned : 0 .. CountMax, manual : SUBSET Indices]
  /\ Cardinality({b \in builds : b.chained}) <= 1
  /\ overlapped \in BOOLEAN

\* Once the builds of a light are done, and none ran beside another, its
\* segment channels are exactly those its count and its manual list call for:
\* every change of either is followed by a build that knows it, also when the
\* count changed between the call of a build and its turn, and after a restart
\* in the middle of one.
TreeMatchesDevice ==
  builds = {} /\ ~overlapped => tree = ValidIndices(manual, Effective)

\* The datapoints of a real segment are given up because of a push only when the app's
\* snapshot masks say the same, or when the push hid every segment that goes: each was
\* off and black, or its packet was lost from a report that looked complete. A segment
\* the push reported lit, one a cut end left out and one at a guessed end all stay
\* (device-manager.ts, mayLowerSegmentCount).
ShrinkNeedsEvidence ==
  learned' < Current /\ learned' # learned /\ origin' = "push"
    => mask' = learned' \/ learned' .. strip.length - 1 \subseteq echo'.hidden

\* What a status push reports, and what a user's batch command sent, is written
\* into datapoints that exist, whatever became of the count and the manual list
\* before (handlers/device-events.ts, writeSegmentEcho).
EchoLandsInTree ==
  echo.by \in {"push", "user"} /\ builds = {} /\ ~overlapped => echo.into \subseteq tree

\* A count or a list the cache file does not have yet is on its way there: only
\* a build that ends in the save is between them, so only a stop in the middle
\* of one loses it.
UnsavedWhileBuilding ==
  saved # Saved => \E b \in builds : b.keeps

\* Refuted: the tree after builds that overlap (main.ts:845 and
\* state-change-router.ts:322 do not go through runDeviceBuild).
TreeMatchesAlways ==
  builds = {} => tree = ValidIndices(manual, Effective)

\* Refuted: the same of a batch the adapter sends by itself, on a cut strip: the
\* physical count does not know which segments are cut out.
EchoAlwaysLands == builds = {} /\ ~overlapped => echo.into \subseteq tree

\* Refuted: a report that lacks its first packet is read with the wrong layout.
NeverBeyondTheStrip == origin = "push" => learned <= strip.length

\* Refuted: a real segment goes only when the masks say so. A complete push without a
\* guess needs no second witness (device-manager.ts:1930-1935).
RealSegmentsStay ==
  [][learned' < Current /\ learned' # learned /\ origin' = "push" /\ learned' < strip.length
       => mask' = learned']_segVars

\* Count, manual list, tree, cache and echo of a strip agree, and a push takes away
\* only segments that it hid or that the masks do not know.
SegmentsAgree ==
  /\ [](SegTypeOK /\ TreeMatchesDevice /\ EchoLandsInTree /\ UnsavedWhileBuilding)
  /\ [][ShrinkNeedsEvidence]_segVars
=============================================================================
