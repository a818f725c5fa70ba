----------------------------- MODULE MCSegments -----------------------------
(***************************************************************************)
(* What the admin page and the tree do to the segments and snapshots of a  *)
(* light, checked side by side: the segment list and its tree, the         *)
(* detection wizard, the local snapshots.  The three share no variable, so *)
(* each behaviour runs one of them and the others rest in one of their     *)
(* initial states.                                                         *)
(*                                                                         *)
(* Three strips: three slots a packet and a capability that is too low; a  *)
(* capability beyond the protocol; a model with a quirk below its length.  *)
(***************************************************************************)
EXTENDS SegmentTree, SegmentWizard, SnapshotStore

MCStrips == {[length |-> 5, layout |-> 3, quirk |-> 0, caps |-> 3],
             [length |-> 5, layout |-> 4, quirk |-> 0, caps |-> 6],
             [length |-> 4, layout |-> 4, quirk |-> 3, caps |-> 4]}
MCLists  == {{0, 2}, {0, 1, 2, 3}}
MCListA == <<[name |-> "a", save |-> 0]>>
MCListB == <<[name |-> "b", save |-> 0]>>
MCOld == {MCListA, MCListB}

VARIABLE part

allVars == <<part, segVars, wizardVars, storeVars>>

\* Parts that rest do so in one state; each old store holds its own list or none.
AtRest ==
  /\ part # "tree" => strip.quirk = 3
  /\ part # "snapshots" => NothingLeft
  /\ oldFiles["root"] \in {Empty, MCListA} /\ oldFiles["dataDir"] \in {Empty, MCListB}

MCInit ==
  /\ part \in {"tree", "wizard", "snapshots"}
  /\ SegInit /\ WizardInit /\ StoreInit
  /\ AtRest

\* Bound: a strip whose capability names too many segments has one build at a time.
OneByOne == strip.caps > CountMax => Cardinality(builds') <= 1

\* Bound: three pushes, edits and other writes together.
ThreeInAll == pushes' + edits' <= 3

\* Bound: two writes of the device object under way.
TwoWrites == Len(persists') <= 2

MCNext ==
  /\ part' = part
  /\ \/ part = "tree" /\ SegNext /\ OneByOne /\ ThreeInAll /\ UNCHANGED <<wizardVars, storeVars>>
     \/ part = "wizard" /\ WizardNext /\ UNCHANGED <<segVars, storeVars>>
     \/ part = "snapshots" /\ StoreNext /\ TwoWrites /\ UNCHANGED <<segVars, wizardVars>>

\* The fairness of the wizard, when it is the part that runs.
MCFairness ==
  /\ \A m \in Message :
       /\ WF_wizardVars(part = "wizard" /\ (Captured(m) \/ CaptureFails(m)))
       /\ WF_wizardVars(part = "wizard"
                        /\ (Prepared(m) \/ Flashed(m) \/ StartRefused(m) \/ AnswerRefused(m)))
       /\ WF_wizardVars(part = "wizard" /\ (Applied(m) \/ ApplyFails(m)))
  /\ \A h \in Handler : WF_wizardVars(part = "wizard" /\ Restored(h))
  /\ WF_wizardVars(part = "wizard" /\ IdleFires)

MCSpec == MCInit /\ [][MCNext]_allVars /\ MCFairness
=============================================================================
