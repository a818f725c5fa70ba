------------------------------ MODULE MCWrites ------------------------------
(***************************************************************************)
(* What the user asks of the adapter, checked side by side: writes to one  *)
(* light, writes to one app group, reports for the admin page.  The three  *)
(* share no variable, so each behaviour runs one of them and the others    *)
(* rest in an initial state.                                               *)
(***************************************************************************)
EXTENDS StateChange, GroupFanout, ReportJobs, TLC

VARIABLE part

allVars == <<part, changeVars, groupVars, reportVars>>

\* Bound: the channels a light starts with; LanFound and BrokerChanges reach others.
Channels == {[lan |-> TRUE, broker |-> FALSE, cloud |-> TRUE],
             [lan |-> FALSE, broker |-> FALSE, cloud |-> TRUE],
             [lan |-> FALSE, broker |-> FALSE, cloud |-> FALSE]}

\* Bound: a member has music and knows the scene, or neither.
Members == {[lan |-> l, cloud |-> c, music |-> m, scene |-> m] : l, c, m \in BOOLEAN}

\* One device of the reports; which one does not matter.
First == CHOOSE d \in Reported : TRUE

\* What a part starts from; at rest it begins in one state, not in every one of its
\* initial states.
Starts ==
  /\ IF part = "light" THEN paths \in Channels ELSE paths = [lan |-> FALSE, broker |-> FALSE, cloud |-> TRUE]
  /\ IF part = "group" THEN is \in [Member -> Members]
     ELSE ~broker /\ is = [m \in Member |-> [lan |-> TRUE, cloud |-> FALSE, music |-> TRUE, scene |-> TRUE]]
  /\ IF part = "report" THEN \E c \in Card : card[c].dev = First ELSE \A c \in Card : card[c].dev = First

MCInit ==
  /\ part \in {"light", "group", "report"}
  /\ ChangeInit /\ GroupInit /\ ReportInit
  /\ Starts

MCNext ==
  /\ part' = part
  /\ \/ part = "light" /\ ChangeNext /\ UNCHANGED <<groupVars, reportVars>>
     \/ part = "group" /\ GroupNext /\ UNCHANGED <<changeVars, reportVars>>
     \/ part = "report" /\ ReportNext /\ UNCHANGED <<changeVars, groupVars>>

\* The cards differ in nothing but their names.
Cards == Permutations(Card)

MCSpec == MCInit /\ [][MCNext]_allVars
=============================================================================
