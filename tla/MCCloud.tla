------------------------------- MODULE MCCloud -------------------------------
(***************************************************************************)
(* What the adapter hears of Govee, checked side by side: the device list  *)
(* and its loop, the Cloud-events channel, the libraries, the reachability *)
(* of one device and the question after a failed command.  The five share  *)
(* no variable, so each behaviour runs one of them and the others rest in  *)
(* their initial state.                                                    *)
(***************************************************************************)
EXTENDS CloudConnection, EventChannel, LibraryLoad, Reachability, StatusAsk

VARIABLE part

Part == {"list", "events", "libraries", "standing", "ask"}
allVars == <<part, cloudVars, eventVars, loadVars, reachVars, askVars>>

\* A part at rest begins in one state, not in every one of its initial states.
AtRest ==
  /\ part # "standing" => kind = "light" /\ ~dev.lanSeen /\ ~dev.raw
  /\ part # "ask" => ~budgeted /\ ~requester /\ ~unconfirmed

MCInit ==
  /\ part \in Part
  /\ CloudInit /\ EventInit /\ LoadInit /\ ReachInit /\ AskInit
  /\ AtRest

\* Bound: the scene list of one light only fails and is asked for again.
ScenesOfOthersCome ==
  \A d \in Light \ {CHOOSE l \in Light : TRUE}, r \in LoadRun :
    loadJob'[<<d, r>>].tries = 0 /\ "scenesFailed" \notin loadJob'[<<d, r>>].track

MCNext ==
  /\ part' = part
  /\ \/ part = "list" /\ CloudNext /\ UNCHANGED <<eventVars, loadVars, reachVars, askVars>>
     \/ part = "events" /\ EventNext /\ UNCHANGED <<cloudVars, loadVars, reachVars, askVars>>
     \/ part = "libraries" /\ LoadNext /\ ScenesOfOthersCome /\ UNCHANGED <<cloudVars, eventVars, reachVars, askVars>>
     \/ part = "standing" /\ ReachNext /\ UNCHANGED <<cloudVars, eventVars, loadVars, askVars>>
     \/ part = "ask" /\ AskNext /\ UNCHANGED <<cloudVars, eventVars, loadVars, reachVars>>

\* The fairness each module states, of the part that runs.
MCFairness ==
  /\ WF_cloudVars(part = "list" /\ RetryFires)
  /\ SF_cloudVars(part = "list" /\ RetryAnswer([contact |-> "ok", result |-> "ok"]))
  /\ WF_eventVars(part = "events" /\ Connect) /\ WF_eventVars(part = "events" /\ Connack)
  /\ WF_eventVars(part = "events" /\ SubscribeAnswer) /\ WF_eventVars(part = "events" /\ Close)
  /\ WF_eventVars(part = "events" /\ EventTick)
  /\ \A r \in LoadRun :
       /\ WF_loadVars(part = "libraries" /\ Fetching(r))
       /\ \A d \in Light : WF_loadVars(part = "libraries" /\ RunStep(d, r))
  /\ \A d \in Light, s \in Slot : WF_loadVars(part = "libraries" /\ JobStep(d, s))
  /\ \A d \in Light : WF_loadVars(part = "libraries" /\ BearerStep(d))
  /\ WF_loadVars(part = "libraries" /\ enableBearerFollowUps)
  /\ WF_reachVars(part = "standing" /\ Round) /\ WF_reachVars(part = "standing" /\ TimePasses)
  /\ WF_reachVars(part = "standing" /\ AppListFails)
  /\ WF_askVars(part = "ask" /\ requestStaleStatuses) /\ WF_askVars(part = "ask" /\ CloudRead)
  /\ WF_askVars(part = "ask" /\ IntervalPasses)
  /\ \A t \in [unconfirmed : BOOLEAN, before : Stamp] : WF_askVars(part = "ask" /\ TimerFires(t))

MCSpec == MCInit /\ [][MCNext]_allVars /\ MCFairness

\* What is owed comes: a device list that failed is loaded once Govee answers, the
\* events arrive, a token that came late is used, a silent device goes grey, and a
\* failed command is asked about.
WhatIsOwedComes ==
  ListIsLoaded /\ EventsArrive /\ TokenIsUsed /\ SilenceIsShown /\ FailureIsAskedAbout
=============================================================================
