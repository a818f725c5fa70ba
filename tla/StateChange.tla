---------------------------- MODULE StateChange -----------------------------
(***************************************************************************)
(* What the user writes to the datapoints of one light, from onStateChange *)
(* (state-change-router.ts) over the channel the command goes out on       *)
(* (command-router.ts) to the confirmation in the object tree, and what    *)
(* the light itself reports meanwhile (device-events.ts).                  *)
(*                                                                         *)
(* A handler gives up control at every await: while one waits for Govee or *)
(* reads the tree, others run, the user writes again and reports arrive.   *)
(* A value is 0 ("---", off) or positive.  Colour, brightness and colour   *)
(* temperature take the way of "power"; DIY scenes and cloud snapshots the *)
(* way of "scene"; every capability without a command of its own that of   *)
(* "generic".  Retries and the order of cloud calls: module CommandSend.   *)
(***************************************************************************)
EXTENDS Integers, FiniteSets

CONSTANTS MaxWrites,    \* bound: handlers in flight, and writes of the user in all
          MaxValue,     \* the values of a datapoint: 0..MaxValue
          MaxEvents     \* bound: switches by the app, changes of the channels

ASSUME ChangeAssumption ==
    MaxWrites \in Nat /\ MaxValue \in Nat \ {0} /\ MaxEvents \in Nat

Datapoint == {"power", "scene", "music", "sensitivity", "local", "segment", "generic"}
MODE_DROPDOWNS == {"scene", "music", "local"}
Writer == 1..MaxWrites
ReportReset == 0                        \* the reset a report starts has no writer
Job == Writer \cup {ReportReset}
Value == 0..MaxValue
Switch == {0, 1}

VARIABLES
    shown,        \* the datapoints in the object tree: value and ack
    paths,        \* the channels of this light
    pushReports,  \* fields a status push of this light has carried
    job,          \* handlers of writes and the reset a report started
    light,        \* the light itself: on or off
    believed,     \* device.state.power: what the last report said
    events,       \* switches by the app and changes of the channels left (bound)
    left,         \* history: what left the adapter without an error
    reported      \* history: what the light reported of its power

changeVars == <<shown, paths, pushReports, job, light, believed, events, left, reported>>

Idle == [at |-> "idle", dp |-> "power", val |-> 0, todo |-> {}, zero |-> {}]
Via == {"lan", "broker", "cloud"}

ChangeTypeOK ==
    /\ shown \in [Datapoint -> [val : Value, ack : BOOLEAN]]
    /\ paths \in [lan : BOOLEAN, broker : BOOLEAN, cloud : BOOLEAN]
    /\ pushReports \subseteq {"power"}
    /\ job \in [Job -> [at : {"idle", "begin", "read", "settle", "out", "reset", "over"},
                        dp : Datapoint, val : Value,
                        todo : SUBSET MODE_DROPDOWNS, zero : SUBSET MODE_DROPDOWNS]]
    /\ \A h \in Job : job[h].at \notin {"reset"} => job[h].todo \cup job[h].zero = {}
    /\ light \in Switch /\ believed \in Switch
    /\ events \in 0..MaxEvents
    /\ left \subseteq Datapoint \X Value \X Via
    /\ reported \subseteq Switch

ChangeInit ==
    /\ shown = [d \in Datapoint |-> [val |-> 0, ack |-> TRUE]]
    /\ paths \in [lan : BOOLEAN, broker : BOOLEAN, cloud : BOOLEAN]
    /\ pushReports = {}
    /\ job = [h \in Job |-> Idle]
    /\ light = 0 /\ believed = 0
    /\ events = MaxEvents
    /\ left = {}
    /\ reported = {0}

(***************************************************************************)
(* The write and its handler.                                              *)
(***************************************************************************)

\* ioBroker stores what the user writes at once, unconfirmed; the handler runs.
UserWrites(h, d, v) ==
    /\ job[h].at = "idle" /\ \A g \in 1..h - 1 : job[g] # Idle
    /\ d = "power" => v \in Switch
    /\ d \in {"sensitivity", "segment", "generic"} => v # 0
    /\ shown' = [shown EXCEPT ![d] = [val |-> v, ack |-> FALSE]]
    /\ job' = [job EXCEPT ![h] = [Idle EXCEPT !.at = "begin", !.dp = d, !.val = v]]
    /\ UNCHANGED <<paths, pushReports, light, believed, events, left, reported>>

\* Nothing but the job changes.
Quiet == UNCHANGED <<shown, paths, pushReports, light, believed, events, left, reported>>

Moves(h, to) == job' = [job EXCEPT ![h].at = to] /\ Quiet

\* A handler that is through; its slot is not used again (one write, one handler).
Ended(h) == [Idle EXCEPT !.at = IF h = ReportReset THEN "idle" ELSE "over"]

\* A command that is refused: one warning, no ack.
Refused(h) == job' = [job EXCEPT ![h] = Ended(h)] /\ Quiet

ConfirmedBySend(d, via) == IF d = "power" /\ paths.lan THEN "report" ELSE "send"   \* mutant

\* Where the light reports a value, only its report confirms it; a publish has
\* no receipt.
confirmationFor(d, via) ==
    IF d = "power" /\ (via = "broker" \/ paths.lan \/ (paths.broker /\ "power" \in pushReports))
    THEN "report" ELSE "send"

\* Mutants: a mode leaves the others alone; every other datapoint is reset.
ResetOnPowerOnly(d, v) == IF d = "power" /\ v = 0 THEN MODE_DROPDOWNS ELSE {}
ResetEverything(d, v) == Datapoint \ {d}

\* resetAfterWrite: power off resets every mode, a mode the others.
ResetSet(d, v) ==
    IF d = "power" /\ v = 0 THEN MODE_DROPDOWNS
    ELSE IF d \in MODE_DROPDOWNS THEN MODE_DROPDOWNS \ {d} ELSE {}

\* ackUnlessReported, right after the send; a local snapshot is acked last.
ShownAfterSend(d, v, via) ==
    IF d # "local" /\ confirmationFor(d, via) = "send"
    THEN [shown EXCEPT ![d] = [val |-> v, ack |-> TRUE]] ELSE shown

\* The command left without an error (the light takes it, or it is lost) and
\* the handler goes on: it acks, and resets the mode dropdowns.  The way the command
\* went is read from the router's memory right after it is noted there.
Sent(h, via) ==
    LET d == job[h].dp
        v == job[h].val
    IN  /\ left' = left \cup {<<d, v, via>>}
        /\ light' \in IF d = "power" THEN {light, v} ELSE {light}
        /\ shown' = ShownAfterSend(d, v, via)
        /\ job' = IF ResetSet(d, v) = {} THEN [job EXCEPT ![h] = Ended(h)]
                  ELSE [job EXCEPT ![h].at = "reset", ![h].todo = ResetSet(d, v)]
        /\ UNCHANGED <<paths, pushReports, believed, events, reported>>

\* The dropdown's "---" sends nothing and is acked; a key that is not in the
\* dropdown, or a snapshot that is gone, is refused.
Selection(h) ==
    /\ job[h].at = "begin" /\ job[h].dp \in MODE_DROPDOWNS
    /\ \/ /\ job[h].val = 0
          /\ shown' = [shown EXCEPT ![job[h].dp] = [val |-> 0, ack |-> TRUE]]
          /\ job' = [job EXCEPT ![h] = Ended(h)]
          /\ UNCHANGED <<paths, pushReports, light, believed, events, left, reported>>
       \/ job[h].val # 0 /\ Refused(h)

Ready(h, ds) == job[h].at = "begin" /\ job[h].dp \in ds /\ (job[h].dp \in MODE_DROPDOWNS => job[h].val # 0)

\* resolveTransport: LAN first, then the broker for the light commands, then the
\* Cloud.  The first command of a snapshot is the light's power.
resolveTransport(d) ==
    IF paths.lan THEN "lan"
    ELSE IF d \in {"power", "local"} /\ paths.broker THEN "broker"
    ELSE IF paths.cloud THEN "cloud" ELSE "skip"

Dispatched(h, d, to) == Ready(h, {"power", "scene", "local", "segment"}) /\ job[h].dp = d /\ resolveTransport(d) = to

SkipReturns(h, d) == Dispatched(h, d, "skip") /\ Sent(h, "skip")             \* mutant

\* A skip throws, whatever the command (describeSkip).
Skip(h, d) == Dispatched(h, d, "skip") /\ Refused(h)

\* To the Cloud when the light has it, else the command is refused.
ViaCloud(h) == IF paths.cloud THEN Moves(h, "out") ELSE Refused(h)

\* A scene whose packet is not known, or of a strip without segments, goes over
\* the Cloud; a segment waits until the light is in colour mode.
DispatchLan(h, d) ==
    /\ Dispatched(h, d, "lan")
    /\ \/ d # "segment" /\ Sent(h, "lan")
       \/ d = "scene" /\ ViaCloud(h)
       \/ d = "segment" /\ Moves(h, "settle")

SegmentLeaves(h) == job[h].at = "settle" /\ Sent(h, "lan")

\* The publish may be refused after all; then the Cloud is next.
DispatchBroker(h, d) == Dispatched(h, d, "broker") /\ (Sent(h, "broker") \/ ViaCloud(h))

DispatchCloud(h, d) == Dispatched(h, d, "cloud") /\ Moves(h, "out")

\* sendCapabilityCommand: the Cloud or nothing.
SendCapability(h) == Ready(h, {"generic"}) /\ ViaCloud(h)

\* sendMusicCommand reads the sibling datapoints first; without a mode nothing goes out.
ReadMusic(h) ==
    /\ Ready(h, {"music", "sensitivity"})
    /\ IF job[h].dp = "sensitivity" /\ shown["music"].val = 0 THEN Refused(h) ELSE Moves(h, "read")

\* The LAN packet carries the mode and no sensitivity.
SendMusic(h) ==
    /\ job[h].at = "read"
    /\ IF ~paths.lan THEN ViaCloud(h)
       ELSE IF job[h].dp = "music" THEN Sent(h, "lan") ELSE Refused(h)

CloudSucceeds(h) == job[h].at = "out" /\ Sent(h, "cloud")

\* The send fails in some way; what failed may have arrived.
CloudFails(h) ==
    /\ job[h].at = "out"
    /\ job' = [job EXCEPT ![h] = Ended(h)]
    /\ light' \in IF job[h].dp = "power" THEN {light, job[h].val} ELSE {light}
    /\ UNCHANGED <<shown, paths, pushReports, believed, events, left, reported>>

(***************************************************************************)
(* The reset of the mode dropdowns: all are read at once, those that are   *)
(* set are written, in any order with everything else.                     *)
(***************************************************************************)

ResetReads(h, d) ==
    /\ d \in job[h].todo
    /\ job' = [job EXCEPT ![h].todo = @ \ {d}, ![h].zero = IF shown[d].val # 0 THEN @ \cup {d} ELSE @]
    /\ Quiet

ResetWrites(h, d) ==
    /\ d \in job[h].zero
    /\ shown' = [shown EXCEPT ![d] = [val |-> 0, ack |-> TRUE]]
    /\ job' = [job EXCEPT ![h].zero = @ \ {d}]
    /\ UNCHANGED <<paths, pushReports, light, believed, events, left, reported>>

\* The dropdown of the local snapshots is acked last.
ResetEnds(h) ==
    /\ job[h].at = "reset" /\ job[h].todo \cup job[h].zero = {}
    /\ shown' = IF h # ReportReset /\ job[h].dp = "local"
                THEN [shown EXCEPT !["local"] = [val |-> job[h].val, ack |-> TRUE]] ELSE shown
    /\ job' = [job EXCEPT ![h] = Ended(h)]
    /\ UNCHANGED <<paths, pushReports, light, believed, events, left, reported>>

(***************************************************************************)
(* The light and its reports.                                              *)
(***************************************************************************)

AppSwitches ==
    /\ events > 0
    /\ events' = events - 1
    /\ light' = 1 - light
    /\ UNCHANGED <<shown, paths, pushReports, job, believed, left, reported>>

OnlyChanges(old, new, was) == IF new = was THEN old ELSE [val |-> new, ack |-> TRUE]   \* mutant

\* onDeviceStateUpdate writes what was reported, also when it is what was believed.
Mirrored(old, new, was) == [val |-> new, ack |-> TRUE]

Reports(resets) ==
    /\ resets => job[ReportReset].at = "idle"
    /\ shown' = [shown EXCEPT !["power"] = Mirrored(@, light, believed)]
    /\ believed' = light
    /\ reported' = reported \cup {light}
    /\ job' = IF resets THEN [job EXCEPT ![ReportReset] = [Idle EXCEPT !.at = "reset", !.todo = MODE_DROPDOWNS]]
              ELSE job
    /\ UNCHANGED <<paths, light, events, left>>

\* handleLanStatus: the poll and the read-back after a command repeat the power;
\* only its change resets the modes.
LanStatus ==
    /\ paths.lan
    /\ Reports(light = 0 /\ believed # 0)
    /\ UNCHANGED pushReports

\* handleMqttStatus: a push names what this light reports from now on.
StatusPush ==
    /\ paths.broker
    /\ pushReports' = {"power"}
    /\ Reports(light = 0)

LanFound ==
    /\ ~paths.lan /\ events > 0
    /\ events' = events - 1
    /\ paths' = [paths EXCEPT !.lan = TRUE]
    /\ UNCHANGED <<shown, pushReports, job, light, believed, left, reported>>

BrokerChanges ==
    /\ events > 0
    /\ events' = events - 1
    /\ paths' = [paths EXCEPT !.broker = ~@]
    /\ UNCHANGED <<shown, pushReports, job, light, believed, left, reported>>

Handler(h) ==
    \/ Selection(h)
    \/ \E d \in Datapoint : Skip(h, d) \/ DispatchLan(h, d) \/ DispatchBroker(h, d) \/ DispatchCloud(h, d)
    \/ SegmentLeaves(h) \/ SendCapability(h) \/ ReadMusic(h) \/ SendMusic(h)
    \/ CloudSucceeds(h) \/ CloudFails(h)

Resets(h) == ResetEnds(h) \/ \E d \in MODE_DROPDOWNS : ResetReads(h, d) \/ ResetWrites(h, d)

ChangeNext ==
    \/ \E h \in Writer, d \in Datapoint, v \in Value : UserWrites(h, d, v)
    \/ \E h \in Writer : Handler(h)
    \/ \E h \in Job : Resets(h)
    \/ AppSwitches \/ LanStatus \/ StatusPush \/ LanFound \/ BrokerChanges

\* Handlers run, Govee answers or the send times out; the poll of a light that
\* the LAN carries is answered again and again.
ChangeFairness ==
    /\ \A h \in Writer : WF_changeVars(Handler(h))
    /\ \A h \in Job : WF_changeVars(Resets(h))
    /\ SF_changeVars(LanStatus)

ChangeSpec == ChangeInit /\ [][ChangeNext]_changeVars /\ ChangeFairness

(***************************************************************************)
(* Properties.                                                             *)
(***************************************************************************)

\* What a datapoint shows as confirmed has left the adapter without an error,
\* or the light said so: on none of the ways a command can be refused, skipped
\* or lost is the write confirmed (principle 5 of the code).
ConfirmedLeft ==
    \A d \in Datapoint : LET s == shown[d] IN
        (s.ack /\ s.val # 0) => \/ \E via \in Via : <<d, s.val, via>> \in left
                                \/ d = "power" /\ s.val \in reported

\* A publish to the account broker has no receipt and a datagram none either:
\* a power value that went out only on these ways stands unconfirmed until the
\* light has reported it (GV-13, K18).
ConfirmedByReport ==
    shown["power"].ack => shown["power"].val \in reported \/ <<"power", shown["power"].val, "cloud">> \in left

AtRest == \A h \in Job : job[h].at \in {"idle", "over"}

\* However the handlers of quick writes interleave their acks and their resets:
\* once all are through, at most one of scene and music is shown as active.
OneModeShown ==
    AtRest => ~(shown["scene"].ack /\ shown["music"].ack /\ shown["scene"].val # 0 /\ shown["music"].val # 0)

\* Refuted: the same for the dropdown of the local snapshots, which is acked
\* after the others are reset.
OneModeShownAtAll ==
    AtRest => Cardinality({d \in MODE_DROPDOWNS : shown[d].ack /\ shown[d].val # 0}) <= 1

\* A light with a LAN path: once nobody writes or switches any more, the tree
\* shows what the light does, lost commands included, and shows it confirmed.
TreeTellsTheTruth ==
    <>[](paths.lan => shown["power"] = [val |-> light, ack |-> TRUE])

\* A write is confirmed on the evidence its channel can give, and one mode is
\* shown.
ConfirmedIsTrue ==
  /\ ChangeTypeOK
  /\ ConfirmedLeft
  /\ ConfirmedByReport
  /\ OneModeShown
=============================================================================
