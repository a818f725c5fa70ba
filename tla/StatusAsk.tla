----------------------------- MODULE StatusAsk ------------------------------
(***************************************************************************)
(* After a command failed, what the user wished stands unconfirmed in the  *)
(* datapoint, and the device is asked for its real state once: over the    *)
(* account broker, or by a cloud read where no status request can ask it   *)
(* (device-manager.ts).  One device without a LAN path.                    *)
(*                                                                         *)
(* A request goes out from a timer, seconds after it was noted; until then *)
(* the broker may go, the next command may fail.  Times are kept as what   *)
(* the code compares: is the last request younger than the interval        *)
(* (recent), is it younger than the failure (after).                       *)
(***************************************************************************)
EXTENDS Integers, FiniteSets

CONSTANT MaxAsk      \* bound: failures of commands, and changes of the broker

ASSUME AskAssumption == MaxAsk \in Nat

Stamp == [recent : BOOLEAN, after : BOOLEAN]

VARIABLES
    budgeted,     \* an appliance or a sensor: it pays for its calls from its own day
    requester,    \* a status requester is set (account credentials)
    topic,        \* the device's broker topic is known
    broker,       \* the account broker is connected
    unconfirmed,  \* device.unconfirmedSince is set
    lastAsk,      \* device.lastStatusRequestAt
    timers,       \* requests noted and not sent: what they found
    tried,        \* a cloud read was tried within the attempt floor
    flips, fails, \* bounds
    asked         \* history: a request or a read went out since the last failure

askVars == <<budgeted, requester, topic, broker, unconfirmed, lastAsk, timers, tried, flips, fails,
             asked>>

\* Types.
AskTypeOK ==
    /\ {budgeted, requester, topic, broker, unconfirmed, tried, asked} \subseteq BOOLEAN
    /\ lastAsk \in Stamp
    /\ timers \subseteq [unconfirmed : BOOLEAN, before : Stamp]
    /\ flips \in 0..MaxAsk /\ fails \in 0..MaxAsk

AskInit ==
    /\ budgeted \in BOOLEAN /\ requester \in BOOLEAN
    /\ broker = FALSE /\ topic = FALSE
    /\ unconfirmed \in BOOLEAN                   \* restored from the cache
    /\ lastAsk = [recent |-> FALSE, after |-> FALSE]
    /\ timers = {} /\ tried = FALSE
    /\ flips = MaxAsk /\ fails = MaxAsk
    /\ asked = FALSE

NoteStays(s) == s                                                    \* mutant

NotAfter(s) == [s EXCEPT !.after = FALSE]

\* onCommandResult.
CommandFails ==
    /\ fails > 0 /\ fails' = fails - 1
    /\ unconfirmed' = TRUE /\ asked' = FALSE
    /\ lastAsk' = NotAfter(lastAsk)
    /\ timers' = {[t EXCEPT !.before = NotAfter(@)] : t \in timers}
    /\ UNCHANGED <<budgeted, requester, topic, broker, tried, flips>>

CommandSucceeds ==
    /\ unconfirmed /\ fails > 0
    /\ unconfirmed' = FALSE
    /\ UNCHANGED <<budgeted, requester, topic, broker, lastAsk, timers, tried, flips, fails, asked>>

\* A failure not asked about yet passes both gates.
Unasked == unconfirmed /\ ~lastAsk.after

\* requestStaleStatuses: after each account list, and when the broker connects.
requestStaleStatuses ==
    /\ requester /\ topic
    /\ Unasked \/ ~lastAsk.recent
    /\ timers' = timers \cup {[unconfirmed |-> Unasked, before |-> lastAsk]}
    /\ lastAsk' = [recent |-> TRUE, after |-> TRUE]
    /\ UNCHANGED <<budgeted, requester, topic, broker, unconfirmed, tried, flips, fails, asked>>

KeepsNote(t) == lastAsk                                              \* mutant

\* An unsent request about a failure is noted as not made.
Unsent(t) == IF t.unconfirmed THEN t.before ELSE lastAsk

TimerFires(t) ==
    /\ t \in timers
    /\ timers' = timers \ {t}
    /\ IF broker THEN asked' = TRUE /\ UNCHANGED lastAsk
       ELSE lastAsk' = Unsent(t) /\ UNCHANGED asked
    /\ UNCHANGED <<budgeted, requester, topic, broker, unconfirmed, tried, flips, fails>>

\* onBrokerReadBack, after a command over the broker.
ReadBack ==
    /\ requester /\ topic /\ broker
    /\ lastAsk' = [recent |-> TRUE, after |-> TRUE]
    /\ asked' = TRUE
    /\ UNCHANGED <<budgeted, requester, topic, broker, unconfirmed, timers, tried, flips, fails>>

\* handleMqttStatus with a state: an answer, or a push of the device's own.
StatusArrives ==
    /\ broker
    /\ unconfirmed' = FALSE
    /\ UNCHANGED <<budgeted, requester, topic, broker, lastAsk, timers, tried, flips, fails, asked>>

NoAccount == ~requester                                              \* mutant

\* No status request can ask the device.
NotAskable == ~(requester /\ topic)

\* refreshExpiringReachability: the read corrects, or fails and is tried again later.
\* A device with an allowance of its own is never read here.
CloudRead ==
    /\ ~budgeted
    /\ unconfirmed /\ NotAskable /\ ~tried
    /\ tried' = TRUE /\ asked' = TRUE
    /\ unconfirmed' \in BOOLEAN
    /\ UNCHANGED <<budgeted, requester, topic, broker, lastAsk, timers, flips, fails>>

TopicLearned ==
    /\ requester /\ ~topic
    /\ topic' = TRUE
    /\ UNCHANGED <<budgeted, requester, broker, unconfirmed, lastAsk, timers, tried, flips, fails, asked>>

BrokerTurns ==
    /\ requester /\ flips > 0 /\ flips' = flips - 1
    /\ broker' = ~broker
    /\ UNCHANGED <<budgeted, requester, topic, unconfirmed, lastAsk, timers, tried, fails, asked>>

\* Ten minutes, in which the tick and its timers ran.
IntervalPasses ==
    /\ lastAsk.recent \/ tried
    /\ timers = {} /\ ~(requester /\ topic /\ broker /\ Unasked)
    /\ lastAsk' = [lastAsk EXCEPT !.recent = FALSE] /\ tried' = FALSE
    /\ timers' = {[t EXCEPT !.before.recent = FALSE] : t \in timers}
    /\ UNCHANGED <<budgeted, requester, topic, broker, unconfirmed, flips, fails, asked>>

AskNext ==
    \/ CommandFails \/ CommandSucceeds \/ requestStaleStatuses
    \/ \E t \in [unconfirmed : BOOLEAN, before : Stamp] : TimerFires(t)
    \/ ReadBack \/ StatusArrives \/ CloudRead
    \/ TopicLearned \/ BrokerTurns \/ IntervalPasses

\* The 2-minute tick and the timers run.
AskFairness ==
    /\ WF_askVars(requestStaleStatuses) /\ WF_askVars(CloudRead) /\ WF_askVars(IntervalPasses)
    /\ \A t \in [unconfirmed : BOOLEAN, before : Stamp] : WF_askVars(TimerFires(t))

AskSpec == AskInit /\ [][AskNext]_askVars /\ AskFairness

\* A failure is asked about within the interval, not after it: neither a
\* request made shortly before it nor one the broker did not take stands in for
\* the one that is due (issue #51).
AskedWithinInterval ==
    IntervalPasses => (broker /\ topic /\ unconfirmed => asked)

\* Every failed command is asked about or settled: once failures and broker
\* calm down no device stands unconfirmed that was not asked since its failure,
\* over the broker while it is up; where no request can ask, a light by a read.
FailureIsAskedAbout ==
    <>[](unconfirmed /\ (IF NotAskable THEN ~budgeted ELSE broker) => asked)

\* Refuted: where no status request can ask the device, a read of the Cloud is the
\* correction (device-manager.ts:2404-2406).  An appliance or a sensor is skipped
\* before it is looked at (:2395-2397): with an API key only nothing asks it.
NobodyIsForgotten ==
    <>[](unconfirmed /\ NotAskable => asked)

\* A failure that counts as asked about has its request, sent or still noted, and
\* no noted request stands for a failure that came after the one before it.
NotedIsAsked ==
    /\ unconfirmed /\ lastAsk.after => asked \/ timers # {}
    /\ \A t \in timers : t.unconfirmed => ~t.before.after

\* An unconfirmed command is asked about within the interval, however sends and
\* questions cross.
FailureIsFollowedUp ==
  /\ [](AskTypeOK /\ NotedIsAsked)
  /\ [][AskedWithinInterval]_askVars
=============================================================================
