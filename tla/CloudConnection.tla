--------------------------- MODULE CloudConnection ---------------------------
(***************************************************************************)
(* Whether the Govee Cloud is reachable, and the loop that asks again for a *)
(* device list that failed: src/lib/handlers/cloud-retry-handler.ts over    *)
(* cloud-retry.ts and cloud-outage.ts.  Start, retry, "sync devices" button *)
(* and every ordinary Cloud call report into the same few fields.  Each     *)
(* report is synchronous, so the fields are one record and each function of *)
(* the source is an operator from record to record.                         *)
(***************************************************************************)
EXTENDS Naturals

Reason == {"auth-failed", "rate-limited", "transient"}

\* What one Cloud call says to the contact hook: accepted, key rejected, not
\* reached, or nothing (a 429, an unreadable answer).
Contact == {"ok", "auth-failed", "unreachable", "none"}

\* A device list call: what it says to the hook, and what it means for the list.
\* An empty list of an account known to have devices is retried once.
ListAnswer ==
  {[contact |-> "ok", result |-> "ok"],
   [contact |-> "ok", result |-> "transient"],
   [contact |-> "auth-failed", result |-> "auth-failed"],
   [contact |-> "unreachable", result |-> "transient"],
   [contact |-> "none", result |-> "rate-limited"],
   [contact |-> "none", result |-> "transient"]}

EmptyList == [contact |-> "ok", result |-> "transient"]

VARIABLES
  cloud,                 \* the fields, see CloudTypeOK
  start,                 \* the start's list call: "new", "asked", "settled"
  retry,                 \* the loop's list call: "idle" or "asked"
  manual,                \* the button's list call: "idle" or "asked"
  emptyRetried,          \* emptyCloudListRetried
  unloading

cloudVars == <<cloud, start, retry, manual, emptyRetried, unloading>>

CloudTypeOK ==
  /\ cloud \in [was : BOOLEAN,        \* cloudWasConnected
                shown : BOOLEAN,      \* cloudConnectedShown
                datapoint : BOOLEAN,  \* info.cloudConnected
                first : {"none", "recent", "old"},  \* the outage's first failure
                confirmed : BOOLEAN,  \* the outage is confirmed
                armed : BOOLEAN,      \* the loop's timer
                connected : BOOLEAN, stopped : BOOLEAN, disposed : BOOLEAN,
                problem : BOOLEAN,    \* "cloud-auth" among the actionable problems
                owed : BOOLEAN,       \* history: the last list call failed, the key held
                accepted : BOOLEAN,   \* history: Govee accepted a Cloud call
                failures : 0..2]      \* history: unreached calls since the last answer, at most 2
  /\ start \in {"new", "asked", "settled"}
  /\ retry \in {"idle", "asked"}
  /\ manual \in {"idle", "asked"}
  /\ emptyRetried \in BOOLEAN
  /\ unloading \in BOOLEAN

CloudInit ==
  /\ cloud = [was |-> FALSE, shown |-> FALSE, datapoint |-> FALSE,
              first |-> "none", confirmed |-> FALSE,
              armed |-> FALSE, connected |-> FALSE, stopped |-> FALSE,
              disposed |-> FALSE, problem |-> FALSE,
              owed |-> FALSE, accepted |-> FALSE, failures |-> 0]
  /\ start = "new"
  /\ retry = "idle"
  /\ manual = "idle"
  /\ emptyRetried = FALSE
  /\ unloading = FALSE

-----------------------------------------------------------------------------
(* cloud-outage.ts *)

Reachable(c) == c.was /\ ~c.confirmed

NoteUnreachable(c) ==
  LET counted == [c EXCEPT !.failures = IF @ < 2 THEN @ + 1 ELSE 2]
  IN  CASE c.confirmed -> counted
        [] ~c.confirmed /\ c.first = "none" -> [counted EXCEPT !.first = "recent"]
        [] ~c.confirmed /\ c.first = "recent" -> counted
        [] ~c.confirmed /\ c.first = "old" -> [counted EXCEPT !.confirmed = TRUE]

\* mutant: an answer ends an outage but leaves a first failure standing
MutNoteAnswer(c) ==
  [c EXCEPT !.first = IF c.confirmed THEN "none" ELSE @, !.confirmed = FALSE, !.failures = 0]

NoteAnswer(c) == [c EXCEPT !.first = "none", !.confirmed = FALSE, !.failures = 0]

-----------------------------------------------------------------------------
(* cloud-retry.ts: CloudRetryLoop *)

SetConnected(c, ok) ==
  [c EXCEPT !.connected = ok, !.armed = @ /\ ~ok, !.owed = @ /\ ~ok]

Dispose(c) == [c EXCEPT !.disposed = TRUE, !.stopped = TRUE, !.armed = FALSE]

\* mutant: lifts an unload as well
MutNoteKeyAccepted(c) == [c EXCEPT !.stopped = FALSE]

NoteKeyAccepted(c) == [c EXCEPT !.stopped = @ /\ c.disposed]

Schedule(c) == IF c.stopped \/ c.connected THEN c ELSE [c EXCEPT !.armed = TRUE]

\* mutant: a 429 pauses the loop and nothing wakes it
MutHandleResult(c, reason) ==
  CASE reason = "auth-failed" -> [c EXCEPT !.stopped = TRUE, !.armed = FALSE]
    [] reason = "rate-limited" -> c
    [] reason = "transient" -> Schedule(c)

HandleResult(c, reason) ==
  IF reason = "auth-failed" THEN [c EXCEPT !.stopped = TRUE, !.armed = FALSE]
                            ELSE Schedule(c)

\* History only: a list call failed and its repetition is the loop's to make.
Owe(c, reason) == [c EXCEPT !.owed = reason # "auth-failed" /\ ~c.stopped]

-----------------------------------------------------------------------------
(* cloud-retry-handler.ts *)

\* showCloudReachability writes the datapoint when its value changes.
Show(c) ==
  IF c.shown = Reachable(c) THEN c
  ELSE [c EXCEPT !.shown = Reachable(c), !.datapoint = Reachable(c)]

SetCloudConnected(c, ok) == Show([c EXCEPT !.was = ok])

\* mutant: the loop still believes the list loaded
MutHandleCloudFailure(c, reason) ==
  LET told == [c EXCEPT !.problem = @ \/ reason = "auth-failed"]
  IN  HandleResult(Owe(SetCloudConnected(told, FALSE), reason), reason)

HandleCloudFailure(c, reason) ==
  LET told == [c EXCEPT !.problem = @ \/ reason = "auth-failed"]
      down == SetConnected(SetCloudConnected(told, FALSE), FALSE)
  IN  HandleResult(Owe(down, reason), reason)

MarkCloudListAccepted(c) ==
  SetConnected(SetCloudConnected([c EXCEPT !.problem = FALSE], TRUE), TRUE)

MarkCachedListAccepted(c) == SetConnected([c EXCEPT !.was = TRUE], TRUE)

\* mutant: a confirmed outage is not shown
MutOnCloudContact(c, outcome) ==
  CASE outcome = "none" -> c
    [] outcome = "unreachable" -> NoteUnreachable(c)
    [] outcome = "ok" ->
         LET noted == [NoteAnswer(c) EXCEPT !.problem = FALSE, !.accepted = TRUE]
         IN  SetCloudConnected(NoteKeyAccepted(noted), TRUE)
    [] outcome = "auth-failed" ->
         IF c.shown \/ c.was THEN HandleCloudFailure(c, "auth-failed") ELSE c

OnCloudContact(c, outcome) ==
  CASE outcome = "none" -> c
    [] outcome = "unreachable" ->
         LET noted == NoteUnreachable(c)
         IN  IF noted.confirmed /\ ~c.confirmed THEN Show(noted) ELSE noted
    [] outcome = "ok" ->
         LET noted == [NoteAnswer(c) EXCEPT !.problem = FALSE, !.accepted = TRUE]
         IN  SetCloudConnected(NoteKeyAccepted(noted), TRUE)
    [] outcome = "auth-failed" ->
         IF c.shown \/ c.was THEN HandleCloudFailure(c, "auth-failed") ELSE c

\* The App API's account list, on the same servers but with another login.
OnGoveeServerContact(c, reached) ==
  CASE ~reached -> OnCloudContact(c, "unreachable")
    [] reached /\ c.confirmed -> Show(NoteAnswer(c))
    [] reached /\ ~c.confirmed -> NoteAnswer(c)

-----------------------------------------------------------------------------
(* The device list: at the start, by the loop, by the button.  An answer and  *)
(* what it means for the list are handled without a wait in between.          *)

\* The cache held a usable list: no Cloud call at the start.
StartFromCache ==
  /\ start = "new" /\ ~unloading
  /\ start' = "settled"
  /\ cloud' = MarkCachedListAccepted(cloud)
  /\ UNCHANGED <<retry, manual, emptyRetried, unloading>>

StartAsks ==
  /\ start = "new" /\ ~unloading
  /\ start' = "asked"
  /\ UNCHANGED <<cloud, retry, manual, emptyRetried, unloading>>

\* The second empty list in a row is taken for the truth.
EmptyCounted(answer) ==
  /\ answer = EmptyList => ~emptyRetried
  /\ emptyRetried' \in IF answer = EmptyList THEN {TRUE}
                       ELSE IF answer.result = "ok" THEN {FALSE, emptyRetried}
                       ELSE {emptyRetried}

\* The list's own handling, after the contact hook: settleCloudStart and
\* syncDevicesManually do the same.
Settle(c, result) ==
  IF result = "ok" THEN MarkCloudListAccepted(c) ELSE HandleCloudFailure(c, result)

\* A start that is stopped while it waits settles nothing.
StartAnswer(answer) ==
  /\ start = "asked"
  /\ start' = "settled"
  /\ EmptyCounted(answer)
  /\ cloud' = LET told == OnCloudContact(cloud, answer.contact)
              IN  IF unloading THEN told ELSE Settle(told, answer.result)
  /\ UNCHANGED <<retry, manual, unloading>>

\* After a minute the start goes on without its list (the timer ends with the
\* adapter).
StartTimeout ==
  /\ start = "asked" /\ ~unloading
  /\ start' = "settled"
  /\ cloud' = Settle(cloud, "transient")
  /\ UNCHANGED <<retry, manual, emptyRetried, unloading>>

\* The shortest wait is as long as the time a list call is given, so the timer
\* never ends while the loop's last call is under way.
RetryFires ==
  /\ cloud.armed /\ retry = "idle"
  /\ cloud' = [cloud EXCEPT !.armed = FALSE]
  /\ retry' = IF cloud.connected \/ cloud.stopped THEN "idle" ELSE "asked"
  /\ UNCHANGED <<start, manual, emptyRetried, unloading>>

RetrySettle(c, result) ==
  CASE c.stopped -> c
    [] ~c.stopped /\ result = "ok" -> MarkCloudListAccepted(c)
    [] ~c.stopped /\ result # "ok" ->
         HandleResult(IF c.connected THEN c ELSE Owe(c, result), result)

RetryAnswer(answer) ==
  /\ retry = "asked"
  /\ retry' = "idle"
  /\ EmptyCounted(answer)
  /\ cloud' = RetrySettle(OnCloudContact(cloud, answer.contact), answer.result)
  /\ UNCHANGED <<start, manual, unloading>>

RetryTimeout ==
  /\ retry = "asked" /\ ~unloading
  /\ retry' = "idle"
  /\ cloud' = RetrySettle(cloud, "transient")
  /\ UNCHANGED <<start, manual, emptyRetried, unloading>>

ManualSync ==
  /\ start = "settled" /\ manual = "idle" /\ ~unloading
  /\ manual' = "asked"
  /\ UNCHANGED <<cloud, start, retry, emptyRetried, unloading>>

ManualAnswer(answer) ==
  /\ manual = "asked"
  /\ manual' = "idle"
  /\ EmptyCounted(answer)
  /\ cloud' = Settle(OnCloudContact(cloud, answer.contact), answer.result)
  /\ UNCHANGED <<start, retry, unloading>>

-----------------------------------------------------------------------------
(* Everything else that talks to Govee. *)

\* A read, a command, the gap reload, the answer to a list call that had timed
\* out: only the contact hook hears of it.
CloudCall(outcome) ==
  /\ start # "new"
  /\ cloud' = OnCloudContact(cloud, outcome)
  /\ UNCHANGED <<start, retry, manual, emptyRetried, unloading>>

AppApiAnswer(reached) ==
  /\ start # "new"
  /\ cloud' = OnGoveeServerContact(cloud, reached)
  /\ UNCHANGED <<start, retry, manual, emptyRetried, unloading>>

\* CLOUD_UNREACHABLE_CONFIRM_MS since the first failure.
ConfirmTimePasses ==
  /\ cloud.first = "recent"
  /\ cloud' = [cloud EXCEPT !.first = "old"]
  /\ UNCHANGED <<start, retry, manual, emptyRetried, unloading>>

\* onUnload; answers under way still come in until the process ends.
Unload ==
  /\ ~unloading
  /\ unloading' = TRUE
  /\ cloud' = [Dispose(cloud) EXCEPT !.datapoint = FALSE]
  /\ UNCHANGED <<start, retry, manual, emptyRetried>>

CloudNext ==
  \/ StartFromCache \/ StartAsks \/ StartTimeout
  \/ RetryFires \/ RetryTimeout \/ ManualSync
  \/ \E answer \in ListAnswer :
       StartAnswer(answer) \/ RetryAnswer(answer) \/ ManualAnswer(answer)
  \/ \E outcome \in Contact : CloudCall(outcome)
  \/ \E reached \in BOOLEAN : AppApiAnswer(reached)
  \/ ConfirmTimePasses \/ Unload

CloudSpec == CloudInit /\ [][CloudNext]_cloudVars

\* The loop's timer ends, and Govee accepts the list call sooner or later if it
\* is asked again and again.
CloudFairness ==
  /\ WF_cloudVars(RetryFires)
  /\ SF_cloudVars(RetryAnswer([contact |-> "ok", result |-> "ok"]))

CloudFairSpec == CloudSpec /\ CloudFairness

-----------------------------------------------------------------------------
\* A list call of the start, of the loop or of the button that failed, the key
\* not rejected since, always has its repetition coming, whatever the other calls
\* reported in between.
FailedListIsRetried == cloud.owed /\ ~unloading => cloud.armed \/ retry = "asked"

\* Nothing wakes the loop after onUnload: no answer that was still under way arms
\* its timer or sends another list call.
NothingAskedAfterUnload ==
  unloading => ~cloud'.armed /\ (retry' = "asked" => retry = "asked")

\* Once Govee accepted a call, what the user sees is what the adapter believes,
\* through rejected keys, failed lists, confirmed outages and their ends.
ShownIsReachable ==
  /\ cloud.shown => Reachable(cloud)
  /\ cloud.accepted => cloud.shown = Reachable(cloud)
  /\ ~unloading => cloud.datapoint = cloud.shown

\* An outage rests on two failed calls with no answer in between: single failures
\* hours apart never add up to one.
OutageIsReal == cloud.confirmed => cloud.failures = 2

\* A failed list is loaded in the end, unless Govee rejects the key or the adapter
\* stops.
ListIsLoaded == cloud.owed ~> (cloud.connected \/ cloud.stopped)

\* "The user is told once, with what to do": a loop stopped by a rejected key
\* leaves the problem standing for the user to see.
ToldWhenStopped == cloud.stopped /\ ~cloud.disposed => cloud.problem

\* "The two datapoints wait for the first call Govee actually accepts."
CacheStartWaits == cloud.datapoint => cloud.accepted

\* "Async paths bail before further setState": the Cloud stays shown as lost after
\* onUnload wrote it.
OfflineAfterUnload == unloading => ~cloud.datapoint

\* What the adapter shows and does about the Cloud follows what the Cloud
\* answered.
CloudIsTracked ==
  /\ [](CloudTypeOK /\ FailedListIsRetried /\ ShownIsReachable /\ OutageIsReal)
  /\ [][NothingAskedAfterUnload]_cloudVars
=============================================================================
