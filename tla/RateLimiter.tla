---------------------------- MODULE RateLimiter ----------------------------
(***************************************************************************)
(* The limiter in front of every Govee Cloud call (src/lib/rate-limiter.ts  *)
(* with the bookings of src/lib/call-booking.ts).  A call names its lane;   *)
(* it runs at once when the lane has room, otherwise it waits in one queue  *)
(* sorted by priority.  A booking whose requests never reached Govee is     *)
(* given back, but only to the windows it was taken from.                   *)
(*                                                                         *)
(* A call is an element of Call with its lane, its priority, its device     *)
(* allowance and the entry point it came in by; the closure it runs is      *)
(* abstract.  minuteEpoch and dayEpoch are compared for equality only, so   *)
(* the module keeps the calls whose booking carries the CURRENT epoch       *)
(* (thisMinute, thisDay) instead of two counters.                           *)
(***************************************************************************)
EXTENDS Naturals, FiniteSets, SequencesExt

CONSTANTS
  Call,                  \* every call made, each once
  Device,                \* device keys (sku:deviceId)
  laneOf,                \* [Call -> Lane]
  priorityOf,            \* [Call -> Nat], lower runs first
  Budgeted,              \* calls charged to their device's own daily allowance
  Tracked,               \* calls made by executeTracked, the others by tryExecute
  AccountListPerMinute, AppApiPerMinute, DeviceReadPerMinute,
  DeviceBurst, AccountBurst,
  PerDay,                \* the account's daily ceiling
  AppliancePerDay,       \* an appliance's own daily allowance
  MaxQueueLength

AccountList == [kind |-> "account-list"]
AppApi == [kind |-> "appapi"]
DeviceRead(d) == [kind |-> "device-read", deviceKey |-> d]
DeviceControl(d) == [kind |-> "device-control", deviceKey |-> d]

\* Lanes counted per minute, and lanes that draw on token buckets.
WindowLane == {AccountList, AppApi} \cup {DeviceRead(d) : d \in Device}
ControlLane == {DeviceControl(d) : d \in Device}
Lane == WindowLane \cup ControlLane

ASSUME CallAssumption ==
  /\ IsFiniteSet(Call)
  /\ laneOf \in [Call -> Lane]
  /\ priorityOf \in [Call -> Nat]
  /\ Tracked \subseteq Call
  /\ Budgeted \subseteq {c \in Call : laneOf[c] \notin {AccountList, AppApi}}

ASSUME LimitAssumption ==
  /\ {AccountListPerMinute, AppApiPerMinute, DeviceReadPerMinute} \subseteq Nat \ {0}
  /\ {DeviceBurst, AccountBurst, PerDay, AppliancePerDay} \subseteq Nat \ {0}
  /\ MaxQueueLength \in Nat \ {0}

LimitOf(l) ==
  CASE l.kind = "account-list" -> AccountListPerMinute
    [] l.kind = "appapi" -> AppApiPerMinute
    [] OTHER -> DeviceReadPerMinute

VARIABLES
  stopped,               \* stop() was called
  queue,                 \* waiting calls, sorted by priority
  walk,                  \* position of processQueue's loop, 0 when it is not running
  used,                  \* calls this minute per window lane
  deviceTokens, accountTokens,
  callsToday, callsTodayPerDevice, notDeliveredToday,
  thisMinute, thisDay,   \* calls whose booking carries the current minute / day epoch
  status,                \* what became of each call
  promise                \* what the awaiting caller of executeTracked has seen

bookings == <<used, deviceTokens, accountTokens, callsToday, callsTodayPerDevice,
              notDeliveredToday, thisMinute, thisDay>>
vars == <<stopped, queue, walk, bookings, status, promise>>

-----------------------------------------------------------------------------
Refusal == {"stopped", "day-spent", "device-spent", "queue-full", "evicted"}
Status == {"new", "queued", "running", "done", "given-back"} \cup Refusal

TypeOK ==
  /\ stopped \in BOOLEAN
  /\ queue \in Seq(Call)
  /\ walk \in Nat
  /\ used \in [WindowLane -> Nat]
  /\ deviceTokens \in [Device -> 0..DeviceBurst]
  /\ accountTokens \in 0..AccountBurst
  /\ callsToday \in Nat
  /\ callsTodayPerDevice \in [Device -> Nat]
  /\ notDeliveredToday \in Nat
  /\ thisMinute \subseteq Call
  /\ thisDay \subseteq Call
  /\ status \in [Call -> Status]
  /\ promise \in [Call -> {"none", "pending", "resolved", "rejected"}]

\* The buckets of a device are created full on first use.
Init ==
  /\ stopped = FALSE
  /\ queue = <<>>
  /\ walk = 0
  /\ used = [l \in WindowLane |-> 0]
  /\ deviceTokens = [d \in Device |-> DeviceBurst]
  /\ accountTokens = AccountBurst
  /\ callsToday = 0
  /\ callsTodayPerDevice = [d \in Device |-> 0]
  /\ notDeliveredToday = 0
  /\ thisMinute = {}
  /\ thisDay = {}
  /\ status = [c \in Call |-> "new"]
  /\ promise = [c \in Call |-> "none"]

-----------------------------------------------------------------------------
\* processQueue runs to its end before any other handler or callback.
Idle == walk = 0

IsControl(c) == laneOf[c].kind = "device-control"
DeviceOf(c) == laneOf[c].deviceKey
Floor(n) == IF n < 0 THEN 0 ELSE n

DayBudgetSpent == callsToday >= PerDay

\* mutant: one call too many before the allowance counts as spent
MutDeviceBudgetSpent(c) ==
  c \in Budgeted /\ callsTodayPerDevice[DeviceOf(c)] > AppliancePerDay
DeviceBudgetSpent(c) == c \in Budgeted /\ callsTodayPerDevice[DeviceOf(c)] >= AppliancePerDay

CanMakeCall(c) ==
  /\ callsToday < PerDay
  /\ IF IsControl(c)
       THEN accountTokens >= 1 /\ deviceTokens[DeviceOf(c)] >= 1
       ELSE used[laneOf[c]] < LimitOf(laneOf[c])

Spend(c) ==
  /\ used' = IF IsControl(c) THEN used ELSE [used EXCEPT ![laneOf[c]] = @ + 1]
  /\ deviceTokens' = IF IsControl(c)
                       THEN [deviceTokens EXCEPT ![DeviceOf(c)] = Floor(@ - 1)]
                       ELSE deviceTokens
  /\ accountTokens' = IF IsControl(c) THEN Floor(accountTokens - 1) ELSE accountTokens
  /\ callsToday' = callsToday + 1
  /\ callsTodayPerDevice' = IF c \in Budgeted
                              THEN [callsTodayPerDevice EXCEPT ![DeviceOf(c)] = @ + 1]
                              ELSE callsTodayPerDevice
  /\ thisMinute' = thisMinute \cup {c}
  /\ thisDay' = thisDay \cup {c}
  /\ UNCHANGED notDeliveredToday

\* mutant: the minute a booking was taken in is not compared
MutRefundStale(c) ==
  /\ used' = IF IsControl(c) THEN used ELSE [used EXCEPT ![laneOf[c]] = Floor(@ - 1)]
  /\ callsToday' = IF c \in thisDay THEN Floor(callsToday - 1) ELSE callsToday
  /\ thisMinute' = thisMinute \ {c}
  /\ thisDay' = thisDay \ {c}
  /\ UNCHANGED <<deviceTokens, accountTokens, notDeliveredToday, callsTodayPerDevice>>

\* mutant: a token goes back into a bucket that time has filled already
MutCapped(n, cap) == n
Capped(n, cap) == IF n > cap THEN cap ELSE n

\* Only to the windows the booking was taken from; tokens go back in any case.
Refund(c) ==
  /\ used' = IF c \in thisMinute /\ ~IsControl(c)
               THEN [used EXCEPT ![laneOf[c]] = Floor(@ - 1)]
               ELSE used
  /\ deviceTokens' = IF IsControl(c)
                       THEN [deviceTokens EXCEPT ![DeviceOf(c)] = Capped(@ + 1, DeviceBurst)]
                       ELSE deviceTokens
  /\ accountTokens' = IF IsControl(c) THEN Capped(accountTokens + 1, AccountBurst)
                                      ELSE accountTokens
  /\ callsToday' = IF c \in thisDay THEN Floor(callsToday - 1) ELSE callsToday
  /\ notDeliveredToday' = IF c \in thisDay THEN notDeliveredToday + 1 ELSE notDeliveredToday
  /\ callsTodayPerDevice' = IF c \in thisDay \cap Budgeted
                              THEN [callsTodayPerDevice EXCEPT ![DeviceOf(c)] = Floor(@ - 1)]
                              ELSE callsTodayPerDevice
  /\ thisMinute' = thisMinute \ {c}
  /\ thisDay' = thisDay \ {c}

-----------------------------------------------------------------------------
\* The promise a caller holds: none for tryExecute, which reports nothing back.
Rejecting(p, S) == [c \in Call |-> IF c \in S \cap Tracked THEN "rejected" ELSE p[c]]
Awaited(c) == IF c \in Tracked THEN [promise EXCEPT ![c] = "pending"] ELSE promise

Refuse(S, why) ==
  /\ status' = [c \in Call |-> IF c \in S THEN why ELSE status[c]]
  /\ promise' = Rejecting(promise, S)

\* mutant: pushed, never sorted
MutInsert(q, c) == Append(q, c)

\* push and stable sort, on a queue that is sorted already: behind every call
\* that is as urgent or more
Insert(q, c) ==
  InsertAt(q, 1 + Cardinality({i \in DOMAIN q : priorityOf[q[i]] <= priorityOf[c]}), c)

\* mutant: the comparison with the tail the wrong way round
MutOutranks(c, x) == priorityOf[c] > priorityOf[x]
Outranks(c, x) == priorityOf[c] < priorityOf[x]


\* A stopped limiter and a spent day refuse; a full queue gives the newcomer
\* the slot of its tail only when the newcomer outranks the tail.
Enqueue(c) ==
  \/ /\ stopped
     /\ Refuse({c}, "stopped")
     /\ UNCHANGED queue
  \/ /\ ~stopped /\ DayBudgetSpent
     /\ Refuse({c}, "day-spent")
     /\ UNCHANGED queue
  \/ /\ ~stopped /\ ~DayBudgetSpent
     /\ Len(queue) < MaxQueueLength
     /\ queue' = Insert(queue, c)
     /\ status' = [status EXCEPT ![c] = "queued"]
     /\ promise' = Awaited(c)
  \/ /\ ~stopped /\ ~DayBudgetSpent
     /\ Len(queue) >= MaxQueueLength
     /\ ~Outranks(c, Last(queue))
     /\ Refuse({c}, "queue-full")
     /\ UNCHANGED queue
  \/ /\ ~stopped /\ ~DayBudgetSpent
     /\ Len(queue) >= MaxQueueLength
     /\ Outranks(c, Last(queue))
     /\ queue' = Insert(Front(queue), c)
     /\ status' = [status EXCEPT ![c] = "queued", ![Last(queue)] = "evicted"]
     /\ promise' = Rejecting(Awaited(c), {Last(queue)})

\* What tryExecute and executeTracked share: allowance, lane, queue.
Submit(c) ==
  /\ Idle
  /\ status[c] = "new"
  /\ \/ /\ DeviceBudgetSpent(c)
        /\ Refuse({c}, "device-spent")
        /\ UNCHANGED <<queue, bookings>>
     \/ /\ ~DeviceBudgetSpent(c)
        /\ CanMakeCall(c)
        /\ Spend(c)
        /\ status' = [status EXCEPT ![c] = "running"]
        /\ promise' = Awaited(c)
        /\ UNCHANGED queue
     \/ /\ ~DeviceBudgetSpent(c)
        /\ ~CanMakeCall(c)
        /\ Enqueue(c)
        /\ UNCHANGED bookings
  /\ UNCHANGED <<stopped, walk>>

TryExecute(c) == c \notin Tracked /\ Submit(c)
ExecuteTracked(c) == c \in Tracked /\ Submit(c)

\* The call has settled.  neverSent: a request failed before it reached Govee
\* and none reached it (Booking.seal); failed: the closure threw.
Settle(c, neverSent, failed) ==
  /\ Idle
  /\ status[c] = "running"
  /\ IF neverSent THEN Refund(c) ELSE UNCHANGED bookings
  /\ status' = [status EXCEPT ![c] = IF neverSent THEN "given-back" ELSE "done"]
  /\ promise' = IF c \in Tracked
                  THEN [promise EXCEPT ![c] = IF failed THEN "rejected" ELSE "resolved"]
                  ELSE promise
  /\ UNCHANGED <<stopped, queue, walk>>

-----------------------------------------------------------------------------
\* mutant: what waits on a spent day keeps waiting for the rollover
MutProcessQueue ==
  /\ Idle /\ ~stopped
  /\ walk' = IF DayBudgetSpent \/ queue = <<>> THEN 0 ELSE 1
  /\ UNCHANGED <<stopped, queue, status, promise>>

\* processQueue up to its loop: a spent day refuses everything that waits.
ProcessQueue ==
  /\ Idle /\ ~stopped
  /\ IF DayBudgetSpent
       THEN /\ Refuse(Range(queue), "day-spent")
            /\ queue' = <<>>
            /\ UNCHANGED walk
       ELSE /\ walk' = IF queue = <<>> THEN 0 ELSE 1
            /\ UNCHANGED <<queue, status, promise>>
  /\ UNCHANGED stopped

\* the 2 s interval
ProcessTick == ProcessQueue /\ UNCHANGED bookings

\* One turn of the loop: skip a call whose lane is taken, refuse one whose
\* allowance ran out while it waited, start any other.
WalkTurn ==
  LET c == queue[walk]
      rest == RemoveAt(queue, walk)
      next(i, q) == IF i > Len(q) THEN 0 ELSE i
  IN  /\ ~Idle
      /\ \/ /\ ~CanMakeCall(c)
            /\ walk' = next(walk + 1, queue)
            /\ UNCHANGED <<queue, bookings, status, promise>>
         \/ /\ CanMakeCall(c)
            /\ queue' = rest
            /\ walk' = next(walk, rest)
            /\ \/ /\ DeviceBudgetSpent(c)
                  /\ Refuse({c}, "device-spent")
                  /\ UNCHANGED bookings
               \/ /\ ~DeviceBudgetSpent(c)
                  /\ Spend(c)
                  /\ status' = [status EXCEPT ![c] = "running"]
                  /\ UNCHANGED promise
      /\ UNCHANGED stopped

\* the 60 s interval
ResetMinuteWindow ==
  /\ thisMinute' = {}
  /\ used' = [l \in WindowLane |-> 0]
  /\ ProcessQueue
  /\ UNCHANGED <<deviceTokens, accountTokens, callsToday, callsTodayPerDevice,
                 notDeliveredToday, thisDay>>

\* mutant: the day's epoch is not counted up
MutResetDaily ==
  /\ Idle /\ ~stopped
  /\ callsToday' = 0
  /\ notDeliveredToday' = 0
  /\ callsTodayPerDevice' = [d \in Device |-> 0]
  /\ UNCHANGED <<stopped, queue, walk, used, deviceTokens, accountTokens, thisMinute,
                 thisDay, status, promise>>

\* the interval armed at UTC midnight
ResetDaily ==
  /\ Idle /\ ~stopped
  /\ callsToday' = 0
  /\ notDeliveredToday' = 0
  /\ thisDay' = {}
  /\ callsTodayPerDevice' = [d \in Device |-> 0]
  /\ UNCHANGED <<stopped, queue, walk, used, deviceTokens, accountTokens, thisMinute,
                 status, promise>>

\* Enough time has passed for one more whole token; the two rates differ, so
\* the buckets gain theirs independently.
RefillDevice(d) ==
  /\ Idle
  /\ deviceTokens[d] < DeviceBurst
  /\ deviceTokens' = [deviceTokens EXCEPT ![d] = @ + 1]
  /\ UNCHANGED <<stopped, queue, walk, used, accountTokens, callsToday, callsTodayPerDevice,
                 notDeliveredToday, thisMinute, thisDay, status, promise>>

RefillAccount ==
  /\ Idle
  /\ accountTokens < AccountBurst
  /\ accountTokens' = accountTokens + 1
  /\ UNCHANGED <<stopped, queue, walk, used, deviceTokens, callsToday, callsTodayPerDevice,
                 notDeliveredToday, thisMinute, thisDay, status, promise>>

\* mutant: the queue is emptied and nobody is told
MutStop ==
  /\ Idle /\ ~stopped
  /\ stopped' = TRUE
  /\ status' = [c \in Call |-> IF c \in Range(queue) THEN "stopped" ELSE status[c]]
  /\ queue' = <<>>
  /\ UNCHANGED <<walk, bookings, promise>>

\* Clears every timer and rejects what waits; calls already under way go on.
Stop ==
  /\ Idle /\ ~stopped
  /\ stopped' = TRUE
  /\ Refuse(Range(queue), "stopped")
  /\ queue' = <<>>
  /\ UNCHANGED <<walk, bookings>>

Next ==
  \/ \E c \in Call : TryExecute(c) \/ ExecuteTracked(c)
  \/ \E c \in Call, neverSent, failed \in BOOLEAN : Settle(c, neverSent, failed)
  \/ ProcessTick
  \/ WalkTurn
  \/ ResetMinuteWindow
  \/ ResetDaily
  \/ \E d \in Device : RefillDevice(d)
  \/ RefillAccount
  \/ Stop

Spec == Init /\ [][Next]_vars

\* The process clears neither its timers nor its sockets while it runs: every
\* interval fires again and again, time passes, and every HTTP call settles by
\* its own timeout.  The fairness is strong because Idle - one synchronous loop
\* in the code - disables the other actions while processQueue walks.
Fairness ==
  /\ WF_vars(WalkTurn)
  /\ SF_vars(ProcessTick)
  /\ SF_vars(ResetMinuteWindow)
  /\ \A d \in Device : SF_vars(RefillDevice(d))
  /\ SF_vars(RefillAccount)
  /\ \A c \in Call : SF_vars(\E neverSent, failed \in BOOLEAN : Settle(c, neverSent, failed))

FairSpec == Spec /\ Fairness

-----------------------------------------------------------------------------
\* Every counter equals the bookings that still stand in its window: nothing is
\* charged twice, nothing is charged on the way through the queue and forgotten,
\* and a late refund never frees a slot of the new window.
BookingsExact ==
  /\ \A l \in WindowLane : used[l] = Cardinality({c \in thisMinute : laneOf[c] = l})
  /\ callsToday = Cardinality(thisDay)
  /\ \A d \in Device : callsTodayPerDevice[d] =
       Cardinality({c \in thisDay \cap Budgeted : DeviceOf(c) = d})

\* The counters keep their types, and the budgets add up whatever is refused,
\* refunded late or reset meanwhile.
BudgetsAddUp == TypeOK /\ BookingsExact

\* What Govee can have counted in the adapter's current windows - calls under
\* way or delivered - never exceeds a limit, whichever path the call took.
Out == {c \in Call : status[c] \in {"running", "done"}}
WithinLimits ==
  /\ \A l \in WindowLane : Cardinality({c \in thisMinute \cap Out : laneOf[c] = l}) <= LimitOf(l)
  /\ Cardinality(thisDay \cap Out) <= PerDay
  /\ \A d \in Device :
       Cardinality({c \in thisDay \cap Out \cap Budgeted : DeviceOf(c) = d}) <= AppliancePerDay

\* No caller of executeTracked awaits a call that is gone: while its promise is
\* pending the call waits in the queue exactly once, or is under way.
NoLostCaller ==
  /\ \A c \in Call : promise[c] = "pending" => status[c] \in {"queued", "running"}
  /\ \A c \in Call : status[c] = "queued" <=> \E i \in DOMAIN queue : queue[i] = c
  /\ \A i, j \in DOMAIN queue : queue[i] = queue[j] => i = j
  /\ stopped => queue = <<>>

\* A full queue never gives up a call for one that does not outrank it, and what
\* it gives up is the least urgent call it holds.
EvictsOnlyOutranked ==
  \A c \in Call : status[c] # "evicted" /\ status'[c] = "evicted" =>
    /\ \A x \in Range(queue') : priorityOf[x] <= priorityOf[c]
    /\ \E x \in Range(queue') \ Range(queue) : priorityOf[x] < priorityOf[c]

\* Out of the queue, calls of one lane leave in order: no call starts while one
\* that is more urgent, or as urgent and before it, still waits for the same lane.
QueueKeepsLaneOrder ==
  \A i \in DOMAIN queue : status[queue[i]] = "queued" /\ status'[queue[i]] = "running" =>
    \A j \in DOMAIN queue : laneOf[queue[j]] = laneOf[queue[i]] /\ status'[queue[j]] = "queued" =>
      \/ priorityOf[queue[i]] < priorityOf[queue[j]]
      \/ priorityOf[queue[i]] = priorityOf[queue[j]] /\ i < j

\* The account's day, each minute lane and each appliance's day are allowances.
Done == {c \in Call : status[c] = "done"}
DayAllowance ==
  INSTANCE Allowance WITH Limit <- PerDay, charged <- thisDay, delivered <- thisDay \cap Done
LaneCalls(l) == {c \in thisMinute : laneOf[c] = l}
LaneAllowance(l) ==
  INSTANCE Allowance WITH Limit <- LimitOf(l), charged <- LaneCalls(l),
                          delivered <- LaneCalls(l) \cap Done
ApplianceCalls(d) == {c \in thisDay \cap Budgeted : DeviceOf(c) = d}
ApplianceAllowance(d) ==
  INSTANCE Allowance WITH Limit <- AppliancePerDay, charged <- ApplianceCalls(d),
                          delivered <- ApplianceCalls(d) \cap Done

\* The limiter implements its abstract allowances, all of them at once.
ImplementsAllowances ==
  /\ DayAllowance!Spec
  /\ \A l \in WindowLane : LaneAllowance(l)!Init
  /\ \A d \in Device : ApplianceAllowance(d)!Init
  /\ [][/\ \A l \in WindowLane : LaneAllowance(l)!Step
        /\ \A d \in Device : ApplianceAllowance(d)!Step]_vars

\* Every call made through executeTracked is answered: it ran, or it was refused
\* - by a full queue, a spent day or the adapter stopping - and the caller knows.
TrackedCallsSettle ==
  \A c \in Tracked : promise[c] = "pending" ~> promise[c] \in {"resolved", "rejected"}

\* The queue keeps its order, and its cap drops only what ranks below.
LanesAreKept ==
  /\ [][QueueKeepsLaneOrder /\ EvictsOnlyOutranked]_vars
=============================================================================
