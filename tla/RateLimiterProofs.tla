------------------------- MODULE RateLimiterProofs -------------------------
(***************************************************************************)
(* What the limiter's runs check on small instances, proved for every set   *)
(* of calls and devices and every limit: types, the exactness of the        *)
(* counters, the limits themselves, the order in which calls leave the      *)
(* queue, and that the limiter implements its abstract allowances.          *)
(***************************************************************************)
EXTENDS RateLimiter, FiniteSetTheorems, SequenceTheorems, TLAPS

\* The type of the booking state alone.
BookingsTypeOK ==
  /\ used \in [WindowLane -> Nat]
  /\ deviceTokens \in [Device -> 0..DeviceBurst]
  /\ accountTokens \in 0..AccountBurst
  /\ callsToday \in Nat
  /\ callsTodayPerDevice \in [Device -> Nat]
  /\ notDeliveredToday \in Nat
  /\ thisMinute \subseteq Call
  /\ thisDay \subseteq Call

\* No counter is above its limit.
Bounded ==
  /\ \A l \in WindowLane : used[l] <= LimitOf(l)
  /\ callsToday <= PerDay
  /\ \A d \in Device : callsTodayPerDevice[d] <= AppliancePerDay

Books == BookingsTypeOK /\ BookingsExact /\ Bounded

\* A booking stands only for a call that is under way or has run.
BookedCallsAreOut ==
  /\ thisMinute \cup thisDay \subseteq Call
  /\ \A c \in thisMinute \cup thisDay : status[c] \in {"running", "done"}

\* Exactly the waiting calls are in the queue, and the loop is inside it.
QueueOK ==
  /\ \A c \in Call : status[c] = "queued" <=> \E i \in DOMAIN queue : queue[i] = c
  /\ \A i, j \in DOMAIN queue : queue[i] = queue[j] => i = j
  /\ walk \in 0..Len(queue)

\* A pending promise belongs to a call that still waits or runs.
CallersOK ==
  /\ \A c \in Call : promise[c] = "pending" => c \in Tracked /\ status[c] \in {"queued", "running"}
  /\ stopped => queue = <<>>

\* The types the booking state does not have.
FlowTypeOK ==
  /\ stopped \in BOOLEAN
  /\ queue \in Seq(Call)
  /\ status \in [Call -> Status]
  /\ promise \in [Call -> {"none", "pending", "resolved", "rejected"}]

Flow == FlowTypeOK /\ BookedCallsAreOut /\ QueueOK /\ CallersOK

\* The inductive invariant: the books, and where every call is.
IInv == Books /\ Flow

-----------------------------------------------------------------------------
\* The lane of a call on a device and where its counters live.
LEMMA LaneFacts ==
  ASSUME NEW c \in Call
  PROVE  /\ laneOf[c] \in Lane
         /\ IsControl(c) => DeviceOf(c) \in Device
         /\ ~IsControl(c) => laneOf[c] \in WindowLane
         /\ c \in Budgeted => DeviceOf(c) \in Device
<1>1. laneOf[c] \in Lane
  BY CallAssumption
<1>2. CASE laneOf[c] \in ControlLane
  <2>1. PICK d \in Device : laneOf[c] = DeviceControl(d)
    BY <1>2 DEF ControlLane
  <2>2. IsControl(c) /\ DeviceOf(c) = d
    BY <2>1 DEF IsControl, DeviceOf, DeviceControl
  <2> QED BY <1>1, <2>1, <2>2
<1>3. CASE laneOf[c] \in WindowLane
  <2>1. ~IsControl(c)
    BY <1>3 DEF WindowLane, IsControl, AccountList, AppApi, DeviceRead
  <2>2. ASSUME c \in Budgeted PROVE DeviceOf(c) \in Device
    <3>1. PICK d \in Device : laneOf[c] = DeviceRead(d)
      BY <1>3, <2>2, CallAssumption DEF WindowLane
    <3> QED BY <3>1 DEF DeviceOf, DeviceRead
  <2> QED BY <1>1, <1>3, <2>1, <2>2
<1> QED BY <1>1, <1>2, <1>3 DEF Lane

\* Every limit is a positive number.
LEMMA LimitFacts ==
  /\ \A l \in WindowLane : LimitOf(l) \in Nat \ {0}
  /\ PerDay \in Nat \ {0} /\ AppliancePerDay \in Nat \ {0}
  /\ DeviceBurst \in Nat \ {0} /\ AccountBurst \in Nat \ {0}
  /\ MaxQueueLength \in Nat \ {0}
BY LimitAssumption DEF LimitOf

\* Counting the calls of a set T after one call joined or left the counted ones.
LEMMA CountAdd ==
  ASSUME NEW S \in SUBSET Call, NEW x \in Call \ S, NEW T
  PROVE  Cardinality((S \cup {x}) \cap T) =
           IF x \in T THEN Cardinality(S \cap T) + 1 ELSE Cardinality(S \cap T)
<1> DEFINE F == S \cap T
<1>1. IsFiniteSet(F) /\ x \notin F
  BY CallAssumption, FS_Subset
<1>2. (S \cup {x}) \cap T = IF x \in T THEN F \cup {x} ELSE F
  OBVIOUS
<1>3. Cardinality(F \cup {x}) = Cardinality(F) + 1
  BY <1>1, FS_AddElement DEF F
<1> QED BY <1>2, <1>3

LEMMA CountRemove ==
  ASSUME NEW S \in SUBSET Call, NEW x \in S, NEW T
  PROVE  /\ Cardinality((S \ {x}) \cap T) =
              IF x \in T THEN Cardinality(S \cap T) - 1 ELSE Cardinality(S \cap T)
         /\ x \in T => Cardinality(S \cap T) >= 1
         /\ Cardinality(S \cap T) \in Nat
<1> DEFINE F == S \cap T
<1>1. IsFiniteSet(F) /\ (x \in T <=> x \in F)
  BY CallAssumption, FS_Subset
<1>2. (S \ {x}) \cap T = IF x \in T THEN F \ {x} ELSE F
  OBVIOUS
<1> HIDE DEF F
<1>3. Cardinality(F) \in Nat /\ Cardinality(F \ {x}) \in Nat
  BY <1>1, FS_CardinalityType, FS_RemoveElement
<1>4. x \in F => Cardinality(F \ {x}) = Cardinality(F) - 1
  BY <1>1, FS_RemoveElement
<1> QED BY <1>1, <1>2, <1>3, <1>4 DEF F

-----------------------------------------------------------------------------
\* The calls of a lane, and the budgeted calls of a device.
CallsOn(l) == {c \in Call : laneOf[c] = l}
CallsOf(d) == {c \in Budgeted : DeviceOf(c) = d}

LEMMA CountedSets ==
  ASSUME NEW S \in SUBSET Call
  PROVE  /\ \A l \in WindowLane : {c \in S : laneOf[c] = l} = S \cap CallsOn(l)
         /\ \A d \in Device : {c \in S \cap Budgeted : DeviceOf(c) = d} = S \cap CallsOf(d)
         /\ S \cap Call = S
BY DEF CallsOn, CallsOf

\* A booking keeps the counters exact and, made only where there is room,
\* within their limits.
LEMMA SpendBooks ==
  ASSUME Books, NEW c \in Call, c \notin thisMinute, c \notin thisDay,
         CanMakeCall(c), ~DeviceBudgetSpent(c), Spend(c)
  PROVE  Books'
<1> USE DEF Books
<1>1. BookingsTypeOK'
  <2>1. used' \in [WindowLane -> Nat]
    BY LaneFacts DEF BookingsTypeOK, Spend
  <2>2. deviceTokens' \in [Device -> 0..DeviceBurst]
    <3>1. CASE IsControl(c)
      <4>1. DeviceOf(c) \in Device /\ deviceTokens[DeviceOf(c)] \in 0..DeviceBurst
        BY <3>1, LaneFacts DEF BookingsTypeOK
      <4>2. Floor(deviceTokens[DeviceOf(c)] - 1) \in 0..DeviceBurst
        BY <4>1, LimitFacts DEF Floor
      <4> QED BY <3>1, <4>1, <4>2 DEF BookingsTypeOK, Spend
    <3>2. CASE ~IsControl(c)
      BY <3>2 DEF BookingsTypeOK, Spend
    <3> QED BY <3>1, <3>2
  <2>3. accountTokens' \in 0..AccountBurst
    BY LimitFacts DEF BookingsTypeOK, Spend, Floor
  <2>4. callsToday' \in Nat /\ notDeliveredToday' \in Nat
    BY DEF BookingsTypeOK, Spend
  <2>5. callsTodayPerDevice' \in [Device -> Nat]
    BY LaneFacts DEF BookingsTypeOK, Spend
  <2>6. thisMinute' \subseteq Call /\ thisDay' \subseteq Call
    BY DEF BookingsTypeOK, Spend
  <2> QED BY <2>1, <2>2, <2>3, <2>4, <2>5, <2>6 DEF BookingsTypeOK
<1>2. ASSUME NEW l \in WindowLane
      PROVE  /\ used'[l] = Cardinality({x \in thisMinute' : laneOf[x] = l})
             /\ used'[l] <= LimitOf(l)
  <2>1. used[l] = Cardinality(thisMinute \cap CallsOn(l)) /\ used[l] <= LimitOf(l)
    BY CountedSets DEF BookingsTypeOK, BookingsExact, Bounded
  <2>2. Cardinality(thisMinute' \cap CallsOn(l)) =
          IF c \in CallsOn(l) THEN used[l] + 1 ELSE used[l]
    BY <2>1, CountAdd DEF BookingsTypeOK, Spend
  <2>3. used'[l] = IF c \in CallsOn(l) THEN used[l] + 1 ELSE used[l]
    <3>1. CASE IsControl(c)
      <4>1. laneOf[c] # l
        BY <3>1 DEF IsControl, WindowLane, AccountList, AppApi, DeviceRead
      <4> QED BY <3>1, <4>1 DEF Spend, CallsOn
    <3>2. CASE ~IsControl(c)
      BY <3>2, LaneFacts DEF Spend, CallsOn, BookingsTypeOK
    <3> QED BY <3>1, <3>2
  <2>4. c \in CallsOn(l) => used[l] < LimitOf(l)
    <3>1. laneOf[c] = l => ~IsControl(c)
      BY DEF IsControl, WindowLane, AccountList, AppApi, DeviceRead
    <3> QED BY <3>1 DEF CanMakeCall, CallsOn
  <2>5. used'[l] <= LimitOf(l)
    <3>1. used[l] \in Nat /\ LimitOf(l) \in Nat
      BY LimitFacts DEF BookingsTypeOK
    <3> HIDE DEF Books
    <3> QED BY <2>1, <2>3, <2>4, <3>1
  <2> QED BY <1>1, <2>2, <2>3, <2>5, CountedSets DEF BookingsTypeOK
<1>3. callsToday' = Cardinality(thisDay') /\ callsToday' <= PerDay
  <2>1. callsToday = Cardinality(thisDay \cap Call) /\ thisDay' = thisDay \cup {c}
    BY CountedSets DEF BookingsTypeOK, BookingsExact, Spend
  <2>2. Cardinality(thisDay' \cap Call) = callsToday + 1
    BY <2>1, CountAdd DEF BookingsTypeOK
  <2>3. callsToday' = callsToday + 1 /\ callsToday < PerDay
    BY DEF Spend, CanMakeCall
  <2> QED BY <1>1, <2>2, <2>3, LimitFacts, CountedSets DEF BookingsTypeOK
<1>4. ASSUME NEW d \in Device
      PROVE  /\ callsTodayPerDevice'[d] =
                  Cardinality({x \in thisDay' \cap Budgeted : DeviceOf(x) = d})
             /\ callsTodayPerDevice'[d] <= AppliancePerDay
  <2>1. /\ callsTodayPerDevice[d] = Cardinality(thisDay \cap CallsOf(d))
        /\ callsTodayPerDevice[d] <= AppliancePerDay
        /\ callsTodayPerDevice[d] \in Nat
    BY CountedSets DEF BookingsTypeOK, BookingsExact, Bounded
  <2>2. Cardinality(thisDay' \cap CallsOf(d)) =
          IF c \in CallsOf(d) THEN callsTodayPerDevice[d] + 1 ELSE callsTodayPerDevice[d]
    BY <2>1, CountAdd DEF BookingsTypeOK, Spend
  <2>3. callsTodayPerDevice'[d] =
          IF c \in CallsOf(d) THEN callsTodayPerDevice[d] + 1 ELSE callsTodayPerDevice[d]
    BY LaneFacts DEF Spend, CallsOf, BookingsTypeOK
  <2>4. c \in CallsOf(d) => callsTodayPerDevice[d] < AppliancePerDay
    BY <2>1, LimitFacts DEF DeviceBudgetSpent, CallsOf
  <2>5. callsTodayPerDevice'[d] <= AppliancePerDay
    BY <2>1, <2>3, <2>4, LimitFacts
  <2> QED BY <1>1, <2>2, <2>3, <2>5, CountedSets DEF BookingsTypeOK
<1> QED BY <1>1, <1>2, <1>3, <1>4 DEF BookingsExact, Bounded

\* A refund takes back one booking from exactly the windows that still hold it.
LEMMA RefundBooks ==
  ASSUME Books, NEW c \in Call, Refund(c)
  PROVE  Books'
<1> USE DEF Books
<1>1. BookingsTypeOK'
  <2>1. used' \in [WindowLane -> Nat]
    <3>1. CASE IsControl(c) \/ c \notin thisMinute
      BY <3>1 DEF BookingsTypeOK, Refund
    <3>2. CASE ~IsControl(c) /\ c \in thisMinute
      <4>1. laneOf[c] \in WindowLane /\ used[laneOf[c]] \in Nat
        BY <3>2, LaneFacts DEF BookingsTypeOK
      <4>2. Floor(used[laneOf[c]] - 1) \in Nat
        BY <4>1 DEF Floor
      <4> QED BY <3>2, <4>1, <4>2 DEF BookingsTypeOK, Refund
    <3> QED BY <3>1, <3>2
  <2>2. deviceTokens' \in [Device -> 0..DeviceBurst]
    <3>1. CASE IsControl(c)
      <4>1. DeviceOf(c) \in Device /\ deviceTokens[DeviceOf(c)] \in 0..DeviceBurst
        BY <3>1, LaneFacts DEF BookingsTypeOK
      <4>2. Capped(deviceTokens[DeviceOf(c)] + 1, DeviceBurst) \in 0..DeviceBurst
        BY <4>1, LimitFacts DEF Capped
      <4> QED BY <3>1, <4>1, <4>2 DEF BookingsTypeOK, Refund
    <3>2. CASE ~IsControl(c)
      BY <3>2 DEF BookingsTypeOK, Refund
    <3> QED BY <3>1, <3>2
  <2>3. accountTokens' \in 0..AccountBurst
    BY LimitFacts DEF BookingsTypeOK, Refund, Capped
  <2>4. callsToday' \in Nat /\ notDeliveredToday' \in Nat
    BY DEF BookingsTypeOK, Refund, Floor
  <2>5. callsTodayPerDevice' \in [Device -> Nat]
    <3>1. CASE c \in thisDay \cap Budgeted
      <4>1. DeviceOf(c) \in Device /\ callsTodayPerDevice[DeviceOf(c)] \in Nat
        BY <3>1, LaneFacts DEF BookingsTypeOK
      <4>2. Floor(callsTodayPerDevice[DeviceOf(c)] - 1) \in Nat
        BY <4>1 DEF Floor
      <4> QED BY <3>1, <4>1, <4>2 DEF BookingsTypeOK, Refund
    <3>2. CASE c \notin thisDay \cap Budgeted
      BY <3>2 DEF BookingsTypeOK, Refund
    <3> QED BY <3>1, <3>2
  <2>6. thisMinute' \subseteq Call /\ thisDay' \subseteq Call
    BY DEF BookingsTypeOK, Refund
  <2> QED BY <2>1, <2>2, <2>3, <2>4, <2>5, <2>6 DEF BookingsTypeOK
<1>2. ASSUME NEW l \in WindowLane
      PROVE  /\ used'[l] = Cardinality({x \in thisMinute' : laneOf[x] = l})
             /\ used'[l] <= LimitOf(l)
  <2>1. /\ used[l] = Cardinality(thisMinute \cap CallsOn(l))
        /\ used[l] <= LimitOf(l) /\ used[l] \in Nat /\ LimitOf(l) \in Nat
        /\ thisMinute' = thisMinute \ {c}
    BY CountedSets, LimitFacts DEF BookingsTypeOK, BookingsExact, Bounded, Refund
  <2>2. CASE c \notin thisMinute
    <3>1. thisMinute' = thisMinute /\ used' = used
      BY <2>1, <2>2 DEF Refund
    <3> QED BY <2>1, <3>1, CountedSets DEF BookingsTypeOK
  <2>3. CASE c \in thisMinute
    <3>1. /\ Cardinality(thisMinute' \cap CallsOn(l)) =
               IF c \in CallsOn(l) THEN used[l] - 1 ELSE used[l]
          /\ c \in CallsOn(l) => used[l] >= 1
      BY <2>1, <2>3, CountRemove DEF BookingsTypeOK
    <3>2. used'[l] = IF c \in CallsOn(l) THEN used[l] - 1 ELSE used[l]
      <4>1. CASE IsControl(c)
        <5>1. laneOf[c] # l
          BY <4>1 DEF IsControl, WindowLane, AccountList, AppApi, DeviceRead
        <5> QED BY <4>1, <5>1 DEF Refund, CallsOn
      <4>2. CASE ~IsControl(c)
        <5>1. laneOf[c] \in WindowLane /\ used' = [used EXCEPT ![laneOf[c]] = Floor(@ - 1)]
          BY <4>2, <2>3, LaneFacts DEF Refund
        <5>2. CASE laneOf[c] = l
          BY <5>1, <5>2, <2>1, <3>1 DEF Floor, CallsOn, BookingsTypeOK
        <5>3. CASE laneOf[c] # l
          BY <5>1, <5>3 DEF CallsOn, BookingsTypeOK
        <5> QED BY <5>2, <5>3
      <4> QED BY <4>1, <4>2
    <3>3. used'[l] <= LimitOf(l)
      BY <2>1, <3>1, <3>2
    <3> QED BY <1>1, <3>1, <3>2, <3>3, CountedSets DEF BookingsTypeOK
  <2> QED BY <2>2, <2>3
<1>3. callsToday' = Cardinality(thisDay') /\ callsToday' <= PerDay
  <2>1. /\ callsToday = Cardinality(thisDay \cap Call) /\ thisDay' = thisDay \ {c}
        /\ callsToday \in Nat /\ callsToday <= PerDay /\ PerDay \in Nat
    BY CountedSets, LimitFacts DEF BookingsTypeOK, BookingsExact, Bounded, Refund
  <2>2. CASE c \notin thisDay
    <3>1. thisDay' = thisDay /\ callsToday' = callsToday
      BY <2>1, <2>2 DEF Refund
    <3> QED BY <2>1, <3>1, CountedSets DEF BookingsTypeOK
  <2>3. CASE c \in thisDay
    <3>1. Cardinality(thisDay' \cap Call) = callsToday - 1 /\ callsToday >= 1
      BY <2>1, <2>3, CountRemove DEF BookingsTypeOK
    <3>2. callsToday' = callsToday - 1
      BY <2>1, <2>3, <3>1 DEF Refund, Floor
    <3>3. thisDay' \cap Call = thisDay'
      BY <1>1 DEF BookingsTypeOK
    <3>4. callsToday' <= PerDay
      BY <2>1, <3>2
    <3> QED BY <3>1, <3>2, <3>3, <3>4
  <2> QED BY <2>2, <2>3
<1>4. ASSUME NEW d \in Device
      PROVE  /\ callsTodayPerDevice'[d] =
                  Cardinality({x \in thisDay' \cap Budgeted : DeviceOf(x) = d})
             /\ callsTodayPerDevice'[d] <= AppliancePerDay
  <2>1. /\ callsTodayPerDevice[d] = Cardinality(thisDay \cap CallsOf(d))
        /\ callsTodayPerDevice[d] <= AppliancePerDay /\ AppliancePerDay \in Nat
        /\ callsTodayPerDevice[d] \in Nat /\ thisDay' = thisDay \ {c}
    BY CountedSets, LimitFacts DEF BookingsTypeOK, BookingsExact, Bounded, Refund
  <2>2. CASE c \notin thisDay
    <3>1. thisDay' = thisDay /\ callsTodayPerDevice' = callsTodayPerDevice
      BY <2>1, <2>2 DEF Refund
    <3> QED BY <2>1, <3>1, CountedSets DEF BookingsTypeOK
  <2>3. CASE c \in thisDay
    <3>1. /\ Cardinality(thisDay' \cap CallsOf(d)) =
               IF c \in CallsOf(d) THEN callsTodayPerDevice[d] - 1 ELSE callsTodayPerDevice[d]
          /\ c \in CallsOf(d) => callsTodayPerDevice[d] >= 1
      BY <2>1, <2>3, CountRemove DEF BookingsTypeOK
    <3>2. callsTodayPerDevice'[d] =
            IF c \in CallsOf(d) THEN callsTodayPerDevice[d] - 1 ELSE callsTodayPerDevice[d]
      <4>1. CASE c \in CallsOf(d)
        BY <2>1, <2>3, <3>1, <4>1 DEF Refund, CallsOf, Floor, BookingsTypeOK
      <4>2. CASE c \notin CallsOf(d)
        BY <4>2 DEF Refund, CallsOf, BookingsTypeOK
      <4> QED BY <4>1, <4>2
    <3>3. callsTodayPerDevice'[d] <= AppliancePerDay
      BY <2>1, <3>1, <3>2
    <3> QED BY <1>1, <3>1, <3>2, <3>3, CountedSets DEF BookingsTypeOK
  <2> QED BY <2>2, <2>3
<1> QED BY <1>1, <1>2, <1>3, <1>4 DEF BookingsExact, Bounded

-----------------------------------------------------------------------------
\* s is q with c put in at place k.
PlacedAt(s, q, c, k) ==
  \A i \in 1..Len(q) + 1 : s[i] = IF i < k THEN q[i] ELSE IF i = k THEN c ELSE q[i - 1]

\* The place Insert gives c in q: behind the calls that are as urgent or more.
AsUrgent(q, c) == {i \in DOMAIN q : priorityOf[q[i]] <= priorityOf[c]}
PlaceOf(q, c) == 1 + Cardinality(AsUrgent(q, c))

\* The sequence operators keep the queue a sequence of calls.
LEMMA InsertFacts ==
  ASSUME NEW q \in Seq(Call), NEW c \in Call
  PROVE  /\ Insert(q, c) \in Seq(Call)
         /\ Len(Insert(q, c)) = Len(q) + 1
         /\ PlaceOf(q, c) \in 1..Len(q) + 1
         /\ PlacedAt(Insert(q, c), q, c, PlaceOf(q, c))
<1> DEFINE A == AsUrgent(q, c)
           k == PlaceOf(q, c)
<1>1. k \in 1..Len(q) + 1
  <2>1. Len(q) \in Nat /\ DOMAIN q = 1..Len(q)
    BY LenProperties
  <2>2. IsFiniteSet(1..Len(q)) /\ Cardinality(1..Len(q)) = Len(q)
    BY <2>1, FS_Interval
  <2>3. IsFiniteSet(A) /\ Cardinality(A) <= Len(q)
    BY <2>1, <2>2, FS_Subset DEF AsUrgent
  <2>4. Cardinality(A) \in Nat
    BY <2>3, FS_CardinalityType
  <2> QED BY <2>1, <2>3, <2>4 DEF PlaceOf
<1> DEFINE before == SubSeq(q, 1, k - 1)
           after == SubSeq(q, k, Len(q))
<1>2. Insert(q, c) = before \o <<c>> \o after
  BY DEF Insert, InsertAt, PlaceOf, AsUrgent
<1> HIDE DEF k, A
<1>3. /\ before \in Seq(Call)
      /\ Len(before) = k - 1
      /\ \A i \in 1..k - 1 : before[i] = q[i]
  BY <1>1
<1>4. /\ after \in Seq(Call)
      /\ Len(after) = Len(q) - k + 1
      /\ \A i \in 1..Len(q) - k + 1 : after[i] = q[k + i - 1]
  BY <1>1
<1> HIDE DEF before, after
<1> DEFINE head == before \o <<c>>
<1>5. /\ head \in Seq(Call)
      /\ Len(head) = k
      /\ \A i \in 1..k : head[i] = IF i < k THEN q[i] ELSE c
  <2>1. <<c>> \in Seq(Call) /\ Len(<<c>>) = 1 /\ <<c>>[1] = c
    OBVIOUS
  <2> QED BY <1>1, <1>3, <2>1, ConcatProperties, SMTT(30)
<1>6. Insert(q, c) = head \o after
  BY <1>2
<1> HIDE DEF head
<1>7. /\ Insert(q, c) \in Seq(Call)
      /\ Len(Insert(q, c)) = Len(q) + 1
      /\ \A i \in 1..Len(q) + 1 : Insert(q, c)[i] = IF i <= k THEN head[i] ELSE after[i - k]
  <2>1. Len(q) \in Nat /\ Len(head) + Len(after) = Len(q) + 1
    BY <1>1, <1>4, <1>5, LenProperties
  <2>2. /\ head \o after \in Seq(Call)
        /\ Len(head \o after) = Len(head) + Len(after)
        /\ \A i \in 1..Len(head) + Len(after) :
             (head \o after)[i] = IF i <= Len(head) THEN head[i] ELSE after[i - Len(head)]
    BY <1>4, <1>5, ConcatProperties
  <2> QED BY <1>5, <1>6, <2>1, <2>2
<1>8. ASSUME NEW i \in 1..Len(q) + 1
      PROVE  Insert(q, c)[i] = IF i < k THEN q[i] ELSE IF i = k THEN c ELSE q[i - 1]
  <2>1. Len(q) \in Nat
    BY LenProperties
  <2>2. CASE i <= k
    BY <1>1, <1>5, <1>7, <2>1, <2>2
  <2>3. CASE i > k
    <3>1. i - k \in 1..Len(q) - k + 1 /\ k + (i - k) - 1 = i - 1
      BY <1>1, <2>1, <2>3
    <3>2. after[i - k] = q[i - 1]
      BY <1>4, <3>1
    <3> QED BY <1>1, <1>7, <2>1, <2>3, <3>2
  <2> QED BY <1>1, <2>1, <2>2, <2>3
<1>9. PlacedAt(Insert(q, c), q, c, k)
  BY <1>8 DEF PlacedAt
<1> QED BY <1>1, <1>7, <1>9 DEF k

LEMMA RemoveFacts ==
  ASSUME NEW q \in Seq(Call), NEW n \in 1..Len(q)
  PROVE  /\ RemoveAt(q, n) \in Seq(Call)
         /\ Len(RemoveAt(q, n)) = Len(q) - 1
         /\ \A i \in 1..Len(q) - 1 : RemoveAt(q, n)[i] = IF i < n THEN q[i] ELSE q[i + 1]
<1> DEFINE before == SubSeq(q, 1, n - 1)
           after == SubSeq(q, n + 1, Len(q))
<1>1. /\ before \in Seq(Call)
      /\ Len(before) = n - 1
      /\ \A i \in 1..n - 1 : before[i] = q[i]
  OBVIOUS
<1>2. /\ after \in Seq(Call)
      /\ Len(after) = Len(q) - n
      /\ \A i \in 1..Len(q) - n : after[i] = q[n + i]
  OBVIOUS
<1>3. RemoveAt(q, n) = before \o after
  BY DEF RemoveAt
<1> HIDE DEF before, after
<1>4. /\ RemoveAt(q, n) \in Seq(Call)
      /\ Len(RemoveAt(q, n)) = Len(q) - 1
      /\ \A i \in 1..Len(q) - 1 :
           RemoveAt(q, n)[i] = IF i <= n - 1 THEN before[i] ELSE after[i - (n - 1)]
  <2>1. Len(q) \in Nat
    BY LenProperties
  <2>2. /\ before \o after \in Seq(Call)
        /\ Len(before \o after) = Len(before) + Len(after)
        /\ \A i \in 1..Len(before) + Len(after) :
             (before \o after)[i] = IF i <= Len(before) THEN before[i] ELSE after[i - Len(before)]
    BY <1>1, <1>2, ConcatProperties
  <2>3. Len(before) = n - 1 /\ Len(before) + Len(after) = Len(q) - 1
    BY <1>1, <1>2, <2>1
  <2> QED BY <1>3, <2>2, <2>3
<1>5. ASSUME NEW i \in 1..Len(q) - 1
      PROVE  RemoveAt(q, n)[i] = IF i < n THEN q[i] ELSE q[i + 1]
  <2>1. Len(q) \in Nat
    BY LenProperties
  <2>2. CASE i < n
    BY <1>1, <1>4, <2>1, <2>2
  <2>3. CASE i >= n
    <3>1. i - (n - 1) \in 1..Len(q) - n /\ n + (i - (n - 1)) = i + 1
      BY <2>1, <2>3
    <3>2. after[i - (n - 1)] = q[i + 1]
      BY <1>2, <3>1
    <3> QED BY <1>4, <2>1, <2>3, <3>2
  <2> QED BY <2>1, <2>2, <2>3
<1> QED BY <1>4, <1>5

LEMMA PrefixFacts ==
  ASSUME NEW q \in Seq(Call), NEW n \in 1..Len(q)
  PROVE  /\ SubSeq(q, 1, n - 1) \in Seq(Call)
         /\ Len(SubSeq(q, 1, n - 1)) = n - 1
         /\ \A i \in 1..n - 1 : SubSeq(q, 1, n - 1)[i] = q[i]
OBVIOUS

LEMMA FrontFacts ==
  ASSUME NEW q \in Seq(Call), Len(q) >= 1
  PROVE  /\ Front(q) \in Seq(Call)
         /\ Len(Front(q)) = Len(q) - 1
         /\ \A i \in 1..Len(q) - 1 : Front(q)[i] = q[i]
         /\ Last(q) \in Call
<1>1. Len(q) \in 1..Len(q)
  BY LenProperties
<1> QED BY <1>1, PrefixFacts, ElementOfSeq DEF Front, Last

-----------------------------------------------------------------------------
LEMMA InitIInv == Init => IInv
<1> SUFFICES ASSUME Init PROVE IInv
  OBVIOUS
<1>1. BookingsTypeOK /\ Bounded
  BY LimitFacts DEF Init, BookingsTypeOK, Bounded
<1>2. BookingsExact
  <2>1. /\ \A l \in WindowLane : {c \in thisMinute : laneOf[c] = l} = {}
        /\ \A d \in Device : {c \in thisDay \cap Budgeted : DeviceOf(c) = d} = {}
        /\ thisDay = {}
    BY DEF Init
  <2> QED BY <2>1, FS_EmptySet DEF Init, BookingsExact
<1>3. FlowTypeOK
  BY EmptySeq DEF Init, FlowTypeOK, Status
<1>5. BookedCallsAreOut
  BY DEF Init, BookedCallsAreOut
<1>6. CallersOK
  BY DEF Init, CallersOK
<1>4. QueueOK
  BY DEF Init, QueueOK
<1> QED BY <1>1, <1>2, <1>3, <1>4, <1>5, <1>6 DEF IInv, Books, Flow

\* A refused call is no longer waiting and its caller, if any, knows.
LEMMA RefuseNew ==
  ASSUME Flow, Idle, NEW c \in Call, status[c] = "new", NEW why \in Refusal, Refuse({c}, why),
         UNCHANGED <<stopped, queue, walk, bookings>>
  PROVE  Flow'
<1>1. FlowTypeOK'
  BY DEF Flow, FlowTypeOK, Refuse, Rejecting, Refusal, Status
<1>2. BookedCallsAreOut'
  BY DEF Flow, BookedCallsAreOut, Refuse, bookings
<1>3. QueueOK'
  BY DEF Flow, QueueOK, FlowTypeOK, Refuse, Refusal
<1>4. CallersOK'
  BY DEF Flow, CallersOK, FlowTypeOK, Refuse, Rejecting
<1> QED BY <1>1, <1>2, <1>3, <1>4 DEF Flow

\* A new call takes its place among the waiting ones of q: all waiting calls,
\* but for the evicted ones.
TakesPlace(c, q, E) ==
  /\ \A x \in Call : (status[x] = "queued" /\ x \notin E) <=> \E i \in DOMAIN q : q[i] = x
  /\ \A i, j \in DOMAIN q : q[i] = q[j] => i = j
  /\ \A x \in E : status[x] = "queued"
  /\ queue' = Insert(q, c)
  /\ status' = [x \in Call |-> IF x = c THEN "queued" ELSE IF x \in E THEN "evicted" ELSE status[x]]
  /\ promise' = Rejecting(Awaited(c), E)
  /\ UNCHANGED <<stopped, walk, bookings>>

LEMMA QueueNew ==
  ASSUME Flow, Idle, NEW c \in Call, status[c] = "new", ~stopped,
         NEW q \in Seq(Call), NEW E \in SUBSET Call, c \notin E, TakesPlace(c, q, E)
  PROVE  Flow'
<1> USE DEF TakesPlace
<1>9. PICK k \in 1..Len(q) + 1 : PlacedAt(Insert(q, c), q, c, k)
  BY InsertFacts
<1>1. /\ queue' \in Seq(Call) /\ Len(queue') = Len(q) + 1 /\ k \in 1..Len(q) + 1
      /\ \A i \in 1..Len(q) + 1 :
           queue'[i] = IF i < k THEN q[i] ELSE IF i = k THEN c ELSE q[i - 1]
  BY <1>9, InsertFacts DEF PlacedAt
<1>2. Len(q) \in Nat /\ DOMAIN q = 1..Len(q) /\ DOMAIN queue' = 1..Len(q) + 1
  BY <1>1, LenProperties
<1>3. FlowTypeOK'
  BY <1>1 DEF Flow, FlowTypeOK, Rejecting, Awaited, Status, Refusal
<1>4. BookedCallsAreOut'
  BY DEF Flow, BookedCallsAreOut, FlowTypeOK, BookingsTypeOK, bookings
<1>5. \A i \in DOMAIN q : q[i] # c
  BY DEF Flow, FlowTypeOK
<1>6. QueueOK'
  <2>1. ASSUME NEW x \in Call
        PROVE  status'[x] = "queued" <=> \E i \in DOMAIN queue' : queue'[i] = x
    <3>1. CASE x = c
      BY <1>1, <1>2, <3>1
    <3>2. CASE x # c
      <4>1. status'[x] = "queued" <=> \E i \in DOMAIN q : q[i] = x
        BY <3>2
      <4>2. ASSUME NEW i \in DOMAIN q, q[i] = x
            PROVE  \E j \in DOMAIN queue' : queue'[j] = x
        <5>1. CASE i < k
          BY <1>1, <1>2, <4>2, <5>1
        <5>2. CASE i >= k
          <6>1. i + 1 \in DOMAIN queue' /\ queue'[i + 1] = q[i]
            BY <1>1, <1>2, <5>2
          <6> QED BY <4>2, <6>1
        <5> QED BY <1>2, <5>1, <5>2
      <4>3. ASSUME NEW j \in DOMAIN queue', queue'[j] = x
            PROVE  \E i \in DOMAIN q : q[i] = x
        <5>1. CASE j < k
          BY <1>1, <1>2, <4>3, <5>1
        <5>2. CASE j > k
          <6>1. j - 1 \in DOMAIN q /\ q[j - 1] = x
            BY <1>1, <1>2, <4>3, <5>2
          <6> QED BY <6>1
        <5> QED BY <1>1, <1>2, <3>2, <4>3, <5>1, <5>2
      <4> QED BY <4>1, <4>2, <4>3
    <3> QED BY <3>1, <3>2
  <2>2. ASSUME NEW i \in DOMAIN queue', NEW j \in DOMAIN queue', queue'[i] = queue'[j], i < j
        PROVE  FALSE
    <3>1. CASE j < k
      BY <1>1, <1>2, <2>2, <3>1
    <3>2. CASE j = k
      <4>1. queue'[i] = q[i] /\ i \in DOMAIN q /\ queue'[j] = c
        BY <1>1, <1>2, <2>2, <3>2
      <4> QED BY <1>5, <2>2, <4>1
    <3>3. CASE j > k /\ i < k
      <4>1. i \in DOMAIN q /\ j - 1 \in DOMAIN q /\ q[i] = q[j - 1] /\ i # j - 1
        BY <1>1, <1>2, <2>2, <3>3
      <4> QED BY <4>1
    <3>4. CASE i = k
      <4>1. queue'[j] = q[j - 1] /\ j - 1 \in DOMAIN q /\ queue'[i] = c
        BY <1>1, <1>2, <2>2, <3>4
      <4> QED BY <1>5, <2>2, <4>1
    <3>5. CASE i > k
      <4>1. i - 1 \in DOMAIN q /\ j - 1 \in DOMAIN q /\ q[i - 1] = q[j - 1] /\ i - 1 # j - 1
        BY <1>1, <1>2, <2>2, <3>5
      <4> QED BY <4>1
    <3> QED BY <1>1, <1>2, <2>2, <3>1, <3>2, <3>3, <3>4, <3>5
  <2>3. \A i, j \in DOMAIN queue' : queue'[i] = queue'[j] => i = j
    BY <1>2, <2>2
  <2>4. walk' \in 0..Len(queue')
    BY <1>1, <1>2 DEF Idle
  <2> QED BY <2>1, <2>3, <2>4 DEF QueueOK
<1>7. CallersOK'
  BY DEF Flow, FlowTypeOK, CallersOK, Rejecting, Awaited
<1> QED BY <1>3, <1>4, <1>6, <1>7 DEF Flow

\* The five outcomes of enqueue.
LEMMA EnqueueFlow ==
  ASSUME Flow, Idle, NEW c \in Call, status[c] = "new", Enqueue(c),
         UNCHANGED <<stopped, walk, bookings>>
  PROVE  Flow'
<1>1. queue \in Seq(Call) /\ DOMAIN queue = 1..Len(queue) /\ Len(queue) \in Nat
  BY LenProperties DEF Flow, FlowTypeOK
<1>2. CASE \E why \in Refusal : Refuse({c}, why) /\ UNCHANGED queue
  BY <1>2, RefuseNew
<1>3. CASE ~stopped /\ queue' = Insert(queue, c)
           /\ status' = [status EXCEPT ![c] = "queued"] /\ promise' = Awaited(c)
  <2>1. status' = [x \in Call |-> IF x = c THEN "queued"
                                  ELSE IF x \in {} THEN "evicted" ELSE status[x]]
    BY <1>3 DEF Flow, FlowTypeOK
  <2>2. promise' = Rejecting(Awaited(c), {})
    BY <1>3 DEF Rejecting, Awaited, Flow, FlowTypeOK
  <2>3. /\ \A x \in Call : (status[x] = "queued" /\ x \notin {}) <=> \E i \in DOMAIN queue : queue[i] = x
        /\ \A i, j \in DOMAIN queue : queue[i] = queue[j] => i = j
    BY DEF Flow, QueueOK
  <2>4. TakesPlace(c, queue, {})
    BY <1>3, <2>1, <2>2, <2>3 DEF TakesPlace
  <2> QED BY <1>1, <1>3, <2>4, QueueNew
<1>4. CASE /\ ~stopped /\ Len(queue) >= MaxQueueLength
           /\ queue' = Insert(Front(queue), c)
           /\ status' = [status EXCEPT ![c] = "queued", ![Last(queue)] = "evicted"]
           /\ promise' = Rejecting(Awaited(c), {Last(queue)})
  <2> DEFINE q == Front(queue)
             t == Last(queue)
  <2>1. Len(queue) >= 1
    BY <1>1, <1>4, LimitFacts
  <2>2. /\ q \in Seq(Call) /\ Len(q) = Len(queue) - 1 /\ t \in Call
        /\ \A i \in 1..Len(queue) - 1 : q[i] = queue[i]
        /\ DOMAIN q = 1..Len(queue) - 1
    BY <1>1, <2>1, FrontFacts, LenProperties
  <2>3. t = queue[Len(queue)] /\ Len(queue) \in DOMAIN queue
    BY <1>1, <2>1 DEF Last
  <2> HIDE DEF q, t
  <2>4. status[t] = "queued" /\ c # t
    BY <2>2, <2>3 DEF Flow, QueueOK
  <2>5. ASSUME NEW x \in Call
        PROVE  (status[x] = "queued" /\ x \notin {t}) <=> \E i \in DOMAIN q : q[i] = x
    <3>1. status[x] = "queued" <=> \E i \in DOMAIN queue : queue[i] = x
      BY DEF Flow, QueueOK
    <3>2. ASSUME NEW i \in DOMAIN queue, queue[i] = x, x # t PROVE i \in DOMAIN q /\ q[i] = x
      BY <1>1, <2>1, <2>2, <2>3, <3>2
    <3>3. ASSUME NEW i \in DOMAIN q, q[i] = x PROVE i \in DOMAIN queue /\ queue[i] = x /\ x # t
      <4>1. i \in DOMAIN queue /\ queue[i] = x /\ i # Len(queue)
        BY <1>1, <2>1, <2>2, <3>3
      <4>2. queue[i] # queue[Len(queue)]
        BY <4>1, <2>3 DEF Flow, QueueOK
      <4> QED BY <2>3, <4>1, <4>2
    <3> QED BY <3>1, <3>2, <3>3
  <2>6. \A i, j \in DOMAIN q : q[i] = q[j] => i = j
    BY <1>1, <2>2 DEF Flow, QueueOK
  <2>7. status' = [x \in Call |-> IF x = c THEN "queued"
                                  ELSE IF x \in {t} THEN "evicted" ELSE status[x]]
    BY <1>4, <2>4 DEF Flow, FlowTypeOK, t
  <2>8. queue' = Insert(q, c) /\ promise' = Rejecting(Awaited(c), {t})
    BY <1>4 DEF q, t
  <2>9. TakesPlace(c, q, {t})
    BY <2>4, <2>5, <2>6, <2>7, <2>8 DEF TakesPlace
  <2> QED BY <1>4, <2>2, <2>4, <2>9, QueueNew
<1> QED BY <1>2, <1>3, <1>4 DEF Enqueue, Refusal

\* A call starts: at once, or out of the queue.
LEMMA StartNew ==
  ASSUME Flow, Idle, NEW c \in Call, status[c] = "new", Spend(c),
         status' = [status EXCEPT ![c] = "running"], promise' = Awaited(c),
         UNCHANGED <<stopped, queue, walk>>
  PROVE  Flow'
<1>1. FlowTypeOK'
  BY DEF Flow, FlowTypeOK, Awaited, Status
<1>2. BookedCallsAreOut'
  BY DEF Flow, FlowTypeOK, BookedCallsAreOut, Spend
<1>3. QueueOK'
  BY DEF Flow, FlowTypeOK, QueueOK
<1>4. CallersOK'
  BY DEF Flow, FlowTypeOK, CallersOK, Awaited
<1> QED BY <1>1, <1>2, <1>3, <1>4 DEF Flow

\* The loop takes the call at its position out of the queue.
LEMMA WalkRemoves ==
  ASSUME Flow, ~Idle, NEW s \in {"running", "device-spent"},
         queue' = RemoveAt(queue, walk),
         walk' = IF walk > Len(RemoveAt(queue, walk)) THEN 0 ELSE walk,
         status' = [status EXCEPT ![queue[walk]] = s]
  PROVE  queue' \in Seq(Call) /\ QueueOK'
<1> DEFINE c == queue[walk]
<1>1. /\ queue \in Seq(Call) /\ DOMAIN queue = 1..Len(queue) /\ Len(queue) \in Nat
      /\ walk \in 1..Len(queue)
  BY LenProperties DEF Flow, FlowTypeOK, QueueOK, Idle
<1>2. /\ queue' \in Seq(Call) /\ Len(queue') = Len(queue) - 1
      /\ \A i \in 1..Len(queue) - 1 : queue'[i] = IF i < walk THEN queue[i] ELSE queue[i + 1]
  BY <1>1, RemoveFacts
<1>3. DOMAIN queue' = 1..Len(queue) - 1
  BY <1>2, LenProperties
<1>4. c \in Call
  BY <1>1, ElementOfSeq
<1>5. \A i, j \in DOMAIN queue : queue[i] = queue[j] => i = j
  BY DEF Flow, QueueOK
<1>6. ASSUME NEW x \in Call
      PROVE  status'[x] = "queued" <=> \E i \in DOMAIN queue' : queue'[i] = x
  <2>1. status'[x] = "queued" <=> status[x] = "queued" /\ x # c
    BY <1>4 DEF Flow, FlowTypeOK
  <2>2. status[x] = "queued" <=> \E i \in DOMAIN queue : queue[i] = x
    BY DEF Flow, QueueOK
  <2>3. ASSUME NEW i \in DOMAIN queue, queue[i] = x, x # c
        PROVE  \E j \in DOMAIN queue' : queue'[j] = x
    <3>1. CASE i < walk
      BY <1>1, <1>2, <1>3, <2>3, <3>1
    <3>2. CASE i > walk
      <4>1. i - 1 \in DOMAIN queue' /\ queue'[i - 1] = x
        BY <1>1, <1>2, <1>3, <2>3, <3>2
      <4> QED BY <4>1
    <3> QED BY <1>1, <2>3, <3>1, <3>2
  <2>4. ASSUME NEW j \in DOMAIN queue', queue'[j] = x
        PROVE  x # c /\ \E i \in DOMAIN queue : queue[i] = x
    <3>1. PICK i \in DOMAIN queue : i # walk /\ queue[i] = x
      <4>1. CASE j < walk
        BY <1>1, <1>2, <1>3, <2>4, <4>1
      <4>2. CASE j >= walk
        <5>1. j + 1 \in DOMAIN queue /\ j + 1 # walk /\ queue[j + 1] = x
          BY <1>1, <1>2, <1>3, <2>4, <4>2
        <5> QED BY <5>1
      <4> QED BY <1>1, <1>3, <4>1, <4>2
    <3> QED BY <1>1, <1>5, <3>1
  <2> HIDE DEF c
  <2> QED BY <2>1, <2>2, <2>3, <2>4
<1>7. ASSUME NEW i \in DOMAIN queue', NEW j \in DOMAIN queue', queue'[i] = queue'[j], i < j
      PROVE  FALSE
  <2> DEFINE at(n) == IF n < walk THEN n ELSE n + 1
  <2>1. /\ at(i) \in DOMAIN queue /\ at(j) \in DOMAIN queue /\ at(i) # at(j)
        /\ queue[at(i)] = queue'[i] /\ queue[at(j)] = queue'[j]
    BY <1>1, <1>2, <1>3, <1>7
  <2> QED BY <1>5, <1>7, <2>1
<1>8. walk' \in 0..Len(queue')
  BY <1>1, <1>2
<1>9. \A i, j \in DOMAIN queue' : queue'[i] = queue'[j] => i = j
  BY <1>1, <1>3, <1>7
<1> QED BY <1>2, <1>6, <1>8, <1>9 DEF QueueOK

LEMMA WalkFlow ==
  ASSUME Books, Flow, WalkTurn
  PROVE  Books' /\ Flow'
<1> DEFINE c == queue[walk]
<1>1. walk \in 1..Len(queue) /\ ~Idle /\ Len(queue) \in Nat /\ c \in Call /\ status[c] = "queued"
  <2>1. queue \in Seq(Call) /\ Len(queue) \in Nat /\ DOMAIN queue = 1..Len(queue)
    BY LenProperties DEF Flow, FlowTypeOK
  <2>2. walk \in 1..Len(queue) /\ ~Idle
    BY <2>1 DEF Flow, QueueOK, Idle, WalkTurn
  <2>3. c \in Call
    BY <2>1, <2>2, ElementOfSeq
  <2> QED BY <2>1, <2>2, <2>3 DEF Flow, QueueOK
<1>2. CASE ~CanMakeCall(c)
  <2>1. /\ walk' = IF walk + 1 > Len(queue) THEN 0 ELSE walk + 1
        /\ UNCHANGED <<stopped, queue, bookings, status, promise>>
    BY <1>2 DEF WalkTurn
  <2>2. Books'
    BY <2>1 DEF Books, BookingsTypeOK, BookingsExact, Bounded, bookings
  <2>3. FlowTypeOK' /\ BookedCallsAreOut' /\ CallersOK'
    BY <2>1 DEF Flow, FlowTypeOK, BookedCallsAreOut, CallersOK, bookings
  <2>4. QueueOK'
    BY <1>1, <2>1 DEF Flow, QueueOK
  <2> QED BY <2>2, <2>3, <2>4 DEF Flow
<1>3. CASE CanMakeCall(c)
  <2>1. /\ queue' = RemoveAt(queue, walk)
        /\ walk' = IF walk > Len(RemoveAt(queue, walk)) THEN 0 ELSE walk
        /\ UNCHANGED stopped
    BY <1>3 DEF WalkTurn
  <2>2. stopped = FALSE
    BY <1>1 DEF Flow, FlowTypeOK, CallersOK
  <2>3. CASE DeviceBudgetSpent(c)
    <3>1. Refuse({c}, "device-spent") /\ UNCHANGED bookings
      BY <1>3, <2>3 DEF WalkTurn
    <3>2. status' = [status EXCEPT ![c] = "device-spent"]
      BY <3>1 DEF Refuse, Flow, FlowTypeOK
    <3>3. queue' \in Seq(Call) /\ QueueOK'
      BY <1>1, <2>1, <3>2, WalkRemoves
    <3>4. Books'
      BY <3>1 DEF Books, BookingsTypeOK, BookingsExact, Bounded, bookings
    <3>5. FlowTypeOK'
      BY <2>1, <3>1, <3>3 DEF Flow, FlowTypeOK, Refuse, Rejecting, Status, Refusal
    <3>6. BookedCallsAreOut'
      BY <1>1, <3>1, <3>2 DEF Flow, FlowTypeOK, BookedCallsAreOut, bookings
    <3>7. CallersOK'
      BY <1>1, <2>1, <2>2, <3>1 DEF Flow, FlowTypeOK, CallersOK, Refuse, Rejecting
    <3> QED BY <3>3, <3>4, <3>5, <3>6, <3>7 DEF Flow
  <2>4. CASE ~DeviceBudgetSpent(c)
    <3>1. Spend(c) /\ status' = [status EXCEPT ![c] = "running"] /\ UNCHANGED promise
      BY <1>3, <2>4 DEF WalkTurn
    <3>2. queue' \in Seq(Call) /\ QueueOK'
      BY <1>1, <2>1, <3>1, WalkRemoves
    <3>3. c \notin thisMinute /\ c \notin thisDay
      BY <1>1 DEF Flow, BookedCallsAreOut
    <3>4. Books'
      BY <1>1, <1>3, <2>4, <3>1, <3>3, SpendBooks
    <3>5. FlowTypeOK'
      BY <2>1, <3>1, <3>2 DEF Flow, FlowTypeOK, Status
    <3>6. BookedCallsAreOut'
      BY <1>1, <3>1 DEF Flow, FlowTypeOK, BookedCallsAreOut, Spend
    <3>7. CallersOK'
      BY <1>1, <2>1, <2>2, <3>1 DEF Flow, FlowTypeOK, CallersOK
    <3> QED BY <3>2, <3>4, <3>5, <3>6, <3>7 DEF Flow
  <2> QED BY <2>3, <2>4
<1> QED BY <1>2, <1>3

\* tryExecute and executeTracked.
LEMMA SubmitStep ==
  ASSUME IInv, NEW c \in Call, Submit(c)
  PROVE  IInv'
<1> USE DEF IInv
<1>1. Idle /\ status[c] = "new" /\ UNCHANGED <<stopped, walk>>
  BY DEF Submit
<1>2. CASE DeviceBudgetSpent(c)
  <2>1. Refuse({c}, "device-spent") /\ UNCHANGED <<queue, bookings>>
    BY <1>2 DEF Submit
  <2>2. Books'
    BY <2>1 DEF Books, BookingsTypeOK, BookingsExact, Bounded, bookings
  <2> QED BY <1>1, <2>1, <2>2, RefuseNew DEF Refusal
<1>3. CASE ~DeviceBudgetSpent(c) /\ CanMakeCall(c)
  <2>1. /\ Spend(c) /\ status' = [status EXCEPT ![c] = "running"] /\ promise' = Awaited(c)
        /\ UNCHANGED queue
    BY <1>3 DEF Submit
  <2>2. c \notin thisMinute /\ c \notin thisDay
    BY <1>1 DEF Flow, BookedCallsAreOut
  <2> QED BY <1>1, <1>3, <2>1, <2>2, SpendBooks, StartNew
<1>4. CASE ~DeviceBudgetSpent(c) /\ ~CanMakeCall(c)
  <2>1. Enqueue(c) /\ UNCHANGED bookings
    BY <1>4 DEF Submit
  <2>2. Books'
    BY <2>1 DEF Books, BookingsTypeOK, BookingsExact, Bounded, bookings
  <2> QED BY <1>1, <2>1, <2>2, EnqueueFlow
<1> QED BY <1>2, <1>3, <1>4

LEMMA SettleStep ==
  ASSUME IInv, NEW c \in Call, NEW neverSent \in BOOLEAN, NEW failed \in BOOLEAN,
         Settle(c, neverSent, failed)
  PROVE  IInv'
<1> USE DEF IInv
<1>1. /\ Idle /\ status[c] = "running" /\ UNCHANGED <<stopped, queue, walk>>
      /\ status' = [status EXCEPT ![c] = IF neverSent THEN "given-back" ELSE "done"]
      /\ promise' = IF c \in Tracked
                      THEN [promise EXCEPT ![c] = IF failed THEN "rejected" ELSE "resolved"]
                      ELSE promise
      /\ neverSent => Refund(c)
      /\ ~neverSent => UNCHANGED bookings
  BY DEF Settle
<1>2. Books'
  <2>1. CASE neverSent
    BY <1>1, <2>1, RefundBooks
  <2>2. CASE ~neverSent
    BY <1>1, <2>2 DEF Books, BookingsTypeOK, BookingsExact, Bounded, bookings
  <2> QED BY <2>1, <2>2
<1>3. FlowTypeOK'
  BY <1>1 DEF Flow, FlowTypeOK, Status
<1>4. BookedCallsAreOut'
  <2>1. CASE neverSent
    BY <1>1, <2>1 DEF Flow, FlowTypeOK, BookedCallsAreOut, Refund
  <2>2. CASE ~neverSent
    BY <1>1, <2>2 DEF Flow, FlowTypeOK, BookedCallsAreOut, bookings
  <2> QED BY <2>1, <2>2
<1>5. QueueOK'
  BY <1>1 DEF Flow, FlowTypeOK, QueueOK
<1>6. CallersOK'
  BY <1>1 DEF Flow, FlowTypeOK, CallersOK
<1> QED BY <1>2, <1>3, <1>4, <1>5, <1>6 DEF Flow

\* The whole queue is refused: by a spent day, or by stop.
LEMMA RefuseAll ==
  ASSUME Flow, Idle, NEW why \in Refusal, Refuse(Range(queue), why), queue' = <<>>, walk' = walk,
         stopped' \in BOOLEAN, thisDay' = thisDay, thisMinute' \subseteq thisMinute
  PROVE  Flow'
<1>1. Range(queue) = {x \in Call : status[x] = "queued"}
  BY ElementOfSeq, LenProperties DEF Range, Flow, FlowTypeOK, QueueOK
<1>2. FlowTypeOK'
  BY EmptySeq DEF Flow, FlowTypeOK, Refuse, Rejecting, Status, Refusal
<1>3. BookedCallsAreOut'
  BY <1>1 DEF Flow, FlowTypeOK, BookedCallsAreOut, Refuse
<1>4. QueueOK'
  <2>1. \A x \in Call : status'[x] # "queued"
    BY <1>1 DEF Refuse, Refusal
  <2>2. Len(queue') = 0 /\ DOMAIN queue' = {}
    OBVIOUS
  <2> QED BY <2>1, <2>2 DEF QueueOK, Idle
<1>5. CallersOK'
  BY <1>1 DEF Flow, FlowTypeOK, CallersOK, Refuse, Rejecting
<1> QED BY <1>2, <1>3, <1>4, <1>5 DEF Flow

LEMMA ProcessFlow ==
  ASSUME Flow, ProcessQueue, thisDay' = thisDay, thisMinute' \subseteq thisMinute
  PROVE  Flow'
<1>1. Idle /\ ~stopped /\ stopped' = stopped /\ stopped' \in BOOLEAN
  BY DEF ProcessQueue, Flow, FlowTypeOK
<1>2. CASE DayBudgetSpent
  BY <1>1, <1>2, RefuseAll DEF ProcessQueue, Refusal
<1>3. CASE ~DayBudgetSpent
  <2>1. walk' = (IF queue = <<>> THEN 0 ELSE 1) /\ UNCHANGED <<stopped, queue, status, promise>>
    BY <1>3 DEF ProcessQueue
  <2>2. walk' \in 0..Len(queue)
    <3>1. queue \in Seq(Call)
      BY DEF Flow, FlowTypeOK
    <3>2. queue # <<>> => Len(queue) \in Nat \ {0}
      BY <3>1, EmptySeq
    <3>3. Len(queue) \in Nat
      BY <3>1, LenProperties
    <3> QED BY <2>1, <3>2, <3>3
  <2> QED BY <2>1, <2>2 DEF Flow, FlowTypeOK, BookedCallsAreOut, QueueOK, CallersOK
<1> QED BY <1>2, <1>3

LEMMA ResetMinuteStep ==
  ASSUME IInv, ResetMinuteWindow
  PROVE  IInv'
<1>1. /\ thisMinute' = {} /\ used' = [l \in WindowLane |-> 0] /\ ProcessQueue
      /\ UNCHANGED <<deviceTokens, accountTokens, callsToday, callsTodayPerDevice,
                     notDeliveredToday, thisDay>>
  BY DEF ResetMinuteWindow
<1>2. Flow'
  BY <1>1, ProcessFlow DEF IInv
<1>3. BookingsTypeOK'
  BY <1>1 DEF IInv, Books, BookingsTypeOK
<1>4. \A l \in WindowLane : {c \in thisMinute' : laneOf[c] = l} = {}
  BY <1>1
<1>5. BookingsExact'
  BY <1>1, <1>4, FS_EmptySet DEF IInv, Books, BookingsExact
<1>6. Bounded'
  BY <1>1, LimitFacts DEF IInv, Books, Bounded
<1> QED BY <1>2, <1>3, <1>5, <1>6 DEF IInv, Books

LEMMA ResetDailyStep ==
  ASSUME IInv, ResetDaily
  PROVE  IInv'
<1>1. /\ callsToday' = 0 /\ notDeliveredToday' = 0 /\ thisDay' = {}
      /\ callsTodayPerDevice' = [d \in Device |-> 0]
      /\ UNCHANGED <<stopped, queue, walk, used, deviceTokens, accountTokens, thisMinute,
                     status, promise>>
  BY DEF ResetDaily
<1>2. Flow'
  BY <1>1 DEF IInv, Flow, FlowTypeOK, BookedCallsAreOut, QueueOK, CallersOK
<1>3. BookingsTypeOK'
  BY <1>1 DEF IInv, Books, BookingsTypeOK
<1>4. \A d \in Device : {c \in thisDay' \cap Budgeted : DeviceOf(c) = d} = {}
  BY <1>1
<1>5. BookingsExact'
  BY <1>1, <1>4, FS_EmptySet DEF IInv, Books, BookingsExact
<1>6. Bounded'
  BY <1>1, LimitFacts DEF IInv, Books, Bounded
<1> QED BY <1>2, <1>3, <1>5, <1>6 DEF IInv, Books

\* Neither refill touches a counter or a call.
LEMMA RefillStep ==
  ASSUME IInv,
         deviceTokens' \in [Device -> 0..DeviceBurst], accountTokens' \in 0..AccountBurst,
         UNCHANGED <<stopped, queue, walk, used, callsToday, callsTodayPerDevice,
                     notDeliveredToday, thisMinute, thisDay, status, promise>>
  PROVE  IInv'
<1>1. Flow'
  BY DEF IInv, Flow, FlowTypeOK, BookedCallsAreOut, QueueOK, CallersOK
<1>2. Books'
  BY DEF IInv, Books, BookingsTypeOK, BookingsExact, Bounded
<1> QED BY <1>1, <1>2 DEF IInv

LEMMA NextIInv ==
  ASSUME IInv, [Next]_vars
  PROVE  IInv'
<1>1. ASSUME NEW c \in Call, TryExecute(c) \/ ExecuteTracked(c) PROVE IInv'
  BY <1>1, SubmitStep DEF TryExecute, ExecuteTracked
<1>2. ASSUME NEW c \in Call, NEW neverSent \in BOOLEAN, NEW failed \in BOOLEAN,
             Settle(c, neverSent, failed)
      PROVE  IInv'
  BY <1>2, SettleStep
<1>3. ASSUME ProcessTick PROVE IInv'
  <2>1. ProcessQueue /\ UNCHANGED bookings
    BY <1>3 DEF ProcessTick
  <2>2. Flow'
    BY <2>1, ProcessFlow DEF IInv, bookings
  <2>3. Books'
    BY <2>1 DEF IInv, Books, BookingsTypeOK, BookingsExact, Bounded, bookings
  <2> QED BY <2>2, <2>3 DEF IInv
<1>4. ASSUME WalkTurn PROVE IInv'
  BY <1>4, WalkFlow DEF IInv
<1>5. ASSUME NEW d \in Device, RefillDevice(d) PROVE IInv'
  <2>1. deviceTokens' \in [Device -> 0..DeviceBurst]
    BY <1>5, LimitFacts DEF RefillDevice, IInv, Books, BookingsTypeOK
  <2> QED BY <1>5, <2>1, RefillStep DEF RefillDevice, IInv, Books, BookingsTypeOK
<1>6. ASSUME RefillAccount PROVE IInv'
  <2>1. accountTokens' \in 0..AccountBurst
    BY <1>6, LimitFacts DEF RefillAccount, IInv, Books, BookingsTypeOK
  <2> QED BY <1>6, <2>1, RefillStep DEF RefillAccount, IInv, Books, BookingsTypeOK
<1>7. ASSUME Stop PROVE IInv'
  <2>1. /\ Idle /\ Refuse(Range(queue), "stopped") /\ queue' = <<>> /\ stopped' = TRUE
        /\ UNCHANGED <<walk, bookings>>
    BY <1>7 DEF Stop
  <2>2. Flow'
    BY <2>1, RefuseAll DEF IInv, bookings, Refusal
  <2>3. Books'
    BY <2>1 DEF IInv, Books, BookingsTypeOK, BookingsExact, Bounded, bookings
  <2> QED BY <2>2, <2>3 DEF IInv
<1>8. ASSUME UNCHANGED vars PROVE IInv'
  BY <1>8 DEF vars, bookings, IInv, Books, BookingsTypeOK, BookingsExact, Bounded,
              Flow, FlowTypeOK, BookedCallsAreOut, QueueOK, CallersOK
<1> QED BY <1>1, <1>2, <1>3, <1>4, <1>5, <1>6, <1>7, <1>8, ResetMinuteStep, ResetDailyStep DEF Next

LEMMA Invariance == Spec => []IInv
BY InitIInv, NextIInv, PTL DEF Spec

-----------------------------------------------------------------------------
\* The types are part of the inductive invariant.
LEMMA TypesFollow == IInv => TypeOK
<1>1. IInv => walk \in Nat
  BY LenProperties DEF IInv, Flow, FlowTypeOK, QueueOK
<1> QED BY <1>1 DEF IInv, Books, BookingsTypeOK, Flow, FlowTypeOK, TypeOK

\* The counters equal the bookings that stand in their windows: a refund that
\* arrives after a reset never frees a slot of the new window.
THEOREM BookingsStayExact == Spec => []BudgetsAddUp
<1>1. IInv => BudgetsAddUp
  BY TypesFollow DEF IInv, Books, BudgetsAddUp
<1> QED BY <1>1, Invariance, PTL

\* No minute lane, no appliance and no day ever has more calls out than its limit.
THEOREM LimitsHold == Spec => []WithinLimits
<1>1. ASSUME IInv PROVE WithinLimits
  <2>1. thisMinute \cap Out = thisMinute /\ thisDay \cap Out = thisDay
    BY <1>1 DEF IInv, Flow, BookedCallsAreOut, Out
  <2> QED BY <1>1, <2>1 DEF IInv, Books, BookingsExact, Bounded, WithinLimits
<1> QED BY <1>1, Invariance, PTL

\* Whoever awaits a call awaits one that is queued exactly once or under way.
THEOREM CallersAreNotLost == Spec => []NoLostCaller
<1>1. IInv => NoLostCaller
  BY DEF IInv, Flow, QueueOK, CallersOK, NoLostCaller
<1> QED BY <1>1, Invariance, PTL

-----------------------------------------------------------------------------
\* What a step means to the allowances: a call is charged, given back or
\* delivered, or windows are forgotten; the calls that are done change with a
\* delivery alone.
StartsCall(c) ==
  /\ c \in Call \ (thisMinute \cup thisDay \cup Done)
  /\ CanMakeCall(c) /\ ~DeviceBudgetSpent(c)
  /\ thisMinute' = thisMinute \cup {c} /\ thisDay' = thisDay \cup {c}
  /\ Done' = Done
ReturnsCall(c) ==
  /\ c \in Call \ Done
  /\ thisMinute' = thisMinute \ {c} /\ thisDay' = thisDay \ {c}
  /\ Done' = Done
DeliversCall(c) ==
  /\ c \in Call
  /\ thisMinute' = thisMinute /\ thisDay' = thisDay
  /\ Done' = Done \cup {c}
ForgetsWindows ==
  /\ thisMinute' \in {thisMinute, {}} /\ thisDay' \in {thisDay, {}}
  /\ Done' = Done

\* The calls that are done change only with a status that is or was "done".
LEMMA DoneSame ==
  ASSUME \A c \in Call : status'[c] = "done" <=> status[c] = "done"
  PROVE  Done' = Done
BY DEF Done

\* Spend and Refund on the two windows.
LEMMA SpendStarts ==
  ASSUME IInv, NEW c \in Call, status[c] \in {"new", "queued"},
         CanMakeCall(c), ~DeviceBudgetSpent(c), Spend(c),
         status' = [status EXCEPT ![c] = "running"]
  PROVE  StartsCall(c)
<1>1. c \notin thisMinute /\ c \notin thisDay /\ c \notin Done
  BY DEF IInv, Flow, BookedCallsAreOut, Done
<1>2. Done' = Done
  BY DoneSame DEF IInv, Flow, FlowTypeOK
<1> QED BY <1>1, <1>2 DEF StartsCall, Spend

\* Refusing calls that have not run delivers nothing.
LEMMA RefuseDelivers ==
  ASSUME IInv, NEW S \in SUBSET Call, \A c \in S : status[c] \in {"new", "queued"},
         NEW why \in Refusal, Refuse(S, why)
  PROVE  Done' = Done
<1>1. \A c \in Call : status'[c] = "done" <=> status[c] = "done"
  BY DEF Refuse, Refusal
<1> QED BY <1>1, DoneSame

\* A submitted call is charged, or waits or is refused.
LEMMA SubmitKind ==
  ASSUME IInv, NEW c \in Call, Submit(c)
  PROVE  StartsCall(c) \/ ForgetsWindows
<1>1. status[c] = "new"
  BY DEF Submit
<1>2. CASE DeviceBudgetSpent(c)
  <2>1. Refuse({c}, "device-spent") /\ UNCHANGED bookings
    BY <1>2 DEF Submit
  <2> QED BY <1>1, <2>1, RefuseDelivers DEF Refusal, ForgetsWindows, bookings
<1>3. CASE ~DeviceBudgetSpent(c) /\ CanMakeCall(c)
  BY <1>1, <1>3, SpendStarts DEF Submit
<1>4. CASE ~DeviceBudgetSpent(c) /\ ~CanMakeCall(c)
  <2>1. Enqueue(c) /\ UNCHANGED bookings
    BY <1>4 DEF Submit
  <2>2. Done' = Done
    <3>1. CASE stopped \/ DayBudgetSpent
      <4>1. Refuse({c}, "stopped") \/ Refuse({c}, "day-spent")
        BY <2>1, <3>1 DEF Enqueue
      <4> QED BY <1>1, <4>1, RefuseDelivers DEF Refusal
    <3>2. CASE /\ ~stopped /\ ~DayBudgetSpent
               /\ Len(queue) >= MaxQueueLength /\ ~Outranks(c, Last(queue))
      <4>1. Refuse({c}, "queue-full")
        BY <2>1, <3>2, LenProperties, LimitFacts DEF Enqueue, IInv, Flow, FlowTypeOK
      <4> QED BY <1>1, <4>1, RefuseDelivers DEF Refusal
    <3>3. CASE ~stopped /\ ~DayBudgetSpent /\ Len(queue) < MaxQueueLength
      <4>1. status' = [status EXCEPT ![c] = "queued"]
        BY <2>1, <3>3, LenProperties, LimitFacts DEF Enqueue, IInv, Flow, FlowTypeOK
      <4> QED BY <1>1, <4>1, DoneSame DEF IInv, Flow, FlowTypeOK
    <3>4. CASE /\ ~stopped /\ ~DayBudgetSpent
               /\ Len(queue) >= MaxQueueLength /\ Outranks(c, Last(queue))
      <4>1. status' = [status EXCEPT ![c] = "queued", ![Last(queue)] = "evicted"]
        BY <2>1, <3>4, LenProperties, LimitFacts DEF Enqueue, IInv, Flow, FlowTypeOK
      <4>2. status[Last(queue)] = "queued"
        <5>1. Len(queue) \in DOMAIN queue /\ Last(queue) = queue[Len(queue)]
          BY <3>4, LenProperties, LimitFacts DEF IInv, Flow, FlowTypeOK, Last
        <5>2. Last(queue) \in Call
          BY <5>1, ElementOfSeq, LenProperties DEF IInv, Flow, FlowTypeOK
        <5> QED BY <5>1, <5>2 DEF IInv, Flow, QueueOK
      <4>3. \A x \in Call : status'[x] = "done" <=> status[x] = "done"
        BY <1>1, <4>1, <4>2 DEF IInv, Flow, FlowTypeOK
      <4> QED BY <4>3, DoneSame
    <3> QED
      BY <3>1, <3>2, <3>3, <3>4, LenProperties, LimitFacts DEF IInv, Flow, FlowTypeOK
  <2> QED BY <2>1, <2>2 DEF ForgetsWindows, bookings
<1> QED BY <1>2, <1>3, <1>4

\* A call that settles is given back or counts as delivered.
LEMMA SettleKind ==
  ASSUME IInv, NEW c \in Call, NEW neverSent \in BOOLEAN, NEW failed \in BOOLEAN,
         Settle(c, neverSent, failed)
  PROVE  ReturnsCall(c) \/ DeliversCall(c)
<1>1. /\ status[c] = "running"
      /\ status' = [status EXCEPT ![c] = IF neverSent THEN "given-back" ELSE "done"]
      /\ neverSent => Refund(c)
      /\ ~neverSent => UNCHANGED bookings
  BY DEF Settle
<1>2. CASE neverSent
  <2>1. \A x \in Call : status'[x] = "done" <=> status[x] = "done"
    BY <1>1, <1>2 DEF IInv, Flow, FlowTypeOK
  <2> QED BY <1>1, <1>2, <2>1, DoneSame DEF Refund, ReturnsCall, Done
<1>3. CASE ~neverSent
  <2>1. \A x \in Call : status'[x] = "done" <=> status[x] = "done" \/ x = c
    BY <1>1, <1>3 DEF IInv, Flow, FlowTypeOK
  <2>2. Done' = Done \cup {c}
    BY <2>1 DEF Done
  <2> QED BY <1>1, <1>3, <2>2 DEF DeliversCall, bookings
<1> QED BY <1>2, <1>3

\* The calls in the queue have not run.
LEMMA QueuedCalls ==
  ASSUME IInv
  PROVE  Range(queue) = {x \in Call : status[x] = "queued"}
BY ElementOfSeq, LenProperties DEF Range, IInv, Flow, FlowTypeOK, QueueOK

\* processQueue up to its loop delivers nothing.
LEMMA ProcessDelivers ==
  ASSUME IInv, ProcessQueue
  PROVE  Done' = Done
<1>1. CASE DayBudgetSpent
  BY <1>1, QueuedCalls, RefuseDelivers DEF ProcessQueue, Refusal
<1>2. CASE ~DayBudgetSpent
  BY <1>2 DEF ProcessQueue, Done
<1> QED BY <1>1, <1>2

\* One turn of the loop charges at most one call.
LEMMA WalkKind ==
  ASSUME IInv, WalkTurn
  PROVE  (\E c \in Call : StartsCall(c)) \/ ForgetsWindows
<1> DEFINE c == queue[walk]
<1>1. c \in Call /\ status[c] = "queued"
  <2>1. queue \in Seq(Call) /\ Len(queue) \in Nat /\ DOMAIN queue = 1..Len(queue)
    BY LenProperties DEF IInv, Flow, FlowTypeOK
  <2>2. walk \in 1..Len(queue)
    BY <2>1 DEF IInv, Flow, QueueOK, Idle, WalkTurn
  <2>3. c \in Call
    BY <2>1, <2>2, ElementOfSeq
  <2> QED BY <2>1, <2>2, <2>3 DEF IInv, Flow, QueueOK
<1>2. CASE ~CanMakeCall(c)
  BY <1>2 DEF WalkTurn, ForgetsWindows, Done, bookings
<1>3. CASE CanMakeCall(c) /\ DeviceBudgetSpent(c)
  <2>1. Refuse({c}, "device-spent") /\ UNCHANGED bookings
    BY <1>3 DEF WalkTurn
  <2> QED BY <1>1, <2>1, RefuseDelivers DEF Refusal, ForgetsWindows, bookings
<1>4. CASE CanMakeCall(c) /\ ~DeviceBudgetSpent(c)
  <2>1. Spend(c) /\ status' = [status EXCEPT ![c] = "running"]
    BY <1>4 DEF WalkTurn
  <2> QED BY <1>1, <1>4, <2>1, SpendStarts
<1> QED BY <1>2, <1>3, <1>4

\* Every step of the limiter is one of these.
LEMMA StepKinds ==
  ASSUME IInv, [Next]_vars
  PROVE  \/ \E c \in Call : StartsCall(c) \/ ReturnsCall(c) \/ DeliversCall(c)
         \/ ForgetsWindows
<1>1. ASSUME NEW c \in Call, TryExecute(c) \/ ExecuteTracked(c)
      PROVE  StartsCall(c) \/ ForgetsWindows
  BY <1>1, SubmitKind DEF TryExecute, ExecuteTracked
<1>2. ASSUME NEW c \in Call, NEW neverSent \in BOOLEAN, NEW failed \in BOOLEAN,
             Settle(c, neverSent, failed)
      PROVE  ReturnsCall(c) \/ DeliversCall(c)
  BY <1>2, SettleKind
<1>3. ASSUME ProcessTick PROVE ForgetsWindows
  BY <1>3, ProcessDelivers DEF ProcessTick, ForgetsWindows, bookings
<1>4. ASSUME ResetMinuteWindow PROVE ForgetsWindows
  BY <1>4, ProcessDelivers DEF ResetMinuteWindow, ForgetsWindows
<1>5. ASSUME ResetDaily PROVE ForgetsWindows
  BY <1>5 DEF ResetDaily, ForgetsWindows, Done
<1>6. ASSUME NEW d \in Device, RefillDevice(d) PROVE ForgetsWindows
  BY <1>6 DEF RefillDevice, ForgetsWindows, Done
<1>7. ASSUME RefillAccount PROVE ForgetsWindows
  BY <1>7 DEF RefillAccount, ForgetsWindows, Done
<1>8. ASSUME Stop PROVE ForgetsWindows
  BY <1>8, QueuedCalls, RefuseDelivers DEF Stop, Refusal, ForgetsWindows, bookings
<1>9. ASSUME UNCHANGED vars PROVE ForgetsWindows
  BY <1>9 DEF vars, bookings, ForgetsWindows, Done
<1> QED BY <1>1, <1>2, <1>3, <1>4, <1>5, <1>6, <1>7, <1>8, <1>9, WalkKind DEF Next

\* Each of the three allowances makes a step of its specification, or stutters.
LEMMA DayStep ==
  ASSUME IInv, [Next]_vars
  PROVE  DayAllowance!Step
<1> USE DEF DayAllowance!Step, DayAllowance!Next, DayAllowance!vars
<1>1. ASSUME NEW c \in Call, StartsCall(c) PROVE DayAllowance!Charge(c)
  <2>1. Cardinality(thisDay) < PerDay
    BY <1>1 DEF StartsCall, CanMakeCall, IInv, Books, BookingsExact
  <2>2. /\ c \notin thisDay /\ thisDay' = thisDay \cup {c}
        /\ thisDay' \cap Done' = thisDay \cap Done
    BY <1>1 DEF StartsCall
  <2>3. DayAllowance!Cardinality(thisDay) = Cardinality(thisDay)
    BY Zenon DEF DayAllowance!Cardinality, Cardinality
  <2> QED BY <2>1, <2>2, <2>3 DEF DayAllowance!Charge
<1>2. ASSUME NEW c \in Call, ReturnsCall(c)
      PROVE  DayAllowance!GiveBack(c) \/ UNCHANGED DayAllowance!vars
  BY <1>2 DEF ReturnsCall, DayAllowance!GiveBack
<1>3. ASSUME NEW c \in Call, DeliversCall(c)
      PROVE  DayAllowance!Deliver(c) \/ UNCHANGED DayAllowance!vars
  BY <1>3 DEF DeliversCall, DayAllowance!Deliver
<1>4. ASSUME ForgetsWindows
      PROVE  DayAllowance!NewWindow \/ UNCHANGED DayAllowance!vars
  BY <1>4 DEF ForgetsWindows, DayAllowance!NewWindow
<1> QED BY <1>1, <1>2, <1>3, <1>4, StepKinds

\* The same for a minute lane.
LEMMA LaneStep ==
  ASSUME IInv, [Next]_vars, NEW l \in WindowLane
  PROVE  LaneAllowance(l)!Step
<1> USE DEF LaneAllowance!Step, LaneAllowance!Next, LaneAllowance!vars, LaneCalls
<1>1. ASSUME NEW c \in Call, StartsCall(c)
      PROVE  LaneAllowance(l)!Charge(c) \/ UNCHANGED LaneAllowance(l)!vars
  <2>1. laneOf[c] = l => Cardinality({x \in thisMinute : laneOf[x] = l}) < LimitOf(l)
    <3>1. laneOf[c] = l => ~IsControl(c)
      BY DEF IsControl, WindowLane, AccountList, AppApi, DeviceRead
    <3> QED BY <1>1, <3>1 DEF StartsCall, CanMakeCall, IInv, Books, BookingsExact
  <2>2. LaneCalls(l)' = IF laneOf[c] = l THEN LaneCalls(l) \cup {c} ELSE LaneCalls(l)
    BY <1>1 DEF StartsCall
  <2>3. c \notin LaneCalls(l) /\ LaneCalls(l)' \cap Done' = LaneCalls(l) \cap Done
    BY <1>1, <2>2 DEF StartsCall
  <2> HIDE DEF LaneCalls
  <2>6. LaneAllowance(l)!Cardinality(LaneCalls(l)) = Cardinality(LaneCalls(l))
    BY Zenon DEF LaneAllowance!Cardinality, Cardinality
  <2>4. CASE laneOf[c] = l
    <3>1. Cardinality(LaneCalls(l)) < LimitOf(l)
      BY <2>1, <2>4 DEF LaneCalls
    <3> QED BY <2>2, <2>3, <2>4, <2>6, <3>1 DEF LaneAllowance!Charge
  <2>5. CASE laneOf[c] # l
    BY <2>2, <2>3, <2>5
  <2> QED BY <2>4, <2>5
<1>2. ASSUME NEW c \in Call, ReturnsCall(c)
      PROVE  LaneAllowance(l)!GiveBack(c) \/ UNCHANGED LaneAllowance(l)!vars
  BY <1>2 DEF ReturnsCall, LaneAllowance!GiveBack
<1>3. ASSUME NEW c \in Call, DeliversCall(c)
      PROVE  LaneAllowance(l)!Deliver(c) \/ UNCHANGED LaneAllowance(l)!vars
  BY <1>3 DEF DeliversCall, LaneAllowance!Deliver
<1>4. ASSUME ForgetsWindows
      PROVE  LaneAllowance(l)!NewWindow \/ UNCHANGED LaneAllowance(l)!vars
  BY <1>4 DEF ForgetsWindows, LaneAllowance!NewWindow
<1> QED BY <1>1, <1>2, <1>3, <1>4, StepKinds

\* The same for an appliance's day.
LEMMA ApplianceStep ==
  ASSUME IInv, [Next]_vars, NEW d \in Device
  PROVE  ApplianceAllowance(d)!Step
<1> USE DEF ApplianceAllowance!Step, ApplianceAllowance!Next, ApplianceAllowance!vars,
            ApplianceCalls
<1>1. ASSUME NEW c \in Call, StartsCall(c)
      PROVE  ApplianceAllowance(d)!Charge(c) \/ UNCHANGED ApplianceAllowance(d)!vars
  <2> DEFINE counts == c \in Budgeted /\ DeviceOf(c) = d
  <2>1. counts => Cardinality(ApplianceCalls(d)) < AppliancePerDay
    <3>1. callsTodayPerDevice[d] = Cardinality(ApplianceCalls(d))
      BY DEF IInv, Books, BookingsExact
    <3>2. callsTodayPerDevice[d] \in Nat
      BY DEF IInv, Books, BookingsTypeOK
    <3> HIDE DEF ApplianceCalls
    <3> QED BY <1>1, <3>1, <3>2, LimitFacts DEF StartsCall, DeviceBudgetSpent
  <2>2. ApplianceCalls(d)' =
          IF counts THEN ApplianceCalls(d) \cup {c} ELSE ApplianceCalls(d)
    BY <1>1 DEF StartsCall
  <2>3. c \notin ApplianceCalls(d)
        /\ ApplianceCalls(d)' \cap Done' = ApplianceCalls(d) \cap Done
    BY <1>1, <2>2 DEF StartsCall
  <2> HIDE DEF ApplianceCalls
  <2>4. ApplianceAllowance(d)!Cardinality(ApplianceCalls(d)) = Cardinality(ApplianceCalls(d))
    BY Zenon DEF ApplianceAllowance!Cardinality, Cardinality
  <2>5. CASE counts
    BY <2>1, <2>2, <2>3, <2>4, <2>5 DEF ApplianceAllowance!Charge
  <2>6. CASE ~counts
    BY <2>2, <2>3, <2>6
  <2> QED BY <2>5, <2>6
<1>2. ASSUME NEW c \in Call, ReturnsCall(c)
      PROVE  ApplianceAllowance(d)!GiveBack(c) \/ UNCHANGED ApplianceAllowance(d)!vars
  BY <1>2 DEF ReturnsCall, ApplianceAllowance!GiveBack
<1>3. ASSUME NEW c \in Call, DeliversCall(c)
      PROVE  ApplianceAllowance(d)!Deliver(c) \/ UNCHANGED ApplianceAllowance(d)!vars
  BY <1>3 DEF DeliversCall, ApplianceAllowance!Deliver
<1>4. ASSUME ForgetsWindows
      PROVE  ApplianceAllowance(d)!NewWindow \/ UNCHANGED ApplianceAllowance(d)!vars
  BY <1>4 DEF ForgetsWindows, ApplianceAllowance!NewWindow
<1> QED BY <1>1, <1>2, <1>3, <1>4, StepKinds

\* The limiter implements its allowances: the account's day, every minute lane
\* and every appliance's day start empty, and each step of the limiter charges,
\* delivers or gives back at most one call of each, or forgets its window.
THEOREM AllowancesImplemented == Spec => ImplementsAllowances
<1> DEFINE Steps == /\ \A l \in WindowLane : LaneAllowance(l)!Step
                    /\ \A d \in Device : ApplianceAllowance(d)!Step
           Inits == /\ \A l \in WindowLane : LaneAllowance(l)!Init
                    /\ \A d \in Device : ApplianceAllowance(d)!Init
<1>1. Init => DayAllowance!Init /\ Inits
  BY DEF Init, DayAllowance!Init, LaneAllowance!Init, ApplianceAllowance!Init,
         LaneCalls, ApplianceCalls
<1>2. IInv /\ [Next]_vars => [DayAllowance!Next]_DayAllowance!vars
  BY DayStep DEF DayAllowance!Step
<1>3. IInv /\ [Next]_vars => Steps
  BY LaneStep, ApplianceStep
<1> HIDE DEF Inits
<1>4. Spec => DayAllowance!Init /\ Inits
  BY <1>1 DEF Spec
<1>5. Spec => [][DayAllowance!Next]_DayAllowance!vars
  BY <1>2, Invariance, PTL DEF Spec
<1> HIDE DEF Steps
<1>6. Spec => [][Steps]_vars
  BY <1>3, Invariance, PTL DEF Spec
<1> QED BY <1>4, <1>5, <1>6 DEF ImplementsAllowances, DayAllowance!Spec, Steps, Inits

-----------------------------------------------------------------------------
\* The order of the queue: urgent calls first.
Sorted(q) == \A i, j \in DOMAIN q : i < j => priorityOf[q[i]] <= priorityOf[q[j]]

\* What the loop has passed is blocked: its lane has no room.
PassedAreBlocked == \A j \in DOMAIN queue : j < walk => ~CanMakeCall(queue[j])

\* The inductive invariant about the lanes.
LaneInv == Sorted(queue) /\ PassedAreBlocked

\* In a sorted queue the calls as urgent as c are exactly those before its place.
LEMMA PlaceSplits ==
  ASSUME NEW q \in Seq(Call), Sorted(q), NEW c \in Call, NEW i \in DOMAIN q
  PROVE  i < PlaceOf(q, c) <=> priorityOf[q[i]] <= priorityOf[c]
<1> DEFINE A == AsUrgent(q, c)
<1>1. Len(q) \in Nat /\ DOMAIN q = 1..Len(q) /\ i \in Nat \ {0}
  BY LenProperties
<1>2. \A j \in DOMAIN q : q[j] \in Call /\ priorityOf[q[j]] \in Nat
  BY <1>1, CallAssumption, ElementOfSeq
<1>3. priorityOf[c] \in Nat
  BY CallAssumption
<1>4. IsFiniteSet(A) /\ Cardinality(A) \in Nat
  <2>1. IsFiniteSet(1..Len(q))
    BY <1>1, FS_Interval
  <2>2. A \subseteq 1..Len(q)
    BY <1>1 DEF AsUrgent
  <2> HIDE DEF A
  <2> QED BY <2>1, <2>2, FS_Subset, FS_CardinalityType
<1>5. CASE priorityOf[q[i]] <= priorityOf[c]
  <2>1. 1..i \subseteq A
    BY <1>1, <1>2, <1>3, <1>5 DEF AsUrgent, Sorted
  <2>2. Cardinality(1..i) = i
    BY <1>1, FS_Interval
  <2> HIDE DEF A
  <2>3. Cardinality(1..i) <= Cardinality(A)
    BY <1>4, <2>1, FS_Subset
  <2>4. i <= Cardinality(A)
    BY <2>2, <2>3
  <2> QED BY <1>1, <1>4, <1>5, <2>4 DEF PlaceOf, A
<1>6. CASE ~(priorityOf[q[i]] <= priorityOf[c])
  <2>1. A \subseteq 1..(i - 1)
    <3> SUFFICES ASSUME NEW j \in A PROVE j \in 1..(i - 1)
      OBVIOUS
    <3>1. j \in DOMAIN q /\ priorityOf[q[j]] <= priorityOf[c]
      BY DEF AsUrgent
    <3>2. j # i /\ ~(i < j)
      BY <1>2, <1>3, <1>6, <3>1 DEF Sorted
    <3>3. j \in Nat \ {0}
      BY <1>1, <3>1
    <3> QED BY <1>1, <3>2, <3>3
  <2>2. IsFiniteSet(1..(i - 1)) /\ Cardinality(1..(i - 1)) = i - 1
    <3> DEFINE n == i - 1
    <3>1. n \in Int /\ 1 \in Int /\ n >= 0
      BY <1>1
    <3> HIDE DEF n
    <3>2. IsFiniteSet(1..n) /\ Cardinality(1..n) = IF 1 > n THEN 0 ELSE n - 1 + 1
      BY <3>1, FS_Interval
    <3>3. IsFiniteSet(1..n) /\ Cardinality(1..n) = n
      BY <3>1, <3>2
    <3> QED BY <3>3 DEF n
  <2> HIDE DEF A
  <2>3. Cardinality(A) <= Cardinality(1..(i - 1))
    BY <2>1, <2>2, FS_Subset
  <2>4. Cardinality(A) <= i - 1
    BY <2>2, <2>3
  <2> QED BY <1>1, <1>4, <1>6, <2>4 DEF PlaceOf, A
<1> QED BY <1>5, <1>6

\* Insert keeps a sorted queue sorted.
LEMMA InsertSorted ==
  ASSUME NEW q \in Seq(Call), Sorted(q), NEW c \in Call
  PROVE  Sorted(Insert(q, c))
<1> DEFINE s == Insert(q, c)
           k == PlaceOf(q, c)
<1>1. /\ s \in Seq(Call) /\ Len(s) = Len(q) + 1 /\ Len(q) \in Nat /\ k \in 1..Len(q) + 1
      /\ DOMAIN q = 1..Len(q)
      /\ \A i \in 1..Len(q) + 1 : s[i] = IF i < k THEN q[i] ELSE IF i = k THEN c ELSE q[i - 1]
  BY InsertFacts, LenProperties DEF PlacedAt
<1>2. DOMAIN s = 1..Len(q) + 1
  BY <1>1, LenProperties
<1>3. \A i \in DOMAIN q : i < k <=> priorityOf[q[i]] <= priorityOf[c]
  BY PlaceSplits
<1>4. /\ \A j \in DOMAIN q : q[j] \in Call /\ priorityOf[q[j]] \in Nat
      /\ priorityOf[c] \in Nat
  BY <1>1, CallAssumption, ElementOfSeq
<1>5. \A i, j \in DOMAIN q : i < j => priorityOf[q[i]] <= priorityOf[q[j]]
  BY DEF Sorted
<1> HIDE DEF s, k
<1> SUFFICES ASSUME NEW i \in DOMAIN s, NEW j \in DOMAIN s, i < j
             PROVE  priorityOf[s[i]] <= priorityOf[s[j]]
  BY DEF Sorted, s
<1>6. CASE j < k
  BY <1>1, <1>2, <1>5, <1>6
<1>7. CASE j = k
  <2>1. s[i] = q[i] /\ s[j] = c /\ i \in DOMAIN q /\ i < k
    BY <1>1, <1>2, <1>7
  <2> QED BY <1>3, <2>1
<1>8. CASE j > k /\ i < k
  <2>1. s[i] = q[i] /\ s[j] = q[j - 1] /\ i \in DOMAIN q /\ j - 1 \in DOMAIN q /\ i < j - 1
    BY <1>1, <1>2, <1>8
  <2> QED BY <1>5, <2>1
<1>9. CASE i = k
  <2>1. s[i] = c /\ s[j] = q[j - 1] /\ j - 1 \in DOMAIN q /\ ~(j - 1 < k)
    BY <1>1, <1>2, <1>9
  <2> QED BY <1>3, <1>4, <2>1
<1>10. CASE i > k
  <2>1. s[i] = q[i - 1] /\ s[j] = q[j - 1] /\ i - 1 \in DOMAIN q /\ j - 1 \in DOMAIN q
        /\ i - 1 < j - 1
    BY <1>1, <1>2, <1>10
  <2> QED BY <1>5, <2>1
<1> QED BY <1>1, <1>2, <1>6, <1>7, <1>8, <1>9, <1>10

\* No call leaves the queue to run, and none is evicted.
NobodyMoves ==
  /\ \A x \in Call : status'[x] = "running" => status[x] # "queued"
  /\ \A x \in Call : status'[x] = "evicted" => status[x] = "evicted"

\* Such a step breaks neither order.
LEMMA NobodyMovesKeeps ==
  ASSUME IInv, NobodyMoves
  PROVE  QueueKeepsLaneOrder /\ EvictsOnlyOutranked
<1>1. \A i \in DOMAIN queue : queue[i] \in Call
  BY ElementOfSeq, LenProperties DEF IInv, Flow, FlowTypeOK
<1> QED BY <1>1 DEF NobodyMoves, QueueKeepsLaneOrder, EvictsOnlyOutranked

\* An empty or unchanged queue with the loop at its start is in order.
LEMMA AtStart ==
  ASSUME IInv, LaneInv, queue' = queue \/ queue' = <<>>, walk' = 0 \/ walk' = 1
  PROVE  LaneInv'
<1>1. queue \in Seq(Call) /\ DOMAIN queue = 1..Len(queue) /\ Len(queue) \in Nat
  BY LenProperties DEF IInv, Flow, FlowTypeOK
<1>2. CASE queue' = queue
  <2>1. Sorted(queue)'
    BY <1>2 DEF LaneInv, Sorted
  <2>2. \A j \in DOMAIN queue' : ~(j < walk')
    BY <1>1, <1>2
  <2> QED BY <2>1, <2>2 DEF LaneInv, PassedAreBlocked
<1>3. CASE queue' = <<>>
  <2>1. DOMAIN queue' = {}
    BY <1>3
  <2> QED BY <2>1 DEF LaneInv, Sorted, PassedAreBlocked
<1> QED BY <1>2, <1>3

\* A spent budget stays spent while the loop charges further calls.
LEMMA BlockedStays ==
  ASSUME IInv, NEW c \in Call, Spend(c), NEW x \in Call, ~CanMakeCall(x)
  PROVE  ~CanMakeCall(x)'
<1>1. /\ callsToday \in Nat /\ accountTokens \in Nat /\ PerDay \in Nat
      /\ used \in [WindowLane -> Nat] /\ deviceTokens \in [Device -> 0..DeviceBurst]
      /\ DeviceBurst \in Nat
  BY LimitFacts DEF IInv, Books, BookingsTypeOK
<1>2. callsToday' = callsToday + 1
  BY DEF Spend
<1>3. CASE IsControl(x)
  <2>1. DeviceOf(x) \in Device
    BY <1>3, LaneFacts
  <2>2. accountTokens' <= accountTokens /\ accountTokens' \in Nat
    BY <1>1 DEF Spend, Floor
  <2>3. deviceTokens'[DeviceOf(x)] <= deviceTokens[DeviceOf(x)]
    <3>1. CASE IsControl(c)
      <4>1. DeviceOf(c) \in Device /\ deviceTokens[DeviceOf(c)] \in Nat
        BY <1>1, <3>1, LaneFacts
      <4>2. /\ Floor(deviceTokens[DeviceOf(c)] - 1) <= deviceTokens[DeviceOf(c)]
            /\ deviceTokens' = [deviceTokens EXCEPT ![DeviceOf(c)] = Floor(@ - 1)]
        BY <3>1, <4>1 DEF Floor, Spend
      <4>3. CASE DeviceOf(x) = DeviceOf(c)
        BY <1>1, <2>1, <4>1, <4>2, <4>3
      <4>4. CASE DeviceOf(x) # DeviceOf(c)
        <5>1. deviceTokens'[DeviceOf(x)] = deviceTokens[DeviceOf(x)]
          BY <1>1, <2>1, <4>2, <4>4
        <5>2. deviceTokens[DeviceOf(x)] \in Nat
          BY <1>1, <2>1
        <5> QED BY <5>1, <5>2
      <4> QED BY <4>3, <4>4
    <3>2. CASE ~IsControl(c)
      <4>1. deviceTokens' = deviceTokens
        BY <3>2 DEF Spend
      <4>2. deviceTokens[DeviceOf(x)] \in Nat
        BY <1>1, <2>1
      <4> QED BY <4>1, <4>2
    <3> QED BY <3>1, <3>2
  <2>4. deviceTokens[DeviceOf(x)] \in Nat /\ deviceTokens'[DeviceOf(x)] \in Nat
    <3>1. deviceTokens' \in [Device -> 0..DeviceBurst]
      <4>1. CASE IsControl(c)
        <5>1. DeviceOf(c) \in Device /\ deviceTokens[DeviceOf(c)] \in 0..DeviceBurst
          BY <1>1, <4>1, LaneFacts
        <5>2. Floor(deviceTokens[DeviceOf(c)] - 1) \in 0..DeviceBurst
          BY <1>1, <5>1 DEF Floor
        <5> QED BY <1>1, <4>1, <5>1, <5>2 DEF Spend
      <4>2. CASE ~IsControl(c)
        BY <1>1, <4>2 DEF Spend
      <4> QED BY <4>1, <4>2
    <3> QED BY <1>1, <2>1, <3>1
  <2> QED BY <1>1, <1>2, <1>3, <2>2, <2>3, <2>4 DEF CanMakeCall
<1>4. CASE ~IsControl(x)
  <2> DEFINE l == laneOf[x]
  <2>1. l \in WindowLane /\ used[l] \in Nat /\ LimitOf(l) \in Nat
    BY <1>1, <1>4, LaneFacts, LimitFacts
  <2>2. used'[l] \in Nat /\ used[l] <= used'[l]
    <3>1. CASE IsControl(c)
      BY <2>1, <3>1 DEF Spend
    <3>2. CASE ~IsControl(c)
      <4>1. used' = [used EXCEPT ![laneOf[c]] = @ + 1] /\ laneOf[c] \in WindowLane
        BY <3>2, LaneFacts DEF Spend
      <4> QED BY <1>1, <2>1, <4>1
    <3> QED BY <3>1, <3>2
  <2> HIDE DEF l
  <2>3. ~(used[l] < LimitOf(l)) \/ ~(callsToday < PerDay)
    BY <1>4 DEF CanMakeCall, l
  <2>4. ~(used'[l] < LimitOf(l)) \/ ~(callsToday' < PerDay)
    BY <1>1, <1>2, <2>1, <2>2, <2>3
  <2> QED BY <1>4, <2>4 DEF CanMakeCall, l
<1> QED BY <1>3, <1>4

\* Calls of one lane have room together or not at all.
LEMMA LaneHasRoom ==
  ASSUME NEW x \in Call, NEW y \in Call, laneOf[x] = laneOf[y]
  PROVE  CanMakeCall(x) <=> CanMakeCall(y)
BY DEF CanMakeCall, IsControl, DeviceOf

-----------------------------------------------------------------------------
\* A call of the queue leaves it for one that outranks it, or not at all.
LEMMA SubmitOrder ==
  ASSUME IInv, LaneInv, NEW c \in Call, Submit(c)
  PROVE  LaneInv' /\ QueueKeepsLaneOrder /\ EvictsOnlyOutranked
<1>1. status[c] = "new" /\ walk = 0 /\ walk' = 0
  BY DEF Submit, Idle
<1>2. /\ queue \in Seq(Call) /\ DOMAIN queue = 1..Len(queue) /\ Len(queue) \in Nat
      /\ status \in [Call -> Status] /\ Sorted(queue)
  BY LenProperties DEF IInv, Flow, FlowTypeOK, LaneInv
<1>3. CASE queue' = queue /\ \E why \in Refusal \ {"evicted"} : Refuse({c}, why)
  <2>1. NobodyMoves
    BY <1>1, <1>3 DEF NobodyMoves, Refuse, Refusal
  <2> QED BY <1>1, <1>3, <2>1, NobodyMovesKeeps, AtStart
<1>4. CASE queue' = queue /\ status' = [status EXCEPT ![c] = "running"]
  <2>1. NobodyMoves
    BY <1>1, <1>2, <1>4 DEF NobodyMoves
  <2> QED BY <1>1, <1>4, <2>1, NobodyMovesKeeps, AtStart
<1>5. CASE queue' = Insert(queue, c) /\ status' = [status EXCEPT ![c] = "queued"]
  <2>1. NobodyMoves
    BY <1>1, <1>2, <1>5 DEF NobodyMoves
  <2>2. Sorted(queue')
    BY <1>2, <1>5, InsertSorted
  <2>3. DOMAIN queue' = 1..Len(queue') /\ Len(queue') \in Nat
    BY <1>2, <1>5, InsertFacts, LenProperties
  <2>4. \A j \in DOMAIN queue' : ~(j < walk')
    BY <1>1, <2>3
  <2> QED BY <2>1, <2>2, <2>4, NobodyMovesKeeps DEF LaneInv, Sorted, PassedAreBlocked
<1>6. CASE /\ Len(queue) >= MaxQueueLength /\ Outranks(c, Last(queue))
           /\ queue' = Insert(Front(queue), c)
           /\ status' = [status EXCEPT ![c] = "queued", ![Last(queue)] = "evicted"]
  <2> DEFINE q == Front(queue)
             t == Last(queue)
             k == PlaceOf(q, c)
  <2>1. Len(queue) >= 1
    BY <1>2, <1>6, LimitFacts
  <2>2. /\ q \in Seq(Call) /\ Len(q) = Len(queue) - 1 /\ t \in Call
        /\ DOMAIN q = 1..Len(queue) - 1
        /\ \A i \in 1..Len(queue) - 1 : q[i] = queue[i]
    BY <1>2, <2>1, FrontFacts, LenProperties
  <2>3. t = queue[Len(queue)] /\ Len(queue) \in DOMAIN queue
    BY <1>2, <2>1 DEF Last
  <2>4. /\ queue' = Insert(q, c) /\ queue' \in Seq(Call) /\ Len(queue') = Len(queue)
        /\ DOMAIN queue' = 1..Len(queue) /\ k \in 1..Len(queue) /\ PlacedAt(queue', q, c, k)
    <3>1. /\ Insert(q, c) \in Seq(Call) /\ Len(Insert(q, c)) = Len(q) + 1
          /\ k \in 1..Len(q) + 1 /\ PlacedAt(Insert(q, c), q, c, k)
      BY <2>2, InsertFacts
    <3>2. Len(q) + 1 = Len(queue)
      BY <1>2, <2>2
    <3> HIDE DEF q, k
    <3> QED BY <1>6, <3>1, <3>2, LenProperties DEF q
  <2> HIDE DEF q, k
  <2>5. Sorted(q)
    BY <1>2, <2>2 DEF Sorted
  <2>6. Sorted(queue')
    BY <2>2, <2>4, <2>5, InsertSorted
  <2>7. LaneInv'
    <3>1. \A j \in DOMAIN queue' : ~(j < walk')
      BY <1>1, <1>2, <2>4
    <3> QED BY <2>6, <3>1 DEF LaneInv, Sorted, PassedAreBlocked
  <2>8. \A x \in Call : status'[x] = "running" => status[x] # "queued"
    BY <1>2, <1>6, <2>2
  <2>9. QueueKeepsLaneOrder
    <3>1. \A i \in DOMAIN queue : queue[i] \in Call
      BY <1>2, ElementOfSeq
    <3> QED BY <2>8, <3>1 DEF QueueKeepsLaneOrder
  <2>10. \A j \in DOMAIN queue' : queue'[j] = c \/ \E i \in 1..Len(queue) - 1 : queue'[j] = queue[i]
    <3> SUFFICES ASSUME NEW j \in 1..Len(queue), j # k
                 PROVE  \E i \in 1..Len(queue) - 1 : queue'[j] = queue[i]
      BY <1>2, <2>2, <2>4 DEF PlacedAt
    <3>1. Len(q) + 1 = Len(queue)
      BY <1>2, <2>2
    <3>2. CASE j < k
      <4>1. j \in 1..Len(queue) - 1 /\ queue'[j] = q[j]
        BY <1>2, <2>4, <3>1, <3>2 DEF PlacedAt
      <4> QED BY <2>2, <4>1
    <3>3. CASE j > k
      <4>1. j - 1 \in 1..Len(queue) - 1 /\ queue'[j] = q[j - 1]
        BY <1>2, <2>4, <3>1, <3>3 DEF PlacedAt
      <4> QED BY <2>2, <4>1
    <3> QED BY <1>2, <2>4, <3>2, <3>3
  <2>11. /\ priorityOf[c] < priorityOf[t] /\ priorityOf[c] \in Nat /\ priorityOf[t] \in Nat
         /\ \A i \in 1..Len(queue) - 1 : priorityOf[queue[i]] <= priorityOf[t]
    <3>1. priorityOf[c] < priorityOf[t] /\ priorityOf[c] \in Nat /\ priorityOf[t] \in Nat
      BY <1>6, <2>2, CallAssumption DEF Outranks
    <3>2. \A i \in 1..Len(queue) - 1 : i \in DOMAIN queue /\ i < Len(queue)
      BY <1>2
    <3>3. \A i \in 1..Len(queue) - 1 : priorityOf[queue[i]] <= priorityOf[queue[Len(queue)]]
      BY <1>2, <2>3, <3>2 DEF Sorted
    <3> HIDE DEF t
    <3> QED BY <2>3, <3>1, <3>3
  <2>12. \A x \in Range(queue') : priorityOf[x] <= priorityOf[t]
    BY <2>10, <2>11 DEF Range
  <2>13. c \in Range(queue') \ Range(queue)
    <3>1. Len(q) + 1 = Len(queue)
      BY <1>2, <2>2
    <3>2. c \notin Range(queue)
      BY <1>1, QueuedCalls
    <3>3. queue'[k] = c
      BY <1>2, <2>4, <3>1 DEF PlacedAt
    <3> QED BY <2>4, <3>2, <3>3 DEF Range
  <2>14. \A x \in Call : status'[x] = "evicted" => status[x] = "evicted" \/ x = t
    BY <1>2, <1>6
  <2>15. EvictsOnlyOutranked
    BY <2>11, <2>12, <2>13, <2>14 DEF EvictsOnlyOutranked
  <2> QED BY <2>7, <2>9, <2>15
<1>7. \/ queue' = queue /\ \E why \in Refusal \ {"evicted"} : Refuse({c}, why)
      \/ queue' = queue /\ status' = [status EXCEPT ![c] = "running"]
      \/ queue' = Insert(queue, c) /\ status' = [status EXCEPT ![c] = "queued"]
      \/ /\ Len(queue) >= MaxQueueLength /\ Outranks(c, Last(queue))
         /\ queue' = Insert(Front(queue), c)
         /\ status' = [status EXCEPT ![c] = "queued", ![Last(queue)] = "evicted"]
  <2>1. {"device-spent", "stopped", "day-spent", "queue-full"} \subseteq Refusal \ {"evicted"}
    BY DEF Refusal
  <2> QED BY <2>1 DEF Submit, Enqueue
<1> QED BY <1>3, <1>4, <1>5, <1>6, <1>7

\* The loop starts the most urgent waiting call of a lane that has room.
LEMMA WalkOrder ==
  ASSUME IInv, LaneInv, WalkTurn
  PROVE  LaneInv' /\ QueueKeepsLaneOrder /\ EvictsOnlyOutranked
<1> DEFINE c == queue[walk]
<1>1. /\ queue \in Seq(Call) /\ DOMAIN queue = 1..Len(queue) /\ Len(queue) \in Nat
      /\ status \in [Call -> Status] /\ Sorted(queue) /\ PassedAreBlocked
      /\ \A i, j \in DOMAIN queue : queue[i] = queue[j] => i = j
  BY LenProperties DEF IInv, Flow, FlowTypeOK, QueueOK, LaneInv
<1>2. walk \in 1..Len(queue)
  BY <1>1 DEF IInv, Flow, QueueOK, Idle, WalkTurn
<1>3. \A i \in DOMAIN queue : queue[i] \in Call /\ status[queue[i]] = "queued"
  BY <1>1, ElementOfSeq DEF IInv, Flow, QueueOK
<1>4. c \in Call /\ status[c] = "queued"
  BY <1>1, <1>2, <1>3
<1> HIDE DEF c
<1>5. CASE ~CanMakeCall(c)
  <2>1. /\ walk' = 0 \/ walk' = walk + 1
        /\ UNCHANGED <<queue, bookings, status>>
    BY <1>5 DEF WalkTurn, c
  <2>2. NobodyMoves
    BY <2>1 DEF NobodyMoves
  <2>3. \A x \in Call : CanMakeCall(x)' <=> CanMakeCall(x)
    BY <2>1 DEF CanMakeCall, bookings
  <2>4. \A j \in DOMAIN queue : j < walk' => j < walk \/ j = walk
    BY <1>1, <1>2, <2>1
  <2>5. PassedAreBlocked'
    BY <1>1, <1>3, <1>5, <2>1, <2>3, <2>4 DEF PassedAreBlocked, c
  <2> QED BY <1>1, <2>1, <2>2, <2>5, NobodyMovesKeeps DEF LaneInv, Sorted
<1>6. CASE CanMakeCall(c)
  <2>1. /\ queue' = RemoveAt(queue, walk)
        /\ walk' = 0 \/ walk' = walk
        /\ \/ status' = [x \in Call |-> IF x \in {c} THEN "device-spent" ELSE status[x]]
              /\ UNCHANGED bookings
           \/ status' = [status EXCEPT ![c] = "running"] /\ Spend(c)
    BY <1>6 DEF WalkTurn, Refuse, c
  <2>2. /\ queue' \in Seq(Call) /\ Len(queue') = Len(queue) - 1
        /\ \A i \in 1..Len(queue) - 1 : queue'[i] = IF i < walk THEN queue[i] ELSE queue[i + 1]
        /\ DOMAIN queue' = 1..Len(queue) - 1
    <3> DEFINE r == RemoveAt(queue, walk)
    <3>1. /\ r \in Seq(Call) /\ Len(r) = Len(queue) - 1
          /\ \A i \in 1..Len(queue) - 1 : r[i] = IF i < walk THEN queue[i] ELSE queue[i + 1]
      BY <1>1, <1>2, RemoveFacts
    <3>2. queue' = r
      BY <2>1
    <3> HIDE DEF r
    <3> QED BY <3>1, <3>2, LenProperties
  <2>3. Sorted(queue')
    <3> DEFINE at(n) == IF n < walk THEN n ELSE n + 1
    <3> SUFFICES ASSUME NEW i \in DOMAIN queue', NEW j \in DOMAIN queue', i < j
                 PROVE  priorityOf[queue'[i]] <= priorityOf[queue'[j]]
      BY DEF Sorted
    <3>1. /\ at(i) \in DOMAIN queue /\ at(j) \in DOMAIN queue /\ at(i) < at(j)
          /\ queue[at(i)] = queue'[i] /\ queue[at(j)] = queue'[j]
      BY <1>1, <1>2, <2>2
    <3> HIDE DEF at
    <3> QED BY <1>1, <3>1 DEF Sorted
  <2>4. \A x \in Call : ~CanMakeCall(x) => ~CanMakeCall(x)'
    <3>1. CASE UNCHANGED bookings
      BY <3>1 DEF CanMakeCall, bookings
    <3>2. CASE Spend(c)
      BY <1>4, <3>2, BlockedStays
    <3> QED BY <2>1, <3>1, <3>2
  <2>5. PassedAreBlocked'
    <3> SUFFICES ASSUME NEW j \in DOMAIN queue', j < walk' PROVE ~CanMakeCall(queue[j])'
      BY DEF PassedAreBlocked
    <3>1. j \in DOMAIN queue /\ j < walk /\ queue'[j] = queue[j]
      BY <1>1, <1>2, <2>1, <2>2
    <3>2. ~CanMakeCall(queue[j]) /\ queue[j] \in Call
      BY <1>1, <1>3, <3>1 DEF PassedAreBlocked
    <3> DEFINE x == queue[j]
    <3>3. \A y \in Call : ~CanMakeCall(y) => ~CanMakeCall(y)'
      BY <2>4
    <3> QED BY <3>1, <3>2, <3>3 DEF CanMakeCall
  <2>6. LaneInv'
    BY <2>3, <2>5 DEF LaneInv, Sorted
  <2>7. EvictsOnlyOutranked
    BY <1>1, <2>1 DEF EvictsOnlyOutranked
  <2>8. QueueKeepsLaneOrder
    <3> SUFFICES ASSUME NEW i \in DOMAIN queue, status[queue[i]] = "queued",
                        status'[queue[i]] = "running", NEW j \in DOMAIN queue,
                        laneOf[queue[j]] = laneOf[queue[i]], status'[queue[j]] = "queued"
                 PROVE  \/ priorityOf[queue[i]] < priorityOf[queue[j]]
                        \/ priorityOf[queue[i]] = priorityOf[queue[j]] /\ i < j
      BY DEF QueueKeepsLaneOrder
    <3>1. queue[i] = c /\ i = walk
      BY <1>1, <1>2, <1>3, <2>1 DEF c
    <3>2. queue[j] # c /\ j # walk
      BY <1>1, <1>4, <2>1, <3>1
    <3>3. ~(j < walk)
      BY <1>1, <1>3, <1>4, <1>6, <3>1, LaneHasRoom DEF PassedAreBlocked
    <3>4. i < j
      BY <1>1, <1>2, <3>1, <3>2, <3>3
    <3>5. priorityOf[queue[i]] \in Nat /\ priorityOf[queue[j]] \in Nat
      BY <1>3, CallAssumption
    <3>6. priorityOf[queue[i]] <= priorityOf[queue[j]]
      BY <1>1, <3>4 DEF Sorted
    <3> QED BY <3>4, <3>5, <3>6
  <2> QED BY <2>6, <2>7, <2>8
<1> QED BY <1>5, <1>6

\* One step of the limiter.
LEMMA LanesStep ==
  ASSUME IInv, LaneInv, [Next]_vars
  PROVE  LaneInv' /\ (QueueKeepsLaneOrder /\ EvictsOnlyOutranked)
<1>1. ASSUME queue' = queue \/ queue' = <<>>, walk' = 0 \/ walk' = 1, NobodyMoves
      PROVE  LaneInv' /\ QueueKeepsLaneOrder /\ EvictsOnlyOutranked
  BY <1>1, AtStart, NobodyMovesKeeps
<1>2. ASSUME NEW c \in Call, TryExecute(c) \/ ExecuteTracked(c)
      PROVE  LaneInv' /\ QueueKeepsLaneOrder /\ EvictsOnlyOutranked
  BY <1>2, SubmitOrder DEF TryExecute, ExecuteTracked
<1>3. ASSUME NEW c \in Call, NEW neverSent \in BOOLEAN, NEW failed \in BOOLEAN,
             Settle(c, neverSent, failed)
      PROVE  LaneInv' /\ QueueKeepsLaneOrder /\ EvictsOnlyOutranked
  <2>1. NobodyMoves
    BY <1>3 DEF Settle, NobodyMoves, IInv, Flow, FlowTypeOK
  <2> QED BY <1>1, <1>3, <2>1 DEF Settle, Idle
<1>4. ASSUME ProcessQueue PROVE LaneInv' /\ QueueKeepsLaneOrder /\ EvictsOnlyOutranked
  <2>1. NobodyMoves
    BY <1>4 DEF ProcessQueue, Refuse, NobodyMoves
  <2> QED BY <1>1, <1>4, <2>1 DEF ProcessQueue, Idle
<1>5. ASSUME ResetDaily \/ RefillAccount \/ \E d \in Device : RefillDevice(d)
      PROVE  LaneInv' /\ QueueKeepsLaneOrder /\ EvictsOnlyOutranked
  BY <1>1, <1>5 DEF ResetDaily, RefillAccount, RefillDevice, Idle, NobodyMoves
<1>6. ASSUME Stop PROVE LaneInv' /\ QueueKeepsLaneOrder /\ EvictsOnlyOutranked
  <2>1. NobodyMoves
    BY <1>6 DEF Stop, Refuse, NobodyMoves
  <2> QED BY <1>1, <1>6, <2>1 DEF Stop, Idle
<1>7. ASSUME UNCHANGED vars PROVE LaneInv' /\ QueueKeepsLaneOrder /\ EvictsOnlyOutranked
  <2>1. LaneInv'
    BY <1>7 DEF vars, bookings, LaneInv, Sorted, PassedAreBlocked, CanMakeCall
  <2>2. NobodyMoves
    BY <1>7 DEF vars, NobodyMoves
  <2> QED BY <2>1, <2>2, NobodyMovesKeeps
<1> QED
  BY <1>2, <1>3, <1>4, <1>5, <1>6, <1>7, WalkOrder DEF Next, ProcessTick, ResetMinuteWindow

\* Out of the queue the calls of a lane leave by urgency and then by age, and a
\* full queue gives up its least urgent call to one that outranks it, or none.
THEOREM LanesStayInOrder == Spec => LanesAreKept
<1>1. Init => LaneInv
  <2>1. Init => DOMAIN queue = {}
    BY DEF Init
  <2> QED BY <2>1 DEF LaneInv, Sorted, PassedAreBlocked
<1> DEFINE Kept == QueueKeepsLaneOrder /\ EvictsOnlyOutranked
<1>2. IInv /\ LaneInv /\ [Next]_vars => LaneInv' /\ Kept
  BY LanesStep
<1> HIDE DEF Kept
<1>3. Spec => [][Kept]_vars
  BY <1>1, <1>2, Invariance, PTL DEF Spec
<1> QED BY <1>3 DEF LanesAreKept, Kept

-----------------------------------------------------------------------------
\* What became of a call stays, and a call nobody made stays unmade.
GoesOn(a) ==
  \/ status'[a] = status[a]
  \/ status[a] \in {"queued", "running"} /\ status'[a] # "new"


\* A call is made once; of the others at most a waiting one is given up for it.
LEMMA OthersGoOn ==
  ASSUME IInv, NEW c \in Call, Submit(c)
  PROVE  /\ status[c] = "new" /\ status'[c] # "new"
         /\ \A a \in Call \ {c} : GoesOn(a)
<1>1. status[c] = "new" /\ status \in [Call -> Status]
  BY DEF Submit, IInv, Flow, FlowTypeOK
<1>2. ASSUME NEW why \in Refusal, Refuse({c}, why)
      PROVE  status'[c] # "new" /\ \A a \in Call \ {c} : GoesOn(a)
  BY <1>2 DEF Refuse, Refusal, GoesOn
<1>3. CASE DeviceBudgetSpent(c)
  BY <1>1, <1>2, <1>3 DEF Submit, Refusal
<1>4. CASE ~DeviceBudgetSpent(c) /\ CanMakeCall(c)
  <2>1. status' = [status EXCEPT ![c] = "running"]
    BY <1>4 DEF Submit
  <2> QED BY <1>1, <2>1 DEF GoesOn
<1>5. CASE ~DeviceBudgetSpent(c) /\ ~CanMakeCall(c)
  <2>1. Enqueue(c)
    BY <1>5 DEF Submit
  <2>2. CASE \E why \in Refusal : Refuse({c}, why)
    BY <1>1, <1>2, <2>2
  <2>3. CASE status' = [status EXCEPT ![c] = "queued"]
    BY <1>1, <2>3 DEF GoesOn
  <2>4. CASE /\ Len(queue) >= MaxQueueLength
             /\ status' = [status EXCEPT ![c] = "queued", ![Last(queue)] = "evicted"]
    <3>1. Len(queue) \in DOMAIN queue /\ Last(queue) = queue[Len(queue)]
      BY <2>4, LenProperties, LimitFacts DEF IInv, Flow, FlowTypeOK, Last
    <3>2. Last(queue) \in Call
      BY <3>1, ElementOfSeq, LenProperties DEF IInv, Flow, FlowTypeOK
    <3>3. status[Last(queue)] = "queued"
      BY <3>1, <3>2 DEF IInv, Flow, QueueOK
    <3> QED BY <1>1, <2>4, <3>2, <3>3 DEF GoesOn
  <2> QED BY <2>1, <2>2, <2>3, <2>4 DEF Enqueue, Refusal
<1> QED BY <1>1, <1>3, <1>4, <1>5

\* The timers, the loop, the answers and the stop only move calls that were made.
LEMMA CallsGoOn ==
  ASSUME IInv,
         \/ \E c \in Call, neverSent, failed \in BOOLEAN : Settle(c, neverSent, failed)
         \/ ProcessTick \/ WalkTurn \/ ResetMinuteWindow \/ ResetDaily
         \/ \E d \in Device : RefillDevice(d)
         \/ RefillAccount \/ Stop
  PROVE  \A a \in Call : GoesOn(a)
<1>1. status \in [Call -> Status] /\ \A x \in Range(queue) : x \in Call /\ status[x] = "queued"
  BY QueuedCalls DEF IInv, Flow, FlowTypeOK
<1>2. ASSUME NEW S \in SUBSET Range(queue), NEW why \in Refusal, Refuse(S, why)
      PROVE  \A a \in Call : GoesOn(a)
  BY <1>1, <1>2 DEF Refuse, Refusal, GoesOn
<1>3. ASSUME ProcessQueue PROVE \A a \in Call : GoesOn(a)
  <2>1. CASE DayBudgetSpent
    BY <1>2, <1>3, <2>1 DEF ProcessQueue, Refusal
  <2>2. CASE ~DayBudgetSpent
    BY <1>3, <2>2 DEF ProcessQueue, GoesOn
  <2> QED BY <2>1, <2>2
<1>4. ASSUME NEW c \in Call, NEW neverSent \in BOOLEAN, NEW failed \in BOOLEAN,
             Settle(c, neverSent, failed)
      PROVE  \A a \in Call : GoesOn(a)
  BY <1>1, <1>4 DEF Settle, GoesOn
<1>5. ASSUME WalkTurn PROVE \A a \in Call : GoesOn(a)
  <2> DEFINE c == queue[walk]
  <2>1. queue \in Seq(Call) /\ Len(queue) \in Nat /\ DOMAIN queue = 1..Len(queue)
    BY LenProperties DEF IInv, Flow, FlowTypeOK
  <2>2. walk \in 1..Len(queue)
    BY <1>5, <2>1 DEF IInv, Flow, QueueOK, Idle, WalkTurn
  <2>3. c \in Call
    BY <2>1, <2>2, ElementOfSeq
  <2>4. status[c] = "queued"
    BY <2>1, <2>2, <2>3 DEF IInv, Flow, QueueOK
  <2>5. UNCHANGED status \/ Refuse({c}, "device-spent") \/ status' = [status EXCEPT ![c] = "running"]
    BY <1>5 DEF WalkTurn
  <2>6. CASE Refuse({c}, "device-spent")
    BY <2>3, <2>4, <2>6 DEF Refuse, GoesOn
  <2>7. CASE status' = [status EXCEPT ![c] = "running"]
    BY <1>1, <2>3, <2>4, <2>7 DEF GoesOn
  <2> QED BY <2>5, <2>6, <2>7 DEF GoesOn
<1>6. ASSUME Stop PROVE \A a \in Call : GoesOn(a)
  BY <1>2, <1>6 DEF Stop, Refusal
<1>7. ASSUME UNCHANGED status PROVE \A a \in Call : GoesOn(a)
  BY <1>7 DEF GoesOn
<1> QED BY <1>3, <1>4, <1>5, <1>6, <1>7 DEF ProcessTick, ResetMinuteWindow, ResetDaily, RefillDevice, RefillAccount
=============================================================================
