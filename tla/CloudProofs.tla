---------------------------- MODULE CloudProofs ----------------------------
(***************************************************************************)
(* What the adapter says of the far side is grounded in what it heard: a    *)
(* request that goes out was counted by the gate and a hold only grows; the *)
(* Cloud counts as reachable, and its failed list as due for a repetition,  *)
(* only for a reason; a device is shown green by a sign of life younger     *)
(* than the window; the event channel keeps one way to its next connect; a  *)
(* failed command is asked about; and a library counts as empty only when   *)
(* it was answered.  For any requests, hosts, limits, answers and windows.  *)
(***************************************************************************)
EXTENDS HttpGate, CallGateProofs, CloudConnection, Reachability, EventChannel, StatusAsk,
        LibraryLoad, TLAPS

-----------------------------------------------------------------------------
(* Requests through the gate.                                              *)

\* A request is out only if the gate let it through.
OutIsCounted ==
  /\ heldUntil \in [Host -> Nat]
  /\ DOMAIN status = Call
  /\ \A c \in Call : status[c] \in {"running", "settled"} => c \in passed

\* What a request does, and when a waiting one asks again.
RequestsTyped ==
  /\ status \in [Call -> {"new", "refused", "waiting", "running", "settled"}]
  /\ wakeAt \in [Call -> Nat]

Inv == OutIsCounted /\ RequestsTyped /\ GateInv

-----------------------------------------------------------------------------
LEMMA InitOut == Init => OutIsCounted /\ GateInit
BY DEF Init, OutIsCounted

\* One turn of admit is a step of the gate, and what goes out is counted.
LEMMA AdmitCounts ==
  ASSUME OutIsCounted, NEW c \in Call, Admit(c)
  PROVE  OutIsCounted' /\ GateNext
<1>1. hostOf[c] \in Host
  BY GateAssumption
<1>2. CASE TryAdmit(hostOf[c], {c}) /\ Become(c, "running") /\ UNCHANGED heldUntil
  <2>1. passed' = passed \cup {c}
    BY <1>2 DEF TryAdmit
  <2>2. OutIsCounted'
    BY <1>2, <2>1 DEF OutIsCounted, Become
  <2> QED BY <1>1, <1>2, <2>2 DEF GateNext
<1>3. CASE TryAdmit(hostOf[c], {}) /\ Become(c, "waiting") /\ UNCHANGED heldUntil
  <2>1. passed' = passed
    BY <1>3 DEF TryAdmit
  <2>2. OutIsCounted'
    BY <1>3, <2>1 DEF OutIsCounted, Become
  <2> QED BY <1>1, <1>3, <2>2 DEF GateNext
<1> QED BY <1>2, <1>3 DEF Admit

\* Every step is a step of the gate, or none of it.
LEMMA NextOut ==
  ASSUME OutIsCounted, now \in Nat, [Next]_vars
  PROVE  OutIsCounted' /\ [GateNext]_gateVars
<1>1. ASSUME NEW c \in Call, Request(c)
      PROVE  OutIsCounted' /\ [GateNext]_gateVars
  <2>1. CASE Admit(c)
    BY <2>1, AdmitCounts
  <2>2. CASE Become(c, "refused") /\ UNCHANGED <<gateVars, heldUntil>>
    BY <2>2 DEF OutIsCounted, Become, gateVars
  <2> QED BY <1>1, <2>1, <2>2 DEF Request
<1>2. ASSUME NEW c \in Call, Wake(c)
      PROVE  OutIsCounted' /\ [GateNext]_gateVars
  BY <1>2, AdmitCounts DEF Wake
<1>3. ASSUME NEW c \in Call, Answered(c)
      PROVE  OutIsCounted' /\ [GateNext]_gateVars
  BY <1>3 DEF Answered, Become, OutIsCounted, gateVars
<1>4. ASSUME NEW c \in Call, NEW ms \in HoldMs, RateLimited(c, ms)
      PROVE  OutIsCounted' /\ [GateNext]_gateVars
  <2>1. heldUntil' \in [Host -> Nat]
    <3>1. ms \in Nat /\ hostOf[c] \in Host
      BY HttpAssumption, GateAssumption
    <3>2. heldUntil' = [heldUntil EXCEPT ![hostOf[c]] = IF @ > now + ms THEN @ ELSE now + ms]
      BY <1>4 DEF RateLimited, Hold
    <3> QED BY <3>1, <3>2 DEF OutIsCounted
  <2> QED BY <1>4, <2>1 DEF RateLimited, Become, OutIsCounted, gateVars
<1>5. CASE Tick
  BY <1>5 DEF Tick, GateTick, GateNext, OutIsCounted
<1>6. CASE UNCHANGED vars
  BY <1>6 DEF vars, OutIsCounted, gateVars
<1> QED BY <1>1, <1>2, <1>3, <1>4, <1>5, <1>6 DEF Next

\* A request asks again after a wait that is a number.
LEMMA WaitIsNumber == GateInv => \A c \in Call : WaitMs(hostOf[c]) \in Nat
BY GateAssumption, WaitIsLongest

LEMMA NextTyped ==
  ASSUME RequestsTyped, GateInv, GateInv', [Next]_vars
  PROVE  RequestsTyped'
<1>1. now \in Nat
  BY DEF GateInv, GateTypeOK
<1>2. \A c \in Call : WaitMs(hostOf[c])' \in Nat
  <2>1. (GateInv => \A c \in Call : WaitMs(hostOf[c]) \in Nat)'
    BY WaitIsNumber, PTL
  <2> QED BY <2>1
<1>3. ASSUME NEW c \in Call, Admit(c)
      PROVE  RequestsTyped'
  <2>1. \/ /\ status' = [status EXCEPT ![c] = "running"]
           /\ wakeAt' = wakeAt
        \/ /\ status' = [status EXCEPT ![c] = "waiting"]
           /\ wakeAt' = [wakeAt EXCEPT ![c] = now + WaitMs(hostOf[c])']
    BY <1>3 DEF Admit, Become
  <2>2. now + WaitMs(hostOf[c])' \in Nat
    BY <1>1, <1>2
  <2> QED BY <2>1, <2>2 DEF RequestsTyped
<1>4. ASSUME NEW c \in Call, Request(c)
      PROVE  RequestsTyped'
  BY <1>3, <1>4 DEF Request, Become, RequestsTyped
<1>5. ASSUME NEW c \in Call, NEW ms \in HoldMs, RateLimited(c, ms)
      PROVE  RequestsTyped'
  BY <1>5 DEF RateLimited, Become, RequestsTyped
<1>6. CASE UNCHANGED <<status, wakeAt>>
  BY <1>6 DEF RequestsTyped
<1> QED BY <1>3, <1>4, <1>5, <1>6 DEF Next, Wake, Answered, Become, Tick, RequestsTyped, vars

LEMMA ClockIsNat == Inv => now \in Nat
BY DEF Inv, GateInv, GateTypeOK

LEMMA InvHolds == Spec => []Inv
<1>1. Init => Inv
  <2>1. Init => RequestsTyped
    BY DEF Init, RequestsTyped
  <2> QED BY <2>1, InitOut, InitGateInv DEF Inv
<1>2. Inv /\ [Next]_vars => Inv'
  BY NextOut, NextTyped, ClockIsNat, NextGateInv DEF Inv
<1> QED BY <1>1, <1>2, PTL DEF Spec

\* The requests that are out are among those the gate counted.
LEMMA OutWindows == Inv => WindowsAreSpared
<1> SUFFICES ASSUME Inv, NEW l \in Limit, NEW h \in Host, NEW t \in 0..now
             PROVE  Cardinality({c \in Call : /\ status[c] \in {"running", "settled"}
                                              /\ KeyOf(l, hostOf[c]) = KeyOf(l, h)
                                              /\ at[c] <= t /\ t < at[c] + windowOf[l]})
                      <= maxOf[l]
  BY DEF WindowsAreSpared
<1> DEFINE out == {c \in Call : /\ status[c] \in {"running", "settled"}
                                /\ KeyOf(l, hostOf[c]) = KeyOf(l, h)
                                /\ at[c] <= t /\ t < at[c] + windowOf[l]}
<1>1. out \subseteq InWindow(l, h, t)
  BY DEF Inv, OutIsCounted, InWindow
<1>2. IsFiniteSet(InWindow(l, h, t)) /\ Cardinality(InWindow(l, h, t)) \in Nat
  BY WindowFinite DEF Inv, GateInv
<1>3. Cardinality(InWindow(l, h, t)) <= maxOf[l]
  BY DEF Inv, GateInv, WindowsKept
<1>4. Cardinality(out) <= Cardinality(InWindow(l, h, t)) /\ Cardinality(out) \in Nat
  BY <1>1, <1>2, FS_Subset, FS_CardinalityType
<1>5. maxOf[l] \in Nat
  BY GateAssumption
<1> HIDE DEF out
<1>6. Cardinality(out) <= maxOf[l]
  BY <1>2, <1>3, <1>4, <1>5
<1> QED BY <1>6 DEF out

\* A later, shorter 429 never opens a host early.
LEMMA HoldsOnlyGrow == Spec => HoldNeverShortened
<1>1. Inv /\ [Next]_vars => [\A h \in Host : heldUntil'[h] >= heldUntil[h]]_vars
  <2> SUFFICES ASSUME Inv, Next, NEW h \in Host
               PROVE  heldUntil'[h] >= heldUntil[h]
    OBVIOUS
  <2>1. heldUntil \in [Host -> Nat] /\ now \in Nat
    BY ClockIsNat DEF Inv, OutIsCounted
  <2>2. CASE UNCHANGED heldUntil
    BY <2>1, <2>2
  <2>3. ASSUME NEW c \in Call, NEW ms \in HoldMs, RateLimited(c, ms)
        PROVE  heldUntil'[h] >= heldUntil[h]
    BY <2>1, <2>3, HttpAssumption DEF RateLimited, Hold
  <2> QED BY <2>2, <2>3 DEF Next, Request, Wake, Admit, Answered, Tick
<1> QED BY <1>1, InvHolds, PTL DEF Spec, HoldNeverShortened

\* No window of a limit holds more requests than it allows, however many waited for
\* the same slot; the wait a waiter is told is long enough; and a later, shorter 429
\* never opens a host early (call-gate.ts, admit, waitMs and hold).
THEOREM HostsStaySpared == Spec => HostsAreSpared
<1>1. Inv => TypeOK /\ WindowsAreSpared /\ WaitIsEnough
  <2>1. Inv => TypeOK
    BY DEF Inv, OutIsCounted, RequestsTyped, GateInv, TypeOK
  <2> QED BY <2>1, OutWindows, WaitsAreEnough DEF Inv
<1> QED BY <1>1, InvHolds, HoldsOnlyGrow, PTL DEF HostsAreSpared

-----------------------------------------------------------------------------
(* Whether the Cloud is reachable, and its device list.                    *)

\* What the adapter keeps of the Cloud.
CloudType ==
  [was : BOOLEAN, shown : BOOLEAN, datapoint : BOOLEAN, first : {"none", "recent", "old"},
   confirmed : BOOLEAN, armed : BOOLEAN, connected : BOOLEAN, stopped : BOOLEAN,
   disposed : BOOLEAN, problem : BOOLEAN, owed : BOOLEAN, accepted : BOOLEAN, failures : 0..2]

\* What the fields say of each other, whoever reported last.
CloudFits(c, unloaded) ==
  /\ c \in CloudType
  /\ c.disposed = unloaded
  /\ c.disposed => c.stopped
  /\ c.stopped \/ c.connected => ~c.armed
  /\ c.owed => ~c.connected /\ (~c.stopped \/ unloaded)
  /\ c.shown => Reachable(c)
  /\ c.accepted => c.shown = Reachable(c)
  /\ ~unloaded => c.datapoint = c.shown
  /\ c.confirmed => c.failures = 2
  /\ c.first # "none" => c.failures >= 1

\* The repetition of a failed list call is armed, or was under way already.
StillRetried(c, d, unloaded) ==
  ~unloaded /\ d.owed => d.armed \/ (c.owed /\ ~c.armed)

\* Nothing was asked yet.
NewIsNew ==
  /\ start \in {"new", "asked", "settled"}
  /\ retry \in {"idle", "asked"} /\ manual \in {"idle", "asked"}
  /\ start = "new" => ~cloud.accepted /\ ~cloud.armed /\ retry = "idle" /\ manual = "idle"

\* The inductive invariant.
CloudInv ==
  /\ unloading \in BOOLEAN /\ emptyRetried \in BOOLEAN
  /\ CloudFits(cloud, unloading)
  /\ NewIsNew
  /\ FailedListIsRetried

-----------------------------------------------------------------------------
(* The operators of the source keep the fields consistent.                 *)

\* One more failure: the second in a row confirms the outage.
LEMMA NoteUnreachableFits ==
  ASSUME NEW u \in BOOLEAN, NEW c, CloudFits(c, u)
  PROVE  LET d == NoteUnreachable(c)
             e == IF d.confirmed /\ ~c.confirmed THEN Show(d) ELSE d
         IN  CloudFits(e, u) /\ StillRetried(c, e, u) /\ e.accepted = c.accepted
<1>1. PICK d : d = NoteUnreachable(c)
  OBVIOUS
<1>2. c \in CloudType
  BY DEF CloudFits
<1>3. PICK n \in 0..2 : n = IF c.failures < 2 THEN c.failures + 1 ELSE 2
  BY <1>2 DEF CloudType
<1>4. \/ d = [c EXCEPT !.failures = n] /\ (c.confirmed \/ c.first = "recent")
      \/ d = [[c EXCEPT !.failures = n] EXCEPT !.first = "recent"] /\ ~c.confirmed
      \/ d = [[c EXCEPT !.failures = n] EXCEPT !.confirmed = TRUE] /\ ~c.confirmed /\ c.first = "old"
  BY <1>1, <1>2, <1>3 DEF NoteUnreachable, CloudType
<1>5. n >= 1 /\ (c.failures >= 1 => n = 2)
  BY <1>2, <1>3 DEF CloudType
<1>6. CASE d.confirmed /\ ~c.confirmed
  <2>1. d = [[c EXCEPT !.failures = n] EXCEPT !.confirmed = TRUE] /\ ~c.confirmed /\ c.first = "old"
    BY <1>2, <1>4, <1>6 DEF CloudType
  <2>2. Show(d) = [[[c EXCEPT !.failures = n] EXCEPT !.confirmed = TRUE] EXCEPT
                      !.shown = FALSE, !.datapoint = IF c.shown THEN FALSE ELSE @]
    BY <1>2, <2>1 DEF Show, Reachable, CloudType
  <2>3. PICK e : e = Show(d)
    OBVIOUS
  <2>4. e \in CloudType
    BY <1>2, <2>1, <2>2, <2>3 DEF CloudType
  <2>5. /\ e.was = c.was /\ e.shown = FALSE /\ e.first = c.first /\ e.confirmed = TRUE
        /\ e.datapoint = (IF c.shown THEN FALSE ELSE c.datapoint)
        /\ e.armed = c.armed /\ e.connected = c.connected /\ e.stopped = c.stopped
        /\ e.disposed = c.disposed /\ e.owed = c.owed /\ e.accepted = c.accepted /\ e.failures = n
    BY <1>2, <2>1, <2>2, <2>3 DEF CloudType
  <2>6. CloudFits(e, u) /\ StillRetried(c, e, u)
    BY <1>2, <1>5, <2>1, <2>4, <2>5 DEF CloudFits, StillRetried, Reachable, CloudType
  <2> QED BY <1>1, <1>6, <2>3, <2>5, <2>6
<1>7. CASE ~(d.confirmed /\ ~c.confirmed)
  <2>1. d \in CloudType
    BY <1>2, <1>4 DEF CloudType
  <2>2. /\ d.was = c.was /\ d.shown = c.shown /\ d.confirmed = c.confirmed
        /\ d.datapoint = c.datapoint
        /\ d.armed = c.armed /\ d.connected = c.connected /\ d.stopped = c.stopped
        /\ d.disposed = c.disposed /\ d.owed = c.owed /\ d.accepted = c.accepted /\ d.failures = n
    BY <1>2, <1>4, <1>7 DEF CloudType
  <2>3. CloudFits(d, u) /\ StillRetried(c, d, u)
    BY <1>2, <1>5, <2>1, <2>2 DEF CloudFits, StillRetried, Reachable
  <2> QED BY <1>1, <1>7, <2>2, <2>3
<1> QED BY <1>6, <1>7

\* What is true of the fields before the reachability is shown.
CloudBase(c, unloaded) ==
  /\ c \in CloudType
  /\ c.disposed = unloaded
  /\ c.disposed => c.stopped
  /\ c.stopped \/ c.connected => ~c.armed
  /\ c.owed => ~c.connected /\ (~c.stopped \/ unloaded)
  /\ ~unloaded => c.datapoint = c.shown
  /\ c.confirmed => c.failures = 2
  /\ c.first # "none" => c.failures >= 1

\* The datapoint follows.
LEMMA ShowFits ==
  ASSUME NEW u \in BOOLEAN, NEW c, CloudBase(c, u)
  PROVE  /\ CloudFits(Show(c), u)
         /\ Show(c).armed = c.armed /\ Show(c).owed = c.owed /\ Show(c).accepted = c.accepted
         /\ Show(c).connected = c.connected
<1>1. c \in CloudType
  BY DEF CloudBase
<1>2. PICK r \in BOOLEAN : r = Reachable(c)
  BY <1>1 DEF Reachable, CloudType
<1>3. PICK e : e = Show(c)
  OBVIOUS
<1>4. e = [c EXCEPT !.shown = r, !.datapoint = IF c.shown = r THEN @ ELSE r]
  BY <1>1, <1>2, <1>3 DEF Show, CloudType
<1>5. e \in CloudType
  BY <1>1, <1>4 DEF CloudType
<1>6. /\ e.was = c.was /\ e.shown = r /\ e.first = c.first /\ e.confirmed = c.confirmed
      /\ e.datapoint = (IF c.shown = r THEN c.datapoint ELSE r)
      /\ e.armed = c.armed /\ e.connected = c.connected /\ e.stopped = c.stopped
      /\ e.disposed = c.disposed /\ e.owed = c.owed /\ e.accepted = c.accepted
      /\ e.failures = c.failures
  BY <1>1, <1>4 DEF CloudType
<1>7. CloudFits(e, u)
  BY <1>2, <1>5, <1>6 DEF CloudBase, CloudFits, Reachable
<1> QED BY <1>3, <1>6, <1>7

\* The answer to a list call that failed, by whom it may be repeated.
LEMMA OweFits ==
  ASSUME NEW u \in BOOLEAN, NEW c, CloudFits(c, u), ~c.connected, NEW r \in Reason
  PROVE  LET e == HandleResult(Owe(c, r), r)
         IN  CloudFits(e, u) /\ (~u /\ e.owed => e.armed) /\ e.accepted = c.accepted
<1>1. c \in CloudType
  BY DEF CloudFits
<1>2. PICK d : d = Owe(c, r)
  OBVIOUS
<1>3. /\ d \in CloudType /\ d.owed = (r # "auth-failed" /\ ~c.stopped)
      /\ d.stopped = c.stopped /\ d.connected = c.connected
      /\ d = [c EXCEPT !.owed = (r # "auth-failed" /\ ~c.stopped)]
  BY <1>1, <1>2 DEF Owe, CloudType
<1>3a. d \in CloudType
  BY <1>3
<1>4. PICK e : e = HandleResult(d, r)
  OBVIOUS
<1>5. CASE r = "auth-failed"
  <2>1. e = [d EXCEPT !.stopped = TRUE, !.armed = FALSE]
    BY <1>4, <1>5 DEF HandleResult
  <2>2. e \in CloudType
    BY <1>3a, <2>1 DEF CloudType
  <2>3. /\ e.was = c.was /\ e.shown = c.shown /\ e.first = c.first /\ e.confirmed = c.confirmed
        /\ e.datapoint = c.datapoint /\ e.armed = FALSE /\ e.connected = c.connected
        /\ e.stopped = TRUE /\ e.disposed = c.disposed /\ e.owed = FALSE
        /\ e.accepted = c.accepted /\ e.failures = c.failures
    BY <1>1, <1>3, <1>5, <2>1 DEF CloudType
  <2>4. CloudFits(e, u)
    BY <2>2, <2>3 DEF CloudFits, Reachable
  <2> QED BY <1>2, <1>4, <2>3, <2>4
<1>6. CASE r # "auth-failed" /\ c.stopped
  <2>1. e = d
    BY <1>3, <1>4, <1>6 DEF HandleResult, Schedule
  <2>2. /\ e.was = c.was /\ e.shown = c.shown /\ e.first = c.first /\ e.confirmed = c.confirmed
        /\ e.datapoint = c.datapoint /\ e.armed = c.armed /\ e.connected = c.connected
        /\ e.stopped = c.stopped /\ e.disposed = c.disposed /\ e.owed = FALSE
        /\ e.accepted = c.accepted /\ e.failures = c.failures
    BY <1>1, <1>3, <1>6, <2>1 DEF CloudType
  <2>3. CloudFits(e, u)
    BY <1>3, <2>1, <2>2 DEF CloudFits, Reachable
  <2> QED BY <1>2, <1>4, <2>2, <2>3
<1>7. CASE r # "auth-failed" /\ ~c.stopped
  <2>1. e = [d EXCEPT !.armed = TRUE]
    BY <1>3, <1>4, <1>7 DEF HandleResult, Schedule
  <2>2. e \in CloudType
    BY <1>3a, <2>1 DEF CloudType
  <2>3. /\ e.was = c.was /\ e.shown = c.shown /\ e.first = c.first /\ e.confirmed = c.confirmed
        /\ e.datapoint = c.datapoint /\ e.armed = TRUE /\ e.connected = c.connected
        /\ e.stopped = c.stopped /\ e.disposed = c.disposed /\ e.owed = TRUE
        /\ e.accepted = c.accepted /\ e.failures = c.failures
    BY <1>1, <1>3, <1>7, <2>1 DEF CloudType
  <2>4. CloudFits(e, u)
    BY <1>7, <2>2, <2>3 DEF CloudFits, Reachable
  <2> QED BY <1>2, <1>4, <2>3, <2>4
<1> QED BY <1>5, <1>6, <1>7

\* The loop was told of a failure although the list is loaded: nothing is owed.
LEMMA ResultFits ==
  ASSUME NEW u \in BOOLEAN, NEW c, CloudFits(c, u), c.connected, NEW r \in Reason
  PROVE  LET e == HandleResult(c, r)
         IN  CloudFits(e, u) /\ ~e.owed /\ e.accepted = c.accepted
<1>1. c \in CloudType /\ ~c.owed
  BY DEF CloudFits
<1>4. PICK e : e = HandleResult(c, r)
  OBVIOUS
<1>5. CASE r = "auth-failed"
  <2>1. e = [c EXCEPT !.stopped = TRUE, !.armed = FALSE]
    BY <1>4, <1>5 DEF HandleResult
  <2>2. e \in CloudType
    BY <1>1, <2>1 DEF CloudType
  <2>3. /\ e.was = c.was /\ e.shown = c.shown /\ e.first = c.first /\ e.confirmed = c.confirmed
        /\ e.datapoint = c.datapoint /\ e.armed = FALSE /\ e.connected = c.connected
        /\ e.stopped = TRUE /\ e.disposed = c.disposed /\ e.owed = c.owed
        /\ e.accepted = c.accepted /\ e.failures = c.failures
    BY <1>1, <1>5, <2>1 DEF CloudType
  <2>4. CloudFits(e, u)
    BY <1>1, <2>2, <2>3 DEF CloudFits, Reachable
  <2> QED BY <1>1, <1>4, <2>3, <2>4
<1>6. CASE r # "auth-failed"
  BY <1>1, <1>6 DEF HandleResult, Schedule
<1> QED BY <1>5, <1>6

\* A failed call is noted and shown.
LEMMA FailureFits ==
  ASSUME NEW u \in BOOLEAN, NEW c, CloudFits(c, u), NEW r \in Reason
  PROVE  LET e == HandleCloudFailure(c, r)
         IN  CloudFits(e, u) /\ (~u /\ e.owed => e.armed) /\ e.accepted = c.accepted
<1>1. c \in CloudType
  BY DEF CloudFits
<1>2. PICK told : told = [c EXCEPT !.problem = @ \/ r = "auth-failed"]
  OBVIOUS
<1>3. PICK t : t = [told EXCEPT !.was = FALSE]
  OBVIOUS
<1>4. CloudBase(t, u) /\ t.accepted = c.accepted
  <2>1. told \in CloudType
    BY <1>1, <1>2 DEF CloudType
  <2>2. t \in CloudType
    BY <1>3, <2>1 DEF CloudType
  <2>3. /\ t.shown = c.shown /\ t.first = c.first /\ t.confirmed = c.confirmed
        /\ t.datapoint = c.datapoint /\ t.armed = c.armed /\ t.connected = c.connected
        /\ t.stopped = c.stopped /\ t.disposed = c.disposed /\ t.owed = c.owed
        /\ t.accepted = c.accepted /\ t.failures = c.failures
    BY <1>1, <1>2, <1>3, <2>1 DEF CloudType
  <2> QED BY <2>2, <2>3 DEF CloudFits, CloudBase
<1>5. PICK s : s = Show(t)
  OBVIOUS
<1>6. CloudFits(s, u) /\ s.accepted = c.accepted
  BY <1>4, <1>5, ShowFits
<1>7. PICK down : down = SetConnected(s, FALSE)
  OBVIOUS
<1>8. CloudFits(down, u) /\ ~down.connected /\ down.accepted = c.accepted
  <2>1. s \in CloudType
    BY <1>6 DEF CloudFits
  <2>4. down = [s EXCEPT !.connected = FALSE]
    BY <1>7, <2>1 DEF SetConnected, CloudType
  <2>2. down \in CloudType
    BY <2>4, <2>1 DEF CloudType
  <2>3. /\ down.shown = s.shown /\ down.first = s.first /\ down.confirmed = s.confirmed
        /\ down.datapoint = s.datapoint /\ down.armed = s.armed /\ down.connected = FALSE
        /\ down.stopped = s.stopped /\ down.disposed = s.disposed /\ down.owed = s.owed
        /\ down.accepted = s.accepted /\ down.failures = s.failures /\ down.was = s.was
    BY <2>4, <2>1 DEF CloudType
  <2> QED BY <1>6, <2>2, <2>3 DEF CloudFits, Reachable
<1>9. HandleCloudFailure(c, r) = HandleResult(Owe(down, r), r)
  BY <1>2, <1>3, <1>5, <1>7 DEF HandleCloudFailure, SetCloudConnected
<1> QED BY <1>8, <1>9, OweFits

\* The list is loaded: nothing is owed.
LEMMA ListAcceptedFits ==
  ASSUME NEW u \in BOOLEAN, NEW c, CloudFits(c, u)
  PROVE  LET e == MarkCloudListAccepted(c)
         IN  CloudFits(e, u) /\ ~e.owed /\ e.accepted = c.accepted
<1>1. c \in CloudType
  BY DEF CloudFits
<1>2. PICK told : told = [c EXCEPT !.problem = FALSE]
  OBVIOUS
<1>3. PICK t : t = [told EXCEPT !.was = TRUE]
  OBVIOUS
<1>4. CloudBase(t, u) /\ t.accepted = c.accepted
  <2>1. told \in CloudType
    BY <1>1, <1>2 DEF CloudType
  <2>2. t \in CloudType
    BY <1>3, <2>1 DEF CloudType
  <2>3. /\ t.shown = c.shown /\ t.first = c.first /\ t.confirmed = c.confirmed
        /\ t.datapoint = c.datapoint /\ t.armed = c.armed /\ t.connected = c.connected
        /\ t.stopped = c.stopped /\ t.disposed = c.disposed /\ t.owed = c.owed
        /\ t.accepted = c.accepted /\ t.failures = c.failures
    BY <1>1, <1>2, <1>3, <2>1 DEF CloudType
  <2> QED BY <2>2, <2>3 DEF CloudFits, CloudBase
<1>5. PICK s : s = Show(t)
  OBVIOUS
<1>6. CloudFits(s, u) /\ s.accepted = c.accepted
  BY <1>4, <1>5, ShowFits
<1>7. PICK e : e = SetConnected(s, TRUE)
  OBVIOUS
<1>8. CloudFits(e, u) /\ ~e.owed /\ e.accepted = c.accepted
  <2>1. s \in CloudType
    BY <1>6 DEF CloudFits
  <2>2. e \in CloudType
    BY <1>7, <2>1 DEF SetConnected, CloudType
  <2>3. /\ e.shown = s.shown /\ e.first = s.first /\ e.confirmed = s.confirmed
        /\ e.datapoint = s.datapoint /\ e.armed = FALSE /\ e.connected = TRUE
        /\ e.stopped = s.stopped /\ e.disposed = s.disposed /\ e.owed = FALSE
        /\ e.accepted = s.accepted /\ e.failures = s.failures /\ e.was = s.was
    BY <1>7, <2>1 DEF SetConnected, CloudType
  <2> QED BY <1>6, <2>2, <2>3 DEF CloudFits, Reachable
<1>9. MarkCloudListAccepted(c) = e
  BY <1>2, <1>3, <1>5, <1>7 DEF MarkCloudListAccepted, SetCloudConnected
<1> QED BY <1>8, <1>9

\* An answer ends the counting.
LEMMA NoteAnswerTyped ==
  ASSUME NEW c \in CloudType
  PROVE  NoteAnswer(c) \in CloudType
<1>1. PICK none \in {"none", "recent", "old"}, zero \in 0..2 : none = "none" /\ zero = 0
  OBVIOUS
<1>2. NoteAnswer(c) = [c EXCEPT !.first = none, !.confirmed = FALSE, !.failures = zero]
  BY <1>1 DEF NoteAnswer
<1> QED BY <1>2 DEF CloudType

\* Govee answered: the outage ends, the loop may run again.
LEMMA AnswerFits ==
  ASSUME NEW u \in BOOLEAN, NEW c, CloudFits(c, u)
  PROVE  LET e == OnCloudContact(c, "ok")
         IN  CloudFits(e, u) /\ StillRetried(c, e, u)
<1>1. c \in CloudType
  BY DEF CloudFits
<1>2. PICK n : n = NoteAnswer(c)
  OBVIOUS
<1>3. PICK m : m = [n EXCEPT !.problem = FALSE, !.accepted = TRUE]
  OBVIOUS
<1>4. PICK k : k = NoteKeyAccepted(m)
  OBVIOUS
<1>5. PICK t : t = [k EXCEPT !.was = TRUE]
  OBVIOUS
<1>6. n \in CloudType
  BY <1>1, <1>2, NoteAnswerTyped
<1>7. m \in CloudType
  BY <1>3, <1>6 DEF CloudType
<1>8. PICK b \in BOOLEAN : b = (m.stopped /\ m.disposed)
  BY <1>7 DEF CloudType
<1>9. k = [m EXCEPT !.stopped = b]
  BY <1>4, <1>7, <1>8 DEF NoteKeyAccepted, CloudType
<1>10. k \in CloudType
  BY <1>7, <1>9 DEF CloudType
<1>11. t \in CloudType
  BY <1>5, <1>10 DEF CloudType
<1>12. /\ n.shown = c.shown /\ n.first = "none" /\ n.confirmed = FALSE
       /\ n.datapoint = c.datapoint /\ n.armed = c.armed /\ n.connected = c.connected
       /\ n.stopped = c.stopped /\ n.disposed = c.disposed /\ n.owed = c.owed
  BY <1>1, <1>2 DEF NoteAnswer, CloudType
<1>13. /\ m.shown = n.shown /\ m.first = n.first /\ m.confirmed = n.confirmed
       /\ m.datapoint = n.datapoint /\ m.armed = n.armed /\ m.connected = n.connected
       /\ m.stopped = n.stopped /\ m.disposed = n.disposed /\ m.owed = n.owed
  BY <1>3, <1>6 DEF CloudType
<1>14. /\ t.shown = m.shown /\ t.first = m.first /\ t.confirmed = m.confirmed
       /\ t.datapoint = m.datapoint /\ t.armed = m.armed /\ t.connected = m.connected
       /\ t.stopped = b /\ t.disposed = m.disposed /\ t.owed = m.owed
  BY <1>5, <1>7, <1>9 DEF CloudType
<1>15. CloudBase(t, u)
  BY <1>8, <1>11, <1>12, <1>13, <1>14 DEF CloudFits, CloudBase
<1>16. PICK e : e = Show(t)
  OBVIOUS
<1>17. CloudFits(e, u) /\ e.armed = t.armed /\ e.owed = t.owed
  BY <1>15, <1>16, ShowFits
<1>18. StillRetried(c, e, u)
  BY <1>1, <1>12, <1>13, <1>14, <1>17 DEF StillRetried, CloudType
<1>19. OnCloudContact(c, "ok") = e
  BY <1>2, <1>3, <1>4, <1>5, <1>16 DEF OnCloudContact, SetCloudConnected
<1> QED BY <1>17, <1>18, <1>19

\* Any contact keeps the fields consistent and an owed list armed.
LEMMA ContactFits ==
  ASSUME NEW u \in BOOLEAN, NEW c, CloudFits(c, u), NEW outcome \in Contact
  PROVE  LET e == OnCloudContact(c, outcome)
         IN  CloudFits(e, u) /\ StillRetried(c, e, u)
<1>1. CASE outcome = "none"
  BY <1>1 DEF OnCloudContact, StillRetried
<1>2. CASE outcome = "ok"
  BY <1>2, AnswerFits
<1>3. CASE outcome = "unreachable"
  <2>1. OnCloudContact(c, outcome) =
          LET d == NoteUnreachable(c) IN IF d.confirmed /\ ~c.confirmed THEN Show(d) ELSE d
    BY <1>3 DEF OnCloudContact
  <2> QED BY <2>1, NoteUnreachableFits
<1>4. CASE outcome = "auth-failed"
  <2>1. OnCloudContact(c, outcome) = HandleCloudFailure(c, "auth-failed")
          \/ OnCloudContact(c, outcome) = c
    BY <1>4 DEF OnCloudContact
  <2>2. CASE OnCloudContact(c, outcome) = c
    BY <2>2 DEF StillRetried
  <2>3. CASE OnCloudContact(c, outcome) = HandleCloudFailure(c, "auth-failed")
    <3>1. "auth-failed" \in Reason
      BY DEF Reason
    <3> QED BY <2>3, <3>1, FailureFits DEF StillRetried
  <2> QED BY <2>1, <2>2, <2>3
<1> QED BY <1>1, <1>2, <1>3, <1>4 DEF Contact

\* So does the word of another Govee server.
LEMMA ServerFits ==
  ASSUME NEW u \in BOOLEAN, NEW c, CloudFits(c, u), NEW reached \in BOOLEAN
  PROVE  LET e == OnGoveeServerContact(c, reached)
         IN  CloudFits(e, u) /\ StillRetried(c, e, u)
<1>1. CASE ~reached
  BY <1>1, ContactFits DEF OnGoveeServerContact, Contact
<1>2. CASE reached
  <2>1. c \in CloudType
    BY DEF CloudFits
  <2>2. PICK n : n = NoteAnswer(c)
    OBVIOUS
  <2>3. n \in CloudType
    BY <2>1, <2>2, NoteAnswerTyped
  <2>4. /\ n.shown = c.shown /\ n.first = "none" /\ n.confirmed = FALSE /\ n.was = c.was
        /\ n.datapoint = c.datapoint /\ n.armed = c.armed /\ n.connected = c.connected
        /\ n.stopped = c.stopped /\ n.disposed = c.disposed /\ n.owed = c.owed
        /\ n.accepted = c.accepted
    BY <2>1, <2>2 DEF NoteAnswer, CloudType
  <2>5. CASE c.confirmed
    <3>1. CloudBase(n, u)
      BY <2>3, <2>4 DEF CloudFits, CloudBase
    <3>2. CloudFits(Show(n), u) /\ Show(n).armed = n.armed /\ Show(n).owed = n.owed
      BY <3>1, ShowFits
    <3>3. OnGoveeServerContact(c, reached) = Show(n)
      BY <1>2, <2>2, <2>5 DEF OnGoveeServerContact
    <3> QED BY <2>4, <3>2, <3>3 DEF StillRetried
  <2>6. CASE ~c.confirmed
    <3>1. OnGoveeServerContact(c, reached) = n
      BY <1>2, <2>2, <2>6 DEF OnGoveeServerContact
    <3>2. CloudFits(n, u)
      BY <2>3, <2>4, <2>6 DEF CloudFits, Reachable
    <3> QED BY <2>4, <3>1, <3>2 DEF StillRetried
  <2> QED BY <2>5, <2>6
<1> QED BY <1>1, <1>2

\* The answer to a list call of the start or of the button.
LEMMA SettleFits ==
  ASSUME NEW u \in BOOLEAN, NEW c, CloudFits(c, u), NEW result \in Reason \cup {"ok"}
  PROVE  LET e == Settle(c, result)
         IN  CloudFits(e, u) /\ (~u /\ e.owed => e.armed) /\ e.accepted = c.accepted
<1>1. CASE result = "ok"
  BY <1>1, ListAcceptedFits DEF Settle
<1>2. CASE result # "ok"
  BY <1>2, FailureFits DEF Settle
<1> QED BY <1>1, <1>2

\* The answer to a list call of the loop.
LEMMA RetrySettleFits ==
  ASSUME NEW u \in BOOLEAN, NEW c, CloudFits(c, u), NEW result \in Reason \cup {"ok"}
  PROVE  LET e == RetrySettle(c, result)
         IN  CloudFits(e, u) /\ (~u /\ e.owed => e.armed) /\ e.accepted = c.accepted
<1>1. CASE c.stopped
  <2>1. RetrySettle(c, result) = c
    BY <1>1 DEF RetrySettle
  <2> QED BY <1>1, <2>1 DEF CloudFits
<1>2. CASE ~c.stopped /\ result = "ok"
  BY <1>2, ListAcceptedFits DEF RetrySettle
<1>3. CASE ~c.stopped /\ result # "ok" /\ c.connected
  BY <1>3, ResultFits DEF RetrySettle
<1>4. CASE ~c.stopped /\ result # "ok" /\ ~c.connected
  BY <1>4, OweFits DEF RetrySettle
<1> QED BY <1>1, <1>2, <1>3, <1>4

\* The cached list stands in for the first.
LEMMA CachedFits ==
  ASSUME NEW u \in BOOLEAN, NEW c, CloudFits(c, u), ~c.accepted
  PROVE  LET e == MarkCachedListAccepted(c) IN CloudFits(e, u) /\ ~e.owed
<1>1. c \in CloudType
  BY DEF CloudFits
<1>2. PICK n : n = [c EXCEPT !.was = TRUE]
  OBVIOUS
<1>3. PICK e : e = SetConnected(n, TRUE)
  OBVIOUS
<1>4. n \in CloudType
  BY <1>1, <1>2 DEF CloudType
<1>5. e = [n EXCEPT !.connected = TRUE, !.armed = FALSE, !.owed = FALSE]
  BY <1>3, <1>4 DEF SetConnected, CloudType
<1>6. e \in CloudType
  BY <1>4, <1>5 DEF CloudType
<1>7. /\ e.was = TRUE /\ e.shown = c.shown /\ e.first = c.first /\ e.confirmed = c.confirmed
      /\ e.datapoint = c.datapoint /\ e.armed = FALSE /\ e.connected = TRUE
      /\ e.stopped = c.stopped /\ e.disposed = c.disposed /\ e.owed = FALSE
      /\ e.accepted = c.accepted /\ e.failures = c.failures
  BY <1>1, <1>2, <1>4, <1>5 DEF CloudType
<1>8. CloudFits(e, u)
  BY <1>6, <1>7 DEF CloudFits, Reachable
<1> QED BY <1>2, <1>3, <1>7, <1>8 DEF MarkCachedListAccepted

\* The timer fires.
LEMMA FiredFits ==
  ASSUME NEW u \in BOOLEAN, NEW c, CloudFits(c, u)
  PROVE  LET e == [c EXCEPT !.armed = FALSE]
         IN  CloudFits(e, u) /\ e.owed = c.owed /\ e.accepted = c.accepted /\ ~e.armed
<1>1. c \in CloudType
  BY DEF CloudFits
<1>2. PICK e : e = [c EXCEPT !.armed = FALSE]
  OBVIOUS
<1>3. e \in CloudType
  BY <1>1, <1>2 DEF CloudType
<1>4. /\ e.was = c.was /\ e.shown = c.shown /\ e.first = c.first /\ e.confirmed = c.confirmed
      /\ e.datapoint = c.datapoint /\ e.armed = FALSE /\ e.connected = c.connected
      /\ e.stopped = c.stopped /\ e.disposed = c.disposed /\ e.owed = c.owed
      /\ e.accepted = c.accepted /\ e.failures = c.failures
  BY <1>1, <1>2 DEF CloudType
<1>5. CloudFits(e, u)
  BY <1>3, <1>4 DEF CloudFits, Reachable
<1> QED BY <1>2, <1>4, <1>5

\* The failure gets old.
LEMMA ConfirmFits ==
  ASSUME NEW u \in BOOLEAN, NEW c, CloudFits(c, u), c.first = "recent"
  PROVE  LET e == [c EXCEPT !.first = "old"]
         IN  CloudFits(e, u) /\ e.owed = c.owed /\ e.accepted = c.accepted /\ e.armed = c.armed
<1>1. c \in CloudType
  BY DEF CloudFits
<1>2. PICK e : e = [c EXCEPT !.first = "old"]
  OBVIOUS
<1>3. e \in CloudType
  BY <1>1, <1>2 DEF CloudType
<1>4. /\ e.was = c.was /\ e.shown = c.shown /\ e.first = "old" /\ e.confirmed = c.confirmed
      /\ e.datapoint = c.datapoint /\ e.armed = c.armed /\ e.connected = c.connected
      /\ e.stopped = c.stopped /\ e.disposed = c.disposed /\ e.owed = c.owed
      /\ e.accepted = c.accepted /\ e.failures = c.failures
  BY <1>1, <1>2 DEF CloudType
<1>5. CloudFits(e, u)
  BY <1>3, <1>4 DEF CloudFits, Reachable
<1> QED BY <1>2, <1>4, <1>5

\* The unload ends the loop.
LEMMA DisposeFits ==
  ASSUME NEW u \in BOOLEAN, NEW c, CloudFits(c, u)
  PROVE  LET e == [Dispose(c) EXCEPT !.datapoint = FALSE]
         IN  CloudFits(e, TRUE) /\ ~e.armed /\ e.accepted = c.accepted
<1>1. c \in CloudType
  BY DEF CloudFits
<1>2. PICK e : e = [Dispose(c) EXCEPT !.datapoint = FALSE]
  OBVIOUS
<1>3. e = [c EXCEPT !.disposed = TRUE, !.stopped = TRUE, !.armed = FALSE, !.datapoint = FALSE]
  BY <1>1, <1>2 DEF Dispose, CloudType
<1>4. e \in CloudType
  BY <1>1, <1>3 DEF CloudType
<1>5. /\ e.was = c.was /\ e.shown = c.shown /\ e.first = c.first /\ e.confirmed = c.confirmed
      /\ e.armed = FALSE /\ e.connected = c.connected
      /\ e.stopped = TRUE /\ e.disposed = TRUE /\ e.owed = c.owed
      /\ e.accepted = c.accepted /\ e.failures = c.failures
  BY <1>1, <1>3 DEF CloudType
<1>6. CloudFits(e, TRUE)
  BY <1>4, <1>5 DEF CloudFits, Reachable
<1> QED BY <1>2, <1>5, <1>6

-----------------------------------------------------------------------------
(* The steps.                                                              *)

\* Nothing is owed at the start.
LEMMA InitCloud == CloudInit => CloudInv
<1> SUFFICES ASSUME CloudInit PROVE CloudInv
  OBVIOUS
<1>1. cloud \in CloudType
  BY DEF CloudInit, CloudType
<1>2. CloudFits(cloud, unloading)
  BY <1>1 DEF CloudInit, CloudFits, Reachable
<1>3. NewIsNew /\ FailedListIsRetried
  BY DEF CloudInit, NewIsNew, FailedListIsRetried
<1> QED BY <1>2, <1>3 DEF CloudInit, CloudInv

\* The answers a call can have.
LEMMA AnswerTyped ==
  ASSUME NEW answer \in ListAnswer
  PROVE  answer.contact \in Contact /\ answer.result \in Reason \cup {"ok"}
BY DEF ListAnswer, Contact, Reason

\* The answers to list calls.
LEMMA AnswersKeep ==
  ASSUME CloudInv, NEW answer \in ListAnswer,
         StartAnswer(answer) \/ RetryAnswer(answer) \/ ManualAnswer(answer)
  PROVE  CloudInv'
<1> USE DEF CloudInv
<1>1. PICK u \in BOOLEAN : u = unloading
  OBVIOUS
<1>2. PICK told : told = OnCloudContact(cloud, answer.contact)
  OBVIOUS
<1>3. PICK result \in Reason \cup {"ok"} : result = answer.result
  BY AnswerTyped
<1>4. CloudFits(told, u)
  BY <1>1, <1>2, AnswerTyped, ContactFits
<1>5. CloudFits(Settle(told, result), u) /\ (~u /\ Settle(told, result).owed => Settle(told, result).armed)
  BY <1>4, SettleFits
<1>6. CloudFits(RetrySettle(told, result), u)
      /\ (~u /\ RetrySettle(told, result).owed => RetrySettle(told, result).armed)
  BY <1>4, RetrySettleFits
<1>7. EmptyCounted(answer) /\ unloading' = u
  BY <1>1 DEF StartAnswer, RetryAnswer, ManualAnswer
<1>8. emptyRetried' \in BOOLEAN
  BY <1>7 DEF EmptyCounted
<1>9. CASE StartAnswer(answer)
  <2>1. start' = "settled" /\ UNCHANGED <<retry, manual>>
    BY <1>9 DEF StartAnswer
  <2>2. cloud' = (IF unloading THEN told ELSE Settle(told, result))
    BY <1>2, <1>3, <1>9 DEF StartAnswer
  <2>3. CloudFits(cloud', u)
    BY <1>4, <1>5, <2>2
  <2>4. ~unloading /\ cloud'.owed => cloud'.armed
    BY <1>1, <1>5, <2>2
  <2>5. NewIsNew' /\ FailedListIsRetried'
    BY <1>1, <1>7, <2>1, <2>4 DEF NewIsNew, FailedListIsRetried
  <2> QED BY <1>7, <1>8, <2>3, <2>5
<1>10. CASE RetryAnswer(answer)
  <2>1. start' = start /\ retry' = "idle" /\ manual' = manual /\ retry = "asked"
    BY <1>10 DEF RetryAnswer
  <2>2. cloud' = RetrySettle(told, result)
    BY <1>2, <1>3, <1>10 DEF RetryAnswer
  <2>3. CloudFits(cloud', u)
    BY <1>6, <2>2
  <2>4. NewIsNew' /\ FailedListIsRetried'
    BY <1>6, <1>7, <2>1, <2>2 DEF NewIsNew, FailedListIsRetried
  <2> QED BY <1>7, <1>8, <2>3, <2>4
<1>11. CASE ManualAnswer(answer)
  <2>1. start' = start /\ manual' = "idle" /\ retry' = retry /\ manual = "asked"
    BY <1>11 DEF ManualAnswer
  <2>2. cloud' = Settle(told, result)
    BY <1>2, <1>3, <1>11 DEF ManualAnswer
  <2>3. CloudFits(cloud', u)
    BY <1>5, <2>2
  <2>4. NewIsNew' /\ FailedListIsRetried'
    BY <1>5, <1>7, <2>1, <2>2 DEF NewIsNew, FailedListIsRetried
  <2> QED BY <1>7, <1>8, <2>3, <2>4
<1> QED BY <1>9, <1>10, <1>11

\* The timers of the list calls, the start from the cache, the button.
LEMMA TimersKeep ==
  ASSUME CloudInv,
         StartFromCache \/ StartAsks \/ StartTimeout \/ RetryFires \/ RetryTimeout \/ ManualSync
  PROVE  CloudInv'
<1> USE DEF CloudInv
<1>1. PICK u \in BOOLEAN : u = unloading
  OBVIOUS
<1>2. PICK c : c = cloud
  OBVIOUS
<1>3. CloudFits(c, u) /\ "transient" \in Reason \cup {"ok"}
  BY <1>1, <1>2 DEF Reason
<1>4. unloading' = u /\ emptyRetried' = emptyRetried
  BY <1>1 DEF StartFromCache, StartAsks, StartTimeout, RetryFires, RetryTimeout, ManualSync
<1>5. CASE StartFromCache
  <2>1. cloud' = MarkCachedListAccepted(c) /\ start' = "settled" /\ UNCHANGED <<retry, manual>>
    BY <1>2, <1>5 DEF StartFromCache
  <2>2. ~c.accepted
    BY <1>2, <1>5 DEF StartFromCache, NewIsNew
  <2>3. CloudFits(cloud', u) /\ ~cloud'.owed
    BY <1>3, <2>1, <2>2, CachedFits
  <2>4. NewIsNew' /\ FailedListIsRetried'
    BY <2>1, <2>3 DEF NewIsNew, FailedListIsRetried
  <2> QED BY <1>4, <2>3, <2>4
<1>6. CASE StartAsks
  <2>1. cloud' = cloud /\ retry' = retry /\ manual' = manual /\ start' = "asked"
    BY <1>6 DEF StartAsks
  <2>2. unloading' = unloading
    BY <1>6 DEF StartAsks
  <2>3. NewIsNew' /\ FailedListIsRetried'
    BY <2>1, <2>2 DEF NewIsNew, FailedListIsRetried
  <2> QED BY <1>2, <1>3, <1>4, <2>1, <2>3
<1>7. CASE StartTimeout
  <2>1. cloud' = Settle(c, "transient") /\ start' = "settled" /\ UNCHANGED <<retry, manual>>
    BY <1>2, <1>7 DEF StartTimeout
  <2>2. CloudFits(cloud', u) /\ (~u /\ cloud'.owed => cloud'.armed)
    BY <1>3, <2>1, SettleFits
  <2>3. NewIsNew' /\ FailedListIsRetried'
    BY <1>4, <2>1, <2>2 DEF NewIsNew, FailedListIsRetried
  <2> QED BY <1>4, <2>2, <2>3
<1>8. CASE RetryFires
  <2>1. /\ cloud' = [c EXCEPT !.armed = FALSE] /\ UNCHANGED <<start, manual>> /\ c.armed
        /\ retry' = IF c.connected \/ c.stopped THEN "idle" ELSE "asked"
    BY <1>2, <1>8 DEF RetryFires
  <2>2. CloudFits(cloud', u) /\ cloud'.owed = c.owed
    BY <1>3, <2>1, FiredFits
  <2>3. c.owed /\ ~u => retry' = "asked"
    BY <1>3, <2>1 DEF CloudFits
  <2>4. start # "new"
    BY <1>2, <2>1 DEF NewIsNew
  <2>5. NewIsNew' /\ FailedListIsRetried'
    BY <1>4, <2>1, <2>2, <2>3, <2>4 DEF NewIsNew, FailedListIsRetried
  <2> QED BY <1>4, <2>2, <2>5
<1>9. CASE RetryTimeout
  <2>1. /\ cloud' = RetrySettle(c, "transient") /\ retry = "asked" /\ retry' = "idle"
        /\ UNCHANGED <<start, manual>>
    BY <1>2, <1>9 DEF RetryTimeout
  <2>2. CloudFits(cloud', u) /\ (~u /\ cloud'.owed => cloud'.armed)
    BY <1>3, <2>1, RetrySettleFits
  <2>3. NewIsNew' /\ FailedListIsRetried'
    BY <1>4, <2>1, <2>2 DEF NewIsNew, FailedListIsRetried
  <2> QED BY <1>4, <2>2, <2>3
<1>10. CASE ManualSync
  <2>1. cloud' = cloud /\ retry' = retry /\ manual' = "asked" /\ start' = "settled"
    BY <1>10 DEF ManualSync
  <2>2. unloading' = unloading
    BY <1>10 DEF ManualSync
  <2>3. NewIsNew' /\ FailedListIsRetried'
    BY <2>1, <2>2 DEF NewIsNew, FailedListIsRetried
  <2> QED BY <1>2, <1>3, <1>4, <2>1, <2>3
<1> QED BY <1>5, <1>6, <1>7, <1>8, <1>9, <1>10

\* Everything else that talks to Govee, and the end.
LEMMA OthersKeep ==
  ASSUME CloudInv,
         \/ \E outcome \in Contact : CloudCall(outcome)
         \/ \E reached \in BOOLEAN : AppApiAnswer(reached)
         \/ ConfirmTimePasses \/ Unload
  PROVE  CloudInv'
<1> USE DEF CloudInv
<1>1. PICK u \in BOOLEAN : u = unloading
  OBVIOUS
<1>2. PICK c : c = cloud
  OBVIOUS
<1>3. CloudFits(c, u)
  BY <1>1, <1>2
<1>4. retry' = retry /\ manual' = manual /\ emptyRetried' = emptyRetried /\ start' = start
  BY DEF CloudCall, AppApiAnswer, ConfirmTimePasses, Unload
<1>5. ASSUME CloudFits(cloud', u), StillRetried(c, cloud', u), start # "new", unloading' = u
      PROVE  CloudInv'
  <2>1. NewIsNew'
    BY <1>4, <1>5 DEF NewIsNew
  <2>2. FailedListIsRetried'
    BY <1>1, <1>2, <1>4, <1>5 DEF StillRetried, FailedListIsRetried
  <2> QED BY <1>4, <1>5, <2>1, <2>2
<1>6. ASSUME NEW outcome \in Contact, CloudCall(outcome) PROVE CloudInv'
  <2>1. cloud' = OnCloudContact(c, outcome) /\ start # "new" /\ unloading' = u
    BY <1>1, <1>2, <1>6 DEF CloudCall
  <2>2. CloudFits(cloud', u) /\ StillRetried(c, cloud', u)
    BY <1>3, <2>1, ContactFits
  <2> QED BY <1>5, <2>1, <2>2
<1>7. ASSUME NEW reached \in BOOLEAN, AppApiAnswer(reached) PROVE CloudInv'
  <2>1. cloud' = OnGoveeServerContact(c, reached) /\ start # "new" /\ unloading' = u
    BY <1>1, <1>2, <1>7 DEF AppApiAnswer
  <2>2. CloudFits(cloud', u) /\ StillRetried(c, cloud', u)
    BY <1>3, <2>1, ServerFits
  <2> QED BY <1>5, <2>1, <2>2
<1>8. CASE ConfirmTimePasses
  <2>1. cloud' = [c EXCEPT !.first = "old"] /\ c.first = "recent" /\ unloading' = u
    BY <1>1, <1>2, <1>8 DEF ConfirmTimePasses
  <2>2. /\ CloudFits(cloud', u) /\ cloud'.owed = c.owed /\ cloud'.accepted = c.accepted
        /\ cloud'.armed = c.armed
    BY <1>3, <2>1, ConfirmFits
  <2>3. NewIsNew'
    BY <1>2, <1>4, <2>2 DEF NewIsNew
  <2>4. FailedListIsRetried'
    BY <1>1, <1>2, <1>4, <2>1, <2>2 DEF FailedListIsRetried
  <2> QED BY <1>4, <2>1, <2>2, <2>3, <2>4
<1>9. CASE Unload
  <2>1. cloud' = [Dispose(c) EXCEPT !.datapoint = FALSE] /\ unloading' = TRUE
    BY <1>2, <1>9 DEF Unload
  <2>2. CloudFits(cloud', TRUE) /\ ~cloud'.armed /\ cloud'.accepted = c.accepted
    BY <1>3, <2>1, DisposeFits
  <2>3. NewIsNew'
    BY <1>2, <1>4, <2>2 DEF NewIsNew
  <2>4. FailedListIsRetried'
    BY <2>1 DEF FailedListIsRetried
  <2> QED BY <1>4, <2>1, <2>2, <2>3, <2>4
<1> QED BY <1>6, <1>7, <1>8, <1>9

\* Every step keeps it.
LEMMA NextCloud == CloudInv /\ [CloudNext]_cloudVars => CloudInv'
<1> SUFFICES ASSUME CloudInv, [CloudNext]_cloudVars PROVE CloudInv'
  OBVIOUS
<1>1. CASE UNCHANGED cloudVars
  BY <1>1 DEF cloudVars, CloudInv, NewIsNew, FailedListIsRetried
<1>2. CASE CloudNext
  BY <1>2, AnswersKeep, TimersKeep, OthersKeep DEF CloudNext
<1> QED BY <1>1, <1>2

\* After onUnload no step arms the loop's timer or sends its list call.
LEMMA UnloadedStep ==
  ASSUME CloudInv, CloudInv', [CloudNext]_cloudVars
  PROVE  NothingAskedAfterUnload
<1> SUFFICES ASSUME unloading PROVE ~cloud'.armed /\ (retry' = "asked" => retry = "asked")
  BY DEF NothingAskedAfterUnload
<1>1. unloading'
  BY DEF CloudNext, cloudVars, StartFromCache, StartAsks, StartTimeout, RetryFires, RetryTimeout,
         ManualSync, StartAnswer, RetryAnswer, ManualAnswer, CloudCall, AppApiAnswer,
         ConfirmTimePasses, Unload
<1>2. ~cloud'.armed /\ ~cloud.armed
  BY <1>1 DEF CloudInv, CloudFits
<1>3. retry' = "asked" => retry = "asked"
  BY <1>2 DEF CloudNext, cloudVars, StartFromCache, StartAsks, StartTimeout, RetryFires, RetryTimeout,
         ManualSync, StartAnswer, RetryAnswer, ManualAnswer, CloudCall, AppApiAnswer,
         ConfirmTimePasses, Unload
<1> QED BY <1>2, <1>3

\* A failed list always has its repetition coming, what is shown of the Cloud is
\* what the adapter believes, an outage rests on two failures in a row, and after
\* onUnload nothing is asked: whatever Govee answers and whoever asked.
THEOREM CloudIsTold == CloudSpec => CloudIsTracked
<1>1. CloudInv => CloudTypeOK /\ FailedListIsRetried /\ ShownIsReachable /\ OutageIsReal
  <2>1. CloudInv => CloudTypeOK
    BY DEF CloudInv, CloudFits, NewIsNew, CloudTypeOK, CloudType
  <2>2. CloudInv => ShownIsReachable /\ OutageIsReal
    BY DEF CloudInv, CloudFits, ShownIsReachable, OutageIsReal
  <2> QED BY <2>1, <2>2 DEF CloudInv
<1>2. CloudInv /\ CloudInv' /\ [CloudNext]_cloudVars => NothingAskedAfterUnload
  BY UnloadedStep
<1> QED BY <1>1, <1>2, InitCloud, NextCloud, PTL DEF CloudSpec, CloudIsTracked

-----------------------------------------------------------------------------
(* Whether a device is there.                                              *)

\* What is known of a device.
DevType ==
  [lanIp : BOOLEAN, lanSeen : BOOLEAN, lanReply : BOOLEAN,
   report : Said, reportAge : Age, liveAge : Age, pushAge : Age,
   raw : BOOLEAN, gateway : {"unknown", "up", "down"}, noPath : BOOLEAN, tried : BOOLEAN]

\* What is known of a device of a kind has its form.
Formed(d, k) ==
  /\ d \in DevType
  /\ d.lanReply => d.lanSeen
  /\ d.lanIp => k = "light"

\* What is known of a device rests on what was heard: p is the age of the newest
\* sign of life, o that of the last "offline", r says that a packet was replayed,
\* g that the broker called the device gone.
Rests(d, p, o, r, g) ==
  /\ p \in Age /\ o \in Age
  /\ d.report = "yes" => p <= d.reportAge
  /\ p <= d.liveAge
  /\ r = FALSE /\ o < TTL => d.report = "no" /\ d.reportAge <= o
  /\ g = FALSE /\ d.pushAge < TTL => d.report = "yes" /\ d.reportAge <= d.pushAge

\* The same was heard of both.
SameWord(d, e) ==
  /\ e.report = d.report /\ e.reportAge = d.reportAge
  /\ e.liveAge = d.liveAge /\ e.pushAge = d.pushAge

\* The forms of the rest.
SidesTyped ==
  /\ kind \in {"light", "appliance"}
  /\ gw \in {"absent", "up", "down"}
  /\ chan \in [cloud : BOOLEAN, broker : BOOLEAN, app : BOOLEAN]
  /\ shown \in BOOLEAN /\ conn \in BOOLEAN
  /\ heard \in 0..MaxHeard

\* The inductive invariant: what is known is dated no younger than it was heard.
ReachInv ==
  /\ SidesTyped
  /\ replayed \in BOOLEAN /\ gone \in BOOLEAN
  /\ Formed(dev, kind)
  /\ Rests(dev, proof, offAge, replayed, gone)

-----------------------------------------------------------------------------
\* Ages are counted up to the window.
LEMMA AgeFacts == /\ TTL \in Nat /\ 0 \in Age /\ TTL \in Age
                  /\ \A a \in Age : a \in Nat /\ a <= TTL
BY ReachAssumption DEF Age

\* A device's stamps are ages.
LEMMA DevAges ==
  ASSUME NEW d \in DevType
  PROVE  /\ d.reportAge \in Age /\ d.liveAge \in Age /\ d.pushAge \in Age
         /\ d.reportAge \in Nat /\ d.liveAge \in Nat /\ d.pushAge \in Nat
<1>1. d.reportAge \in Age /\ d.liveAge \in Age /\ d.pushAge \in Age
  BY DEF DevType
<1> QED BY <1>1, AgeFacts

\* Only the stamps matter to what a device rests on.
LEMMA SameRests ==
  ASSUME NEW d, NEW e, SameWord(d, e), NEW p, NEW o, NEW r, NEW g, Rests(d, p, o, r, g)
  PROVE  Rests(e, p, o, r, g)
BY DEF SameWord, Rests

\* Marking the cloud paths says nothing of the device.
LEMMA MarkFits ==
  ASSUME NEW d, NEW c, NEW k, Formed(d, k)
  PROVE  Formed(markCloudPaths(d, c), k) /\ SameWord(d, markCloudPaths(d, c))
<1>1. PICK b \in BOOLEAN : b = (~c.cloud /\ ~c.broker /\ ~c.app)
  OBVIOUS
<1>2. markCloudPaths(d, c) = [d EXCEPT !.noPath = b]
  BY <1>1 DEF markCloudPaths
<1> QED BY <1>2 DEF Formed, DevType, SameWord

\* The resolver decides.
LEMMA ShownTyped ==
  ASSUME NEW d \in DevType, NEW c
  PROVE  Online(d) \in BOOLEAN /\ Connected(d, c) \in BOOLEAN
<1>1. Online(d) \in BOOLEAN
  BY DEF Online, resolveDeviceReachability, Decides, DevType
<1>2. Connected(d, c) \in BOOLEAN
  BY DEF Connected
<1> QED BY <1>1, <1>2

\* What an update leaves: the paths are judged anew, the rest is as told.
LEMMA UpdateFits ==
  ASSUME NEW d, NEW c, Formed(d, kind), shown \in BOOLEAN, conn \in BOOLEAN,
         Updates(d, c) \/ Silent(d)
  PROVE  /\ Formed(dev', kind) /\ SameWord(d, dev')
         /\ shown' \in BOOLEAN /\ conn' \in BOOLEAN
<1>1. CASE Silent(d)
  BY <1>1 DEF Silent, SameWord
<1>2. CASE Updates(d, c)
  <2>1. Formed(dev', kind) /\ SameWord(d, dev')
    BY <1>2, MarkFits DEF Updates
  <2>2. d \in DevType /\ markCloudPaths(d, c) \in DevType
    BY MarkFits DEF Formed
  <2>3. shown' = shown \/ shown' = Online(d)
    BY <1>2 DEF Updates
  <2>4. conn' = Connected(markCloudPaths(d, c), c)
    BY <1>2 DEF Updates
  <2> QED BY <2>1, <2>2, <2>3, <2>4, ShownTyped
<1> QED BY <1>1, <1>2

\* A step that hears nothing of reachability keeps what is known.
LEMMA DeafKeeps ==
  ASSUME ReachInv, SidesTyped', Formed(dev', kind'), SameWord(dev, dev'),
         UNCHANGED <<proof, offAge, replayed, gone>>
  PROVE  ReachInv'
BY SameRests DEF ReachInv

\* The lower of two ages.
LEMMA LowestFacts ==
  ASSUME NEW a \in Age, NEW b \in Age
  PROVE  Lowest(a, b) \in Age /\ Lowest(a, b) <= a /\ Lowest(a, b) <= b
BY AgeFacts DEF Lowest

\* A word without "online" is a sign of life; "yes" is one and lifts an "offline".
LEMMA LifeRests ==
  ASSUME NEW d \in DevType, NEW e \in DevType, NEW p, NEW o, NEW r, NEW g, NEW s,
         Rests(d, p, o, r, g), e.pushAge = d.pushAge, s = FALSE => r = FALSE,
         e.report = d.report, e.reportAge = d.reportAge, e.liveAge = 0
  PROVE  Rests(e, 0, o, s, g)
<1>1. e.reportAge \in Nat /\ 0 \in Age
  BY AgeFacts DEF DevType
<1> QED BY <1>1 DEF Rests

\* A "yes" of this moment is a sign of life, and revokes an older "no".
LEMMA YesRests ==
  ASSUME NEW d \in DevType, NEW e \in DevType, NEW p, NEW o, NEW r, NEW g, NEW s,
         Rests(d, p, o, r, g), e.pushAge = d.pushAge,
         e.report = "yes", e.reportAge = 0, e.liveAge = d.liveAge
  PROVE  Rests(e, 0, TTL, s, g)
<1>1. e.liveAge \in Nat /\ 0 \in Age /\ TTL \in Age /\ ~(TTL < TTL)
  BY DevAges, AgeFacts
<1>2. 0 <= e.reportAge /\ 0 <= e.liveAge /\ e.reportAge <= e.pushAge
  BY <1>1, DevAges
<1> QED BY <1>1, <1>2 DEF Rests

\* The online word of a list, a read or an event is dated by its arrival, and an
\* "offline" is taken only where the device itself was silent.
LEMMA CapsKeep ==
  ASSUME ReachInv, NEW d, Formed(d, kind), SameWord(dev, d),
         NEW said \in Said, NEW c, Caps(d, said, c),
         UNCHANGED kind, gw' \in {"absent", "up", "down"},
         chan' \in [cloud : BOOLEAN, broker : BOOLEAN, app : BOOLEAN], heard' \in 0..MaxHeard
  PROVE  ReachInv'
<1> USE DEF ReachInv
<1>1. CASE Silent(d) /\ UNCHANGED <<proof, offAge, replayed, gone>>
  <2>1. Formed(dev', kind) /\ SameWord(d, dev') /\ shown' \in BOOLEAN /\ conn' \in BOOLEAN
    BY <1>1, UpdateFits DEF SidesTyped
  <2>2. SidesTyped'
    BY <2>1 DEF SidesTyped
  <2>3. SameWord(dev, dev')
    BY <2>1 DEF SameWord
  <2> QED BY <1>1, <2>1, <2>2, <2>3, DeafKeeps
<1>2. CASE /\ ~Shielded(d, said) /\ CapsNews(said)
           /\ Updates(applyOnlineCap(d, said), c) \/ Silent(applyOnlineCap(d, said))
  <2>1. PICK e : e = applyOnlineCap(d, said)
    OBVIOUS
  <2>2. d \in DevType /\ 0 \in Age
    BY AgeFacts DEF Formed
  <2>3. /\ Formed(e, kind) /\ e.pushAge = d.pushAge
        /\ said = "none" => e.report = d.report /\ e.reportAge = d.reportAge /\ e.liveAge = 0
        /\ said # "none" => e.report = said /\ e.reportAge = 0 /\ e.liveAge = d.liveAge
    <3>1. CASE said = "none"
      <4>1. e = [d EXCEPT !.liveAge = 0, !.raw = TRUE]
        BY <2>1, <3>1 DEF applyOnlineCap
      <4> QED BY <2>2, <3>1, <4>1 DEF Formed, DevType
    <3>2. CASE said # "none"
      <4>1. PICK b \in BOOLEAN : b = (said = "yes")
        OBVIOUS
      <4>2. e = [d EXCEPT !.report = said, !.reportAge = 0, !.raw = b]
        BY <2>1, <3>2, <4>1 DEF applyOnlineCap
      <4> QED BY <2>2, <3>2, <4>2 DEF Formed, DevType
    <3> QED BY <3>1, <3>2
  <2>4. Formed(dev', kind) /\ SameWord(e, dev') /\ shown' \in BOOLEAN /\ conn' \in BOOLEAN
    BY <1>2, <2>1, <2>3, UpdateFits DEF SidesTyped
  <2>5. SidesTyped'
    BY <2>4 DEF SidesTyped
  <2>6. Rests(d, proof, offAge, replayed, gone)
    BY SameRests
  <2>7. /\ gone' = gone /\ replayed' \in BOOLEAN
        /\ replayed' = FALSE => replayed = FALSE \/ said = "yes"
    BY <1>2 DEF CapsNews
  <2>8. /\ proof' = IF said = "no" THEN proof ELSE 0
        /\ offAge' = IF said = "no" THEN 0 ELSE IF said = "yes" THEN TTL ELSE offAge
    BY <1>2 DEF CapsNews
  <2>9. Rests(e, proof', offAge', replayed', gone')
    <3>1. d.reportAge \in Age /\ d.liveAge \in Age /\ d.pushAge \in Age
      BY <2>2 DEF DevType
    <3>2. CASE said = "none"
      <4>1. /\ proof' = 0 /\ offAge' = offAge /\ gone' = gone /\ e.pushAge = d.pushAge
            /\ e.report = d.report /\ e.reportAge = d.reportAge /\ e.liveAge = 0
            /\ replayed' = FALSE => replayed = FALSE
        BY <2>3, <2>7, <2>8, <3>2
      <4>2. PICK s : s = replayed'
        OBVIOUS
      <4>3. e \in DevType /\ d \in DevType
        BY <2>2, <2>3 DEF Formed
      <4>4. Rests(e, 0, offAge, s, gone)
        BY <2>6, <4>1, <4>2, <4>3, LifeRests
      <4> QED BY <4>1, <4>2, <4>4
    <3>3. CASE said = "yes"
      <4>1. /\ proof' = 0 /\ offAge' = TTL /\ gone' = gone /\ e.pushAge = d.pushAge
            /\ e.report = "yes" /\ e.reportAge = 0 /\ e.liveAge = d.liveAge
        BY <2>3, <2>7, <2>8, <3>3
      <4> QED BY <2>2, <2>3, <2>6, <4>1, YesRests DEF Formed
    <3>4. CASE said = "no"
      <4>1. ~(d.pushAge < TTL)
        BY <1>2, <3>4 DEF Shielded
      <4> QED BY <2>3, <2>6, <2>7, <2>8, <3>1, <3>4, <4>1, AgeFacts DEF Rests
    <3> QED BY <3>2, <3>3, <3>4 DEF Said
  <2>10. Rests(dev', proof', offAge', replayed', gone')
    BY <2>4, <2>9, SameRests
  <2> QED BY <2>4, <2>5, <2>7, <2>10
<1> QED BY <1>1, <1>2 DEF Caps

\* A "no" of this moment outranks what was heard before.
LEMMA NoRests ==
  ASSUME NEW d \in DevType, NEW e \in DevType, NEW p, NEW o, NEW r, NEW g, NEW s, NEW a \in Age,
         Rests(d, p, o, r, g), e.report = "no", e.reportAge = a, e.liveAge = d.liveAge
  PROVE  Rests(e, p, a, s, TRUE)
<1>1. a \in Nat /\ a <= a
  BY AgeFacts
<1> QED BY <1>1 DEF Rests

\* A packet that speaks for the device: dated by its own stamp, so one that is
\* delivered late is told from one that is news.
LEMMA PacketRests ==
  ASSUME NEW d \in DevType, NEW e \in DevType, NEW p, NEW o, NEW r, NEW g, NEW s,
         NEW a \in Age, NEW b \in Age,
         Rests(d, p, o, r, g), e.report = "yes", e.reportAge = a, e.liveAge = d.liveAge,
         e.pushAge = a \/ a = 0,
         s = FALSE => r = FALSE /\ a <= d.reportAge,
         b = IF a <= o THEN TTL ELSE o
  PROVE  Rests(e, Lowest(p, a), b, s, FALSE)
<1>1. p \in Age /\ o \in Age
  BY DEF Rests
<1>2. Lowest(p, a) \in Age /\ Lowest(p, a) <= a /\ Lowest(p, a) <= p
  BY <1>1, LowestFacts
<1>3. a \in Nat /\ o \in Nat /\ p \in Nat /\ Lowest(p, a) \in Nat /\ TTL \in Nat
  BY <1>1, <1>2, AgeFacts
<1>4. Lowest(p, a) <= e.liveAge
  <2>1. p <= d.liveAge /\ d.liveAge \in Nat
    BY DevAges DEF Rests
  <2> QED BY <1>2, <1>3, <2>1
<1>5. a <= e.pushAge
  <2>1. e.pushAge \in Nat
    BY DevAges
  <2> QED BY <1>3, <2>1
<1>6. ~(s = FALSE /\ b < TTL)
  <2> SUFFICES ASSUME s = FALSE, b < TTL PROVE FALSE
    OBVIOUS
  <2>1. b = o /\ ~(a <= o)
    BY <1>3
  <2>2. o < TTL /\ r = FALSE /\ a <= d.reportAge
    BY <2>1
  <2>3. d.reportAge <= o /\ d.reportAge \in Nat
    BY <2>2, DevAges DEF Rests
  <2> QED BY <1>3, <2>1, <2>2, <2>3
<1> QED BY <1>2, <1>4, <1>5, <1>6 DEF Rests

\* A packet of the broker is dated by its own stamp.
LEMMA PushKeep ==
  ASSUME ReachInv, NEW said \in Said, NEW stamp \in 0..NoStamp, Push(said, stamp)
  PROVE  ReachInv'
<1> USE DEF ReachInv
<1>1. UNCHANGED <<kind, gw, chan>> /\ heard' \in 0..MaxHeard
  BY ReachAssumption DEF Push, Hears, SidesTyped
<1>2. CASE isLanDriven(dev)
  <2>1. Updates(dev, chan) /\ UNCHANGED <<proof, offAge, replayed, gone>>
    BY <1>2 DEF Push
  <2>2. Formed(dev', kind) /\ SameWord(dev, dev') /\ shown' \in BOOLEAN /\ conn' \in BOOLEAN
    BY <2>1, UpdateFits DEF SidesTyped
  <2>3. SidesTyped'
    BY <1>1, <2>2 DEF SidesTyped
  <2> QED BY <1>1, <2>1, <2>2, <2>3, DeafKeeps
<1>3. CASE ~isLanDriven(dev)
  <2>1. PICK a : a = StampAge(stamp)
    OBVIOUS
  <2>2. a \in Age /\ a \in Nat
    BY <2>1, AgeFacts DEF StampAge, NoStamp, Age
  <2>3. PICK word \in Said : word = IF said = "no" THEN "no" ELSE "yes"
    BY DEF Said
  <2>4. PICK voice : voice = IF stamp # NoStamp /\ said # "no" THEN stamp ELSE dev.pushAge
    OBVIOUS
  <2>5. dev \in DevType /\ dev.reportAge \in Nat
    BY DevAges DEF Formed
  <2>6. voice \in Age
    BY <2>1, <2>2, <2>4, <2>5, DevAges DEF StampAge
  <2>7. PICK flag \in BOOLEAN : flag = (said # "no")
    OBVIOUS
  <2>8. PICK e : e = [dev EXCEPT !.report = word, !.reportAge = a, !.pushAge = voice, !.raw = flag]
    OBVIOUS
  <2>9. Updates(e, chan) /\ PacketNews(said, stamp)
    <3>1. e = [dev EXCEPT !.report = IF said = "no" THEN "no" ELSE "yes",
                          !.reportAge = StampAge(stamp),
                          !.pushAge = IF stamp # NoStamp /\ said # "no" THEN stamp ELSE @,
                          !.raw = said # "no"]
      BY <2>1, <2>3, <2>4, <2>7, <2>8
    <3> QED BY <1>3, <3>1 DEF Push
  <2>10. /\ Formed(e, kind) /\ e.report = word /\ e.reportAge = a /\ e.pushAge = voice
         /\ e.liveAge = dev.liveAge
    BY <2>2, <2>3, <2>5, <2>6, <2>7, <2>8 DEF Formed, DevType
  <2>11. Formed(dev', kind) /\ SameWord(e, dev') /\ shown' \in BOOLEAN /\ conn' \in BOOLEAN
    BY <2>9, <2>10, UpdateFits DEF SidesTyped
  <2>12. SidesTyped'
    BY <1>1, <2>11 DEF SidesTyped
  <2>13. /\ proof' = IF said = "no" THEN proof ELSE Lowest(proof, a)
         /\ offAge' = IF said = "no" THEN a ELSE IF a <= offAge THEN TTL ELSE offAge
         /\ replayed' = (replayed \/ a > dev.reportAge)
         /\ gone' = (said = "no")
    BY <2>1, <2>9 DEF PacketNews, StampAge
  <2>14. replayed' \in BOOLEAN /\ gone' \in BOOLEAN
    BY <2>13
  <2>15. replayed' = FALSE => replayed = FALSE /\ a <= dev.reportAge
    <3> SUFFICES ASSUME ~replayed' PROVE replayed = FALSE /\ a <= dev.reportAge
      OBVIOUS
    <3>1. ~replayed /\ ~(a > dev.reportAge)
      BY <2>13
    <3>2. replayed = FALSE
      BY <3>1
    <3> QED BY <2>2, <2>5, <3>1, <3>2
  <2>16. e \in DevType
    BY <2>10 DEF Formed
  <2>17. PICK s : s = replayed'
    OBVIOUS
  <2>18. Rests(e, proof', offAge', s, gone')
    <3>1. CASE said = "no"
      <4>1. Rests(e, proof, a, s, TRUE)
        BY <2>2, <2>3, <2>5, <2>10, <2>16, <3>1, NoRests
      <4>2. proof' = proof /\ offAge' = a /\ gone' = TRUE
        BY <2>13, <3>1
      <4> QED BY <4>1, <4>2
    <3>2. CASE said # "no"
      <4>1. word = "yes" /\ (voice = a \/ a = 0)
        BY <2>1, <2>3, <2>4, <3>2 DEF StampAge
      <4>2. PICK b : b = IF a <= offAge THEN TTL ELSE offAge
        OBVIOUS
      <4>3. b \in Age
        BY <4>2, AgeFacts DEF Rests
      <4>4. Rests(e, Lowest(proof, a), b, s, FALSE)
        BY <2>2, <2>5, <2>10, <2>15, <2>16, <2>17, <4>1, <4>2, <4>3, PacketRests
      <4>5. proof' = Lowest(proof, a) /\ offAge' = b /\ gone' = FALSE
        BY <2>13, <3>2, <4>2
      <4> QED BY <4>4, <4>5
    <3> QED BY <3>1, <3>2
  <2>19. Rests(dev', proof', offAge', s, gone')
    BY <2>11, <2>18, SameRests
  <2> QED BY <1>1, <2>11, <2>12, <2>14, <2>17, <2>19
<1> QED BY <1>2, <1>3

\* The bound on what is heard.
LEMMA HeardFewer == SidesTyped /\ Hears => heard' \in 0..MaxHeard
BY ReachAssumption DEF Hears, SidesTyped

\* The words of the Cloud, of the account list and of an event.
LEMMA WordsKeep ==
  ASSUME ReachInv, NEW said \in Said, CloudEvent(said) \/ AppListAnswers(said) \/ Refresh(said)
  PROVE  ReachInv'
<1> USE DEF ReachInv
<1>1. kind' = kind /\ gw' \in {"absent", "up", "down"} /\ heard' \in 0..MaxHeard
  BY HeardFewer DEF CloudEvent, AppListAnswers, Refresh, SidesTyped
<1>2. CASE CloudEvent(said)
  <2>1. Caps(dev, said, chan) /\ chan' = chan
    BY <1>2 DEF CloudEvent
  <2> QED BY <1>1, <2>1, CapsKeep DEF SameWord, SidesTyped
<1>3. CASE AppListAnswers(said)
  <2>1. PICK e : e = [dev EXCEPT !.gateway = GatewayCap]
    OBVIOUS
  <2>2. GatewayCap \in {"unknown", "up", "down"}
    BY DEF GatewayCap, SidesTyped
  <2>3. Formed(e, kind) /\ SameWord(dev, e)
    BY <2>1, <2>2 DEF Formed, DevType, SameWord
  <2>4. chan' \in [cloud : BOOLEAN, broker : BOOLEAN, app : BOOLEAN]
    BY <1>3 DEF AppListAnswers, SidesTyped
  <2>5. CASE Caps(e, said, chan')
    BY <1>1, <2>3, <2>4, <2>5, CapsKeep
  <2>6. CASE Silent(e) /\ UNCHANGED <<proof, offAge, replayed, gone>>
    <3>1. Formed(dev', kind) /\ SameWord(e, dev') /\ shown' \in BOOLEAN /\ conn' \in BOOLEAN
      BY <2>3, <2>6, UpdateFits DEF SidesTyped
    <3>2. SidesTyped' /\ SameWord(dev, dev')
      BY <1>1, <2>3, <2>4, <3>1 DEF SidesTyped, SameWord
    <3> QED BY <1>1, <2>6, <3>1, <3>2, DeafKeeps
  <2> QED BY <1>3, <2>1, <2>5, <2>6 DEF AppListAnswers
<1>4. CASE Refresh(said)
  <2>1. PICK e : e = [dev EXCEPT !.tried = TRUE]
    OBVIOUS
  <2>2. Formed(e, kind) /\ SameWord(dev, e)
    BY <2>1 DEF Formed, DevType, SameWord
  <2>3. Caps(e, said, chan) /\ chan' = chan
    BY <1>4, <2>1 DEF Refresh
  <2> QED BY <1>1, <2>2, <2>3, CapsKeep DEF SidesTyped
<1> QED BY <1>2, <1>3, <1>4

\* What the LAN says, and what the channels do, says nothing of the Cloud's proofs.
LEMMA LanKeeps ==
  ASSUME ReachInv, LanHello \/ LanAnswers \/ LanReplyAges \/ LanForgotten
  PROVE  ReachInv'
<1> USE DEF ReachInv
<1>1. /\ kind' = kind /\ gw' = gw /\ chan' = chan /\ heard' \in 0..MaxHeard
      /\ UNCHANGED <<proof, offAge, replayed, gone>>
  BY HeardFewer DEF LanHello, LanAnswers, LanReplyAges, LanForgotten, SidesTyped
<1>2. PICK e : /\ Formed(e, kind) /\ SameWord(dev, e)
               /\ Updates(e, chan) \/ Silent(e)
  <2>1. CASE LanHello
    <3>1. PICK e : e = [dev EXCEPT !.lanIp = TRUE, !.lanSeen = TRUE, !.lanReply = TRUE, !.raw = TRUE]
      OBVIOUS
    <3>2. Updates(e, chan) /\ kind = "light"
      BY <2>1, <3>1 DEF LanHello
    <3>3. Formed(e, kind) /\ SameWord(dev, e)
      BY <3>1, <3>2 DEF Formed, DevType, SameWord
    <3> QED BY <3>2, <3>3
  <2>2. CASE LanAnswers
    <3>1. PICK e : e = [dev EXCEPT !.lanSeen = TRUE, !.lanReply = TRUE, !.raw = TRUE]
      OBVIOUS
    <3>2. Updates(e, chan)
      BY <2>2, <3>1 DEF LanAnswers
    <3>3. Formed(e, kind) /\ SameWord(dev, e)
      BY <3>1 DEF Formed, DevType, SameWord
    <3> QED BY <3>2, <3>3
  <2>3. CASE LanReplyAges
    <3>1. PICK e : e = [dev EXCEPT !.lanReply = FALSE]
      OBVIOUS
    <3>2. Silent(e)
      BY <2>3, <3>1 DEF LanReplyAges
    <3>3. Formed(e, kind) /\ SameWord(dev, e)
      BY <3>1 DEF Formed, DevType, SameWord
    <3> QED BY <3>2, <3>3
  <2>4. CASE LanForgotten
    <3>1. PICK e : e = [dev EXCEPT !.lanIp = FALSE, !.lanSeen = FALSE]
      OBVIOUS
    <3>2. Silent(e) /\ ~dev.lanReply
      BY <2>4, <3>1 DEF LanForgotten
    <3>3. Formed(e, kind) /\ SameWord(dev, e)
      BY <3>1, <3>2 DEF Formed, DevType, SameWord
    <3> QED BY <3>2, <3>3
  <2> QED BY <2>1, <2>2, <2>3, <2>4
<1>3. Formed(dev', kind) /\ SameWord(e, dev') /\ shown' \in BOOLEAN /\ conn' \in BOOLEAN
  BY <1>2, UpdateFits DEF SidesTyped
<1>4. SidesTyped' /\ SameWord(dev, dev')
  BY <1>1, <1>2, <1>3 DEF SidesTyped, SameWord
<1> QED BY <1>1, <1>3, <1>4, DeafKeeps

\* A channel comes or goes: nothing is heard.
LEMMA ChannelsKeep ==
  ASSUME ReachInv, AppListFails \/ BrokerTurned \/ CloudFlips \/ GatewayFlips
  PROVE  ReachInv'
<1> USE DEF ReachInv
<1>1. kind' = kind /\ heard' \in 0..MaxHeard /\ UNCHANGED <<proof, offAge, replayed, gone>>
  BY HeardFewer DEF AppListFails, BrokerTurned, CloudFlips, GatewayFlips, SidesTyped
<1>2. gw' \in {"absent", "up", "down"} /\ chan' \in [cloud : BOOLEAN, broker : BOOLEAN, app : BOOLEAN]
  BY DEF AppListFails, BrokerTurned, CloudFlips, GatewayFlips, SidesTyped
<1>3. Formed(dev', kind) /\ SameWord(dev, dev')
  BY MarkFits DEF AppListFails, BrokerTurned, CloudFlips, GatewayFlips, SameWord
<1>4. conn' \in BOOLEAN /\ shown' = shown
  BY ShownTyped, <1>3 DEF AppListFails, BrokerTurned, CloudFlips, GatewayFlips, SidesTyped, Formed
<1>5. SidesTyped'
  BY <1>1, <1>2, <1>4 DEF SidesTyped
<1> QED BY <1>1, <1>3, <1>5, DeafKeeps

\* The round writes what it shows into the light's flag, and hears nothing.
LEMMA RoundKeeps ==
  ASSUME ReachInv, Round
  PROVE  ReachInv'
<1> USE DEF ReachInv
<1>1. PICK d : d = markCloudPaths(dev, chan)
  OBVIOUS
<1>2. Formed(d, kind) /\ SameWord(dev, d)
  BY <1>1, MarkFits
<1>3. PICK is : is = resolveDeviceReachability(d)
  OBVIOUS
<1>4. is.online \in BOOLEAN /\ is.online = Online(d)
  BY <1>2, <1>3, ShownTyped DEF Formed, Online
<1>5. PICK flag : flag = IF kind = "light" /\ (is.proven \/ is.online) THEN is.online ELSE d.raw
  OBVIOUS
<1>6. flag \in BOOLEAN
  BY <1>2, <1>4, <1>5 DEF Formed, DevType
<1>7. PICK e : e = [d EXCEPT !.raw = flag]
  OBVIOUS
<1>8. Formed(e, kind) /\ SameWord(dev, e)
  BY <1>2, <1>6, <1>7 DEF Formed, DevType, SameWord
<1>9. /\ dev' = e /\ shown' = is.online /\ conn' = Connected(e, chan)
      /\ UNCHANGED <<kind, gw, chan, heard, proof, offAge, replayed, gone>>
  BY <1>1, <1>3, <1>5, <1>7 DEF Round
<1>10. SidesTyped'
  BY <1>4, <1>8, <1>9, ShownTyped DEF SidesTyped, Formed
<1> QED BY <1>8, <1>9, <1>10, DeafKeeps

\* Time keeps the order of ages.
LEMMA OlderFacts ==
  /\ \A a \in Age : Older(a) \in Age /\ (Older(a) < TTL => a < TTL)
  /\ \A a, b \in Age : a <= b => Older(a) <= Older(b)
BY ReachAssumption DEF Older, Age

\* Everything grows older together.
LEMMA TimeKeeps ==
  ASSUME ReachInv, TimePasses
  PROVE  ReachInv'
<1> USE DEF ReachInv
<1>1. dev \in DevType /\ proof \in Age /\ offAge \in Age
  BY DEF Formed, Rests
<1>2. PICK ra \in Age, la \in Age, pa \in Age :
        ra = Older(dev.reportAge) /\ la = Older(dev.liveAge) /\ pa = Older(dev.pushAge)
  BY <1>1, OlderFacts, DevAges
<1>3. PICK e : e = [dev EXCEPT !.reportAge = ra, !.liveAge = la, !.pushAge = pa, !.tried = FALSE]
  OBVIOUS
<1>4. /\ Formed(e, kind) /\ e.report = dev.report
      /\ e.reportAge = ra /\ e.liveAge = la /\ e.pushAge = pa
  BY <1>1, <1>2, <1>3 DEF Formed, DevType
<1>5. /\ dev' = e /\ proof' = Older(proof) /\ offAge' = Older(offAge)
      /\ UNCHANGED <<kind, gw, chan, shown, conn, heard, replayed, gone>>
  BY <1>2, <1>3 DEF TimePasses
<1>6. SidesTyped'
  BY <1>5 DEF SidesTyped
<1>7. PICK r, g : r = replayed /\ g = gone
  OBVIOUS
<1>8. Rests(dev, proof, offAge, r, g)
  BY <1>7
<1>9. Rests(e, Older(proof), Older(offAge), r, g)
  BY <1>1, <1>2, <1>4, <1>8, OlderFacts, DevAges DEF Rests
<1> QED BY <1>4, <1>5, <1>6, <1>7, <1>9

-----------------------------------------------------------------------------
\* A start knows nothing.
LEMMA InitReach == ReachInit => ReachInv
<1> SUFFICES ASSUME ReachInit PROVE ReachInv
  OBVIOUS
<1>1. TTL \in Age /\ MaxHeard \in 0..MaxHeard /\ TTL <= TTL /\ ~(TTL < TTL)
  BY ReachAssumption DEF Age
<1>2. dev \in DevType
  BY <1>1 DEF ReachInit, DevType, Said
<1>3. /\ ~dev.lanReply /\ ~dev.lanIp /\ dev.report = "none"
      /\ dev.reportAge = TTL /\ dev.liveAge = TTL /\ dev.pushAge = TTL
  BY DEF ReachInit
<1>4. Formed(dev, kind)
  BY <1>2, <1>3 DEF Formed
<1>5. proof = TTL /\ offAge = TTL /\ replayed = FALSE /\ gone = FALSE
  BY DEF ReachInit
<1>6. Rests(dev, proof, offAge, replayed, gone)
  BY <1>1, <1>3, <1>5 DEF Rests
<1>7. SidesTyped
  BY <1>1 DEF ReachInit, SidesTyped
<1> QED BY <1>4, <1>5, <1>6, <1>7 DEF ReachInv

\* Every step keeps it.
LEMMA NextReach == ReachInv /\ [ReachNext]_reachVars => ReachInv'
<1> SUFFICES ASSUME ReachInv, [ReachNext]_reachVars PROVE ReachInv'
  OBVIOUS
<1>1. CASE UNCHANGED reachVars
  BY <1>1 DEF reachVars, ReachInv, SidesTyped
<1>2. CASE ReachNext
  BY <1>2, WordsKeep, PushKeep, LanKeeps, ChannelsKeep, RoundKeeps, TimeKeeps DEF ReachNext
<1> QED BY <1>1, <1>2

\* What it says of the shown state.
LEMMA InvIsGrounded == ReachInv => ReachTypeOK /\ GreenIsProven /\ OfflineStands /\ VoiceIsHeard
<1> SUFFICES ASSUME ReachInv PROVE ReachTypeOK /\ GreenIsProven /\ OfflineStands /\ VoiceIsHeard
  OBVIOUS
<1>1. dev \in DevType /\ TTL \in Nat
  BY AgeFacts DEF ReachInv, Formed
<1>2. /\ dev.reportAge \in Nat /\ dev.liveAge \in Nat /\ dev.pushAge \in Nat
      /\ proof \in Nat /\ offAge \in Nat
  BY <1>1, DevAges, AgeFacts DEF ReachInv, Rests
<1>3. Rests(dev, proof, offAge, replayed, gone)
  BY DEF ReachInv
<1>4. ReachTypeOK
  <2>1. {replayed, gone} \subseteq BOOLEAN
    BY DEF ReachInv
  <2>2. SidesTyped /\ proof \in Age /\ offAge \in Age
    BY <1>3 DEF ReachInv, Rests
  <2>3. (dev.lanReply => dev.lanSeen) /\ (dev.lanIp => kind = "light")
    BY DEF ReachInv, Formed
  <2>4. dev \in [lanIp : BOOLEAN, lanSeen : BOOLEAN, lanReply : BOOLEAN,
                 report : Said, reportAge : Age, liveAge : Age, pushAge : Age,
                 raw : BOOLEAN, gateway : {"unknown", "up", "down"}, noPath : BOOLEAN,
                 tried : BOOLEAN]
    BY <1>1 DEF DevType
  <2> QED BY <2>1, <2>2, <2>3, <2>4, Zenon DEF ReachTypeOK, SidesTyped
<1>5. GreenIsProven
  <2> SUFFICES ASSUME ~isLanDriven(dev), Online(dev) PROVE proof < TTL
    BY DEF GreenIsProven
  <2>1. \/ dev.report = "yes" /\ dev.reportAge < TTL
        \/ dev.liveAge < TTL
    BY DEF Online, resolveDeviceReachability, Decides
  <2>2. (dev.report = "yes" => proof <= dev.reportAge) /\ proof <= dev.liveAge
    BY <1>3 DEF Rests
  <2> QED BY <1>1, <1>2, <2>1, <2>2
<1>6. OfflineStands
  <2> SUFFICES ASSUME ~isLanDriven(dev), ~replayed, offAge < TTL PROVE ~Online(dev)
    BY DEF OfflineStands
  <2>1. dev.report = "no" /\ dev.reportAge <= offAge
    BY <1>3 DEF Rests
  <2>2. dev.report # "none" /\ dev.reportAge < TTL
    BY <1>1, <1>2, <2>1
  <2> QED BY <2>1, <2>2 DEF Online, resolveDeviceReachability, Decides
<1>7. VoiceIsHeard
  <2> SUFFICES ASSUME ~isLanDriven(dev), ~gone, dev.pushAge < TTL, dev.gateway # "down", ~dev.noPath
               PROVE  Online(dev)
    BY DEF VoiceIsHeard
  <2>1. dev.report = "yes" /\ dev.reportAge <= dev.pushAge
    BY <1>3 DEF Rests
  <2>2. dev.report # "none" /\ dev.reportAge < TTL
    BY <1>1, <1>2, <2>1
  <2> QED BY <2>1, <2>2 DEF Online, resolveDeviceReachability, Decides
<1> QED BY <1>4, <1>5, <1>6, <1>7

\* No device is green without a sign of life younger than the window, Govee's last
\* "offline" stands for all of it, and a device that spoke within it stays green:
\* for any window, any number of packets, polls and channel changes between.
THEOREM OnlineIsGrounded == ReachSpec => []OnlineIsEvidence
BY InitReach, NextReach, InvIsGrounded, PTL DEF ReachSpec, OnlineIsEvidence

-----------------------------------------------------------------------------
(* The event channel.                                                      *)

\* A reconnect is armed no earlier than the share of connects allows.
Spaced == eventTimer # NoTimer => lastDial + eventTimer >= ConnectWindow

EventCounts ==
  /\ eventTimer \in NoTimer .. MaxDelay /\ refusals \in 0 .. MaxRefusals
  /\ attempts \in 0 .. 3 /\ lastDial \in 0 .. ConnectWindow
  /\ Spaced

\* Of a client that lives, either a socket or a timer is there; it is below its cap,
\* and shows a connection only while there is one, or until its close is heard.
EventShape ==
  /\ eventSock \in {"none", "dialed", "connected", "subscribed", "ended"}
  /\ eventDisposed => eventTimer = NoTimer /\ eventSock = "none"
  /\ OneWayToConnect /\ ShownIsOpen
  /\ ~eventDisposed => ~Exhausted

\* The inductive invariant.
EventInv == EventCounts /\ EventShape

\* The wait of a reconnect covers the rest of the window.
LEMMA DelayFacts ==
  ASSUME lastDial \in 0 .. ConnectWindow, NEW n, NEW d \in BackoffDelays(n)
  PROVE  LET w == Larger(d, ConnectWait)
         IN  w \in NoTimer .. MaxDelay /\ w # NoTimer /\ lastDial + w >= ConnectWindow
<1>1. d \in 1 .. 2 /\ d \in Nat
  BY DEF BackoffDelays
<1>2. ConnectWindow \in Nat /\ ConnectWindow >= 1 /\ lastDial \in Nat
  BY EventAssumption
<1>3. ConnectWait \in 0 .. (ConnectWindow + 1) /\ lastDial + ConnectWait >= ConnectWindow
  BY <1>2 DEF ConnectWait
<1> QED BY <1>1, <1>2, <1>3 DEF Larger, MaxDelay, NoTimer

\* The client starts with a timer that is due and nothing refused.
LEMMA InitEvent == EventInit => EventInv
<1> SUFFICES ASSUME EventInit PROVE EventInv
  OBVIOUS
<1>1. /\ eventSock = "none" /\ eventTimer = 0 /\ refusals = 0 /\ attempts = 0
      /\ lastDial = ConnectWindow /\ ~eventDisposed /\ ~heldOpen
  BY DEF EventInit
<1>2. EventCounts /\ ~Exhausted /\ eventTimer # NoTimer
  BY <1>1, EventAssumption DEF EventCounts, Spaced, Exhausted, NoTimer, MaxDelay
<1> QED BY <1>1, <1>2, Zenon DEF EventInv, EventShape, OneWayToConnect, ShownIsOpen

\* A timer that fires dials, or is armed for a full window after a throw.
LEMMA ConnectKeeps == EventInv /\ Connect => EventInv'
<1> SUFFICES ASSUME EventInv, Connect PROVE EventInv'
  OBVIOUS
<1>1. /\ ~eventDisposed /\ eventTimer = 0 /\ refusals' = refusals /\ lastDial' = 0
      /\ UNCHANGED <<eventDisposed, heldOpen>>
  BY DEF Connect
<1>2. eventTimer # NoTimer
  BY <1>1 DEF NoTimer
<1>3. eventSock = "none" /\ ~heldOpen /\ ~Exhausted
  BY <1>1, <1>2, Zenon DEF EventInv, EventShape, OneWayToConnect, ShownIsOpen
<1>4. /\ \/ eventSock' = "dialed" /\ eventTimer' = NoTimer
         \/ eventSock' = "none" /\ eventTimer' = ConnectWindow + 1
      /\ attempts' \in 0 .. 3
  BY DEF Connect, EventInv, EventCounts
<1>5. EventCounts' /\ (eventTimer' = ConnectWindow + 1 => eventTimer' # NoTimer)
  BY <1>1, <1>4, EventAssumption DEF EventInv, EventCounts, Spaced, NoTimer, MaxDelay
<1>6. ~Exhausted'
  BY <1>1, <1>3 DEF Exhausted
<1>7. ~eventDisposed' /\ ~heldOpen'
  BY <1>1, <1>3, Zenon
<1> QED BY <1>4, <1>5, <1>6, <1>7, Zenon DEF EventInv, EventShape, OneWayToConnect, ShownIsOpen

\* What a socket hears.
LEMMA SocketKeeps ==
  EventInv /\ (Connack \/ SubscribeAnswer \/ KeyRefused \/ SocketLost) => EventInv'
<1> SUFFICES ASSUME EventInv, Connack \/ SubscribeAnswer \/ KeyRefused \/ SocketLost PROVE EventInv'
  OBVIOUS
<1>1. /\ eventSock \in {"dialed", "connected", "subscribed"} /\ lastDial' = lastDial
      /\ eventTimer' = eventTimer \/ eventTimer' = NoTimer
      /\ attempts' = attempts \/ attempts' = 0
  BY DEF Connack, SubscribeAnswer, KeyRefused, SocketLost
<1>2. ~eventDisposed /\ eventTimer = NoTimer /\ ~Exhausted
  BY <1>1, Zenon DEF EventInv, EventShape, OneWayToConnect
<1>3. eventTimer' = NoTimer
  BY <1>1, <1>2
<1>4. refusals \in Nat /\ refusals < MaxRefusals
  BY <1>2, EventAssumption DEF EventInv, EventCounts, Exhausted
<1>5. CASE /\ eventSock' \in {"connected", "subscribed", "ended"} /\ (refusals' = refusals \/ refusals' = 0)
           /\ UNCHANGED eventDisposed /\ (ShownIsOpen => ShownIsOpen')
  <2>1. EventCounts' /\ ~Exhausted'
    BY <1>1, <1>3, <1>4, <1>5, EventAssumption DEF EventInv, EventCounts, Spaced, Exhausted, NoTimer, MaxDelay
  <2> QED BY <1>2, <1>3, <1>5, <2>1, Zenon DEF EventInv, EventShape, OneWayToConnect
<1>6. CASE KeyRefused
  <2>1. refusals' = refusals + 1 /\ attempts' = attempts
    BY <1>6 DEF KeyRefused
  <2>2. EventCounts'
    BY <1>1, <1>3, <1>4, <2>1, EventAssumption DEF EventInv, EventCounts, Spaced, NoTimer, MaxDelay
  <2>3. CASE refusals + 1 >= MaxRefusals
    <3>1. eventDisposed' /\ eventSock' = "none"
      BY <1>6, <2>3 DEF KeyRefused
    <3> QED BY <1>3, <2>2, <3>1, Zenon DEF EventInv, EventShape, OneWayToConnect, ShownIsOpen
  <2>4. CASE ~(refusals + 1 >= MaxRefusals)
    <3>1. eventSock' = "ended" /\ UNCHANGED eventDisposed
      BY <1>6, <2>4 DEF KeyRefused
    <3>2. ~Exhausted'
      BY <2>1, <2>4 DEF Exhausted
    <3> QED BY <1>2, <1>3, <2>2, <3>1, <3>2, Zenon DEF EventInv, EventShape, OneWayToConnect, ShownIsOpen
  <2> QED BY <2>3, <2>4
<1>7. CASE Connack
  <2>1. ShownIsOpen => ShownIsOpen'
    BY <1>7, <1>2, Zenon DEF Connack, ShownIsOpen
  <2> QED BY <1>5, <1>7, <2>1 DEF Connack
<1>8. CASE SubscribeAnswer
  <2>1. eventSock' \in {"subscribed", "ended"} /\ UNCHANGED eventDisposed /\ (refusals' = refusals \/ refusals' = 0)
    BY <1>8 DEF SubscribeAnswer
  <2>2. ShownIsOpen'
    BY <2>1, Zenon DEF ShownIsOpen
  <2> QED BY <1>5, <2>1, <2>2
<1>9. CASE SocketLost
  <2>1. eventSock' = "ended" /\ UNCHANGED <<eventDisposed, refusals>>
    BY <1>9 DEF SocketLost
  <2>2. ShownIsOpen'
    BY <2>1, Zenon DEF ShownIsOpen
  <2> QED BY <1>5, <2>1, <2>2
<1> QED BY <1>6, <1>7, <1>8, <1>9

\* A close of a client that lives arms the next connect.
LEMMA CloseKeeps == EventInv /\ Close => EventInv'
<1> SUFFICES ASSUME EventInv, Close PROVE EventInv'
  OBVIOUS
<1>1. /\ eventSock = "ended" /\ eventSock' = "none" /\ ~heldOpen'
      /\ UNCHANGED <<eventDisposed, refusals, lastDial>>
  BY DEF Close
<1>2. ~eventDisposed /\ eventTimer = NoTimer /\ ~Exhausted
  BY <1>1, Zenon DEF EventInv, EventShape, OneWayToConnect
<1>3. MayArm
  BY <1>2, Zenon DEF MayArm
<1>4. PICK d \in BackoffDelays(attempts + 1) : eventTimer' = Larger(d, ConnectWait)
  BY <1>3 DEF Close, ScheduleReconnect
<1>5. /\ eventTimer' \in NoTimer .. MaxDelay /\ eventTimer' # NoTimer
      /\ lastDial + eventTimer' >= ConnectWindow
  BY <1>4, DelayFacts DEF EventInv, EventCounts
<1>6. attempts' = IF attempts < 3 THEN attempts + 1 ELSE attempts
  BY <1>3 DEF Close, ScheduleReconnect
<1>7. EventCounts'
  BY <1>1, <1>5, <1>6 DEF EventInv, EventCounts, Spaced
<1>8. ~Exhausted'
  BY <1>1, <1>2 DEF Exhausted
<1> QED BY <1>1, <1>2, <1>5, <1>7, <1>8, Zenon DEF EventInv, EventShape, OneWayToConnect, ShownIsOpen

\* The unload, the clock, and the end of the troubles.
LEMMA RestKeeps == EventInv /\ (Disconnect \/ EventTick \/ TroublesEnd) => EventInv'
<1> SUFFICES ASSUME EventInv, Disconnect \/ EventTick \/ TroublesEnd PROVE EventInv'
  OBVIOUS
<1>1. CASE Disconnect
  <2>1. /\ eventDisposed' /\ eventTimer' = NoTimer /\ eventSock' = "none"
        /\ UNCHANGED <<refusals, attempts, lastDial>>
    BY <1>1 DEF Disconnect
  <2>2. EventCounts'
    BY <2>1, EventAssumption DEF EventInv, EventCounts, Spaced, NoTimer, MaxDelay
  <2> QED BY <2>1, <2>2, Zenon DEF EventInv, EventShape, OneWayToConnect, ShownIsOpen
<1>2. CASE EventTick
  <2>1. /\ UNCHANGED <<eventSock, eventDisposed, refusals, attempts, heldOpen>>
        /\ eventTimer # 0
        /\ eventTimer' = IF eventTimer > 0 THEN eventTimer - 1 ELSE eventTimer
        /\ lastDial' = IF lastDial < ConnectWindow THEN lastDial + 1 ELSE lastDial
    BY <1>2 DEF EventTick
  <2>2. EventCounts' /\ ((eventTimer' = NoTimer) <=> (eventTimer = NoTimer)) /\ (Exhausted' <=> Exhausted)
    BY <2>1, EventAssumption DEF EventInv, EventCounts, Spaced, NoTimer, MaxDelay, Exhausted
  <2> QED BY <2>1, <2>2, Zenon DEF EventInv, EventShape, OneWayToConnect, ShownIsOpen
<1>3. CASE TroublesEnd
  BY <1>3 DEF EventInv, EventCounts, EventShape, Spaced, TroublesEnd, OneWayToConnect, ShownIsOpen, Exhausted
<1> QED BY <1>1, <1>2, <1>3

\* Every step keeps it.
LEMMA NextEvent == EventInv /\ [EventNext]_eventVars => EventInv'
<1>1. EventInv /\ UNCHANGED eventVars => EventInv'
  BY DEF EventInv, EventCounts, EventShape, Spaced, eventVars, OneWayToConnect, ShownIsOpen, Exhausted
<1> QED BY <1>1, ConnectKeeps, SocketKeeps, CloseKeeps, RestKeeps DEF EventNext

\* Only a connect starts the window anew, and only when the last one is over.
LEMMA StepSpares == EventInv /\ EventNext => ConnectsAreSpared
<1> SUFFICES ASSUME EventInv, EventNext, lastDial' = 0, lastDial # 0 PROVE lastDial >= ConnectWindow
  BY DEF ConnectsAreSpared
<1>1. CASE Connect
  <2>1. eventTimer = 0
    BY <1>1 DEF Connect
  <2> QED BY <2>1, EventAssumption DEF EventInv, EventCounts, Spaced, NoTimer
<1>2. CASE EventTick
  <2>1. lastDial' = IF lastDial < ConnectWindow THEN lastDial + 1 ELSE lastDial
    BY <1>2 DEF EventTick
  <2> QED BY <2>1, EventAssumption DEF EventInv, EventCounts
<1>3. CASE UNCHANGED lastDial
  BY <1>3
<1> QED BY <1>1, <1>2, <1>3
        DEF EventNext, Connack, SubscribeAnswer, KeyRefused, SocketLost, Close, Disconnect, TroublesEnd

\* What it says of a state.
LEMMA EventInvSays == EventInv => EventTypeOK /\ OneWayToConnect /\ ShownIsOpen
BY Zenon DEF EventInv, EventCounts, EventShape, EventTypeOK

\* A living event channel always has exactly one way to a connection, asks the broker
\* for one a window and shows none that is closed: for any cap, window and number of
\* refusals, losses and throws (govee-openapi-mqtt-client.ts, reconnecting-mqtt-client.ts).
THEOREM EventsStayAlive == EventSpec => EventsFlow
<1>1. EventInv /\ [EventNext]_eventVars => [ConnectsAreSpared]_eventVars
  BY StepSpares
<1> QED BY <1>1, InitEvent, NextEvent, EventInvSays, PTL DEF EventSpec, EventsFlow

-----------------------------------------------------------------------------
(* A failed command is asked about.                                        *)

Note == [unconfirmed : BOOLEAN, before : Stamp]

\* A request about a failure is noted.
Pending(T) == \E t \in T : t.unconfirmed

\* Of a device that is unconfirmed and counts as asked: it was, or its request is noted.
Covered(u, s, k, T) == u /\ s.after => k \/ Pending(T)

\* What a noted request about a failure found was older than the failure.
NotesOlder(T) == \A t \in T : t.unconfirmed => ~t.before.after

\* A topic is learned from the account only.
TopicNeedsAccount == topic => requester

\* The inductive invariant.
AskInv ==
  /\ AskTypeOK /\ TopicNeedsAccount
  /\ Covered(unconfirmed, lastAsk, asked, timers) /\ NotesOlder(timers)

\* Taking "after" from a stamp leaves a stamp.
LEMMA NotAfterFacts ==
  ASSUME NEW s \in Stamp
  PROVE  NotAfter(s) \in Stamp /\ ~NotAfter(s).after
BY DEF NotAfter, Stamp

\* Nothing is noted at the start.
LEMMA InitAsk == AskInit => AskInv
<1> SUFFICES ASSUME AskInit PROVE AskInv
  OBVIOUS
<1>1. lastAsk \in Stamp /\ ~lastAsk.after
  BY DEF AskInit, Stamp
<1>2. timers = {} /\ flips = MaxAsk /\ fails = MaxAsk /\ ~topic
  BY DEF AskInit
<1>3. {budgeted, requester, topic, broker, unconfirmed, tried, asked} \subseteq BOOLEAN
  BY DEF AskInit
<1>4. flips \in 0..MaxAsk /\ fails \in 0..MaxAsk
  BY <1>2, AskAssumption
<1>5. AskTypeOK
  BY <1>1, <1>2, <1>3, <1>4 DEF AskTypeOK
<1>6. Covered(unconfirmed, lastAsk, asked, timers)
  BY <1>1, Zenon DEF Covered
<1> QED BY <1>2, <1>5, <1>6 DEF AskInv, NotesOlder, TopicNeedsAccount

\* Behind a failure nothing counts as asked.
LEMMA FailKeeps == AskInv /\ CommandFails => AskInv'
<1> SUFFICES ASSUME AskInv, CommandFails PROVE AskInv'
  OBVIOUS
<1>1. PICK f : f = [t \in timers |-> [t EXCEPT !.before = NotAfter(@)]]
  OBVIOUS
<1>2. \A t \in timers : /\ t \in Note /\ t.before \in Stamp
  BY DEF AskInv, AskTypeOK, Note
<1>3. ASSUME NEW t \in timers
      PROVE  LET e == [t EXCEPT !.before = NotAfter(@)]
             IN  e \in Note /\ ~e.before.after
  BY <1>2, NotAfterFacts DEF Note
<1>4. timers' = {[t EXCEPT !.before = NotAfter(@)] : t \in timers}
  BY DEF CommandFails
<1>5. timers' \subseteq Note /\ NotesOlder(timers')
  BY <1>3, <1>4 DEF NotesOlder
<1>6. lastAsk' \in Stamp /\ ~lastAsk'.after
  BY NotAfterFacts DEF CommandFails, AskInv, AskTypeOK
<1>7. /\ unconfirmed' = TRUE /\ asked' = FALSE /\ fails' = fails - 1 /\ fails > 0
      /\ UNCHANGED <<budgeted, requester, topic, broker, tried, flips>>
  BY DEF CommandFails
<1>8. fails' \in 0..MaxAsk
  BY <1>7, AskAssumption DEF AskInv, AskTypeOK
<1>9. {budgeted, requester, topic, broker, unconfirmed, tried, asked}' \subseteq BOOLEAN
  BY <1>7 DEF AskInv, AskTypeOK
<1>10. AskTypeOK'
  BY <1>5, <1>6, <1>7, <1>8, <1>9 DEF AskInv, AskTypeOK, Note
<1>11. Covered(unconfirmed, lastAsk, asked, timers)'
  BY <1>6, Zenon DEF Covered
<1>12. TopicNeedsAccount'
  BY <1>7 DEF AskInv, TopicNeedsAccount
<1> QED BY <1>5, <1>10, <1>11, <1>12 DEF AskInv

\* A request is noted with what it found.
LEMMA RequestKeeps == AskInv /\ requestStaleStatuses => AskInv'
<1> SUFFICES ASSUME AskInv, requestStaleStatuses PROVE AskInv'
  OBVIOUS
<1>1. PICK u \in BOOLEAN : u = Unasked
  BY DEF Unasked
<1>2. PICK n : n = [unconfirmed |-> u, before |-> lastAsk]
  OBVIOUS
<1>3. PICK s : s = [recent |-> TRUE, after |-> TRUE]
  OBVIOUS
<1>4. timers' = timers \cup {n} /\ lastAsk' = s
      /\ UNCHANGED <<budgeted, requester, topic, broker, unconfirmed, tried, flips, fails, asked>>
  BY <1>1, <1>2, <1>3 DEF requestStaleStatuses
<1>5. n \in Note /\ s \in Stamp
  BY <1>2, <1>3 DEF AskInv, AskTypeOK, Note, Stamp
<1>6. n.unconfirmed = u /\ n.before = lastAsk
  BY <1>2
<1>7. n.unconfirmed => ~n.before.after
  BY <1>1, <1>6 DEF Unasked
<1>8. NotesOlder(timers')
  BY <1>4, <1>7 DEF AskInv, NotesOlder
<1>9. unconfirmed => asked \/ Pending(timers')
  <2>1. unconfirmed /\ ~lastAsk.after => n.unconfirmed
    BY <1>1, <1>6 DEF Unasked
  <2>2. n \in timers' /\ timers \subseteq timers'
    BY <1>4
  <2> QED BY <2>1, <2>2, Zenon DEF AskInv, Covered, Pending
<1>10. Covered(unconfirmed, lastAsk, asked, timers)'
  BY <1>4, <1>9, Zenon DEF Covered
<1>11. AskTypeOK'
  BY <1>4, <1>5 DEF AskInv, AskTypeOK, Note
<1> QED BY <1>4, <1>8, <1>10, <1>11 DEF AskInv, TopicNeedsAccount

\* A request goes out, or is noted as not made.
LEMMA FireKeeps == ASSUME AskInv, NEW t \in Note, TimerFires(t) PROVE AskInv'
<1>1. /\ t \in timers /\ timers' = timers \ {t}
      /\ UNCHANGED <<budgeted, requester, topic, broker, unconfirmed, tried, flips, fails>>
  BY DEF TimerFires
<1>2. NotesOlder(timers') /\ timers' \subseteq Note
  BY <1>1 DEF AskInv, AskTypeOK, NotesOlder, Note
<1>3. /\ \/ asked' = TRUE /\ lastAsk' = lastAsk
         \/ asked' = asked /\ lastAsk' = Unsent(t)
  BY DEF TimerFires
<1>4. t.before \in Stamp /\ lastAsk \in Stamp
  BY DEF Note, AskInv, AskTypeOK
<1>5. Unsent(t) \in Stamp /\ (t.unconfirmed => Unsent(t) = t.before) /\ (~t.unconfirmed => Unsent(t) = lastAsk)
  BY <1>4 DEF Unsent
<1>6. AskTypeOK'
  <2>1. lastAsk' \in Stamp
    BY <1>3, <1>4, <1>5
  <2>2. asked' \in BOOLEAN
    BY <1>3 DEF AskInv, AskTypeOK
  <2> QED BY <1>1, <1>2, <2>1, <2>2 DEF AskInv, AskTypeOK, Note
<1>7. Covered(unconfirmed, lastAsk, asked, timers)'
  <2>1. CASE asked' = TRUE
    BY <2>1, Zenon DEF Covered
  <2>2. CASE asked' = asked /\ lastAsk' = Unsent(t) /\ t.unconfirmed
    <3>1. ~t.before.after /\ lastAsk' = t.before
      BY <1>1, <1>5, <2>2 DEF AskInv, NotesOlder
    <3>2. ~lastAsk'.after
      BY <3>1
    <3> QED BY <3>2, Zenon DEF Covered
  <2>3. CASE asked' = asked /\ lastAsk' = Unsent(t) /\ ~t.unconfirmed
    <3>1. lastAsk' = lastAsk
      BY <1>5, <2>3
    <3>2. Pending(timers) => Pending(timers')
      BY <1>1, <2>3 DEF Pending
    <3>3. unconfirmed' = unconfirmed
      BY <1>1
    <3> QED BY <2>3, <3>1, <3>2, <3>3, Zenon DEF AskInv, Covered
  <2> QED BY <1>3, <2>1, <2>2, <2>3
<1> QED BY <1>1, <1>2, <1>6, <1>7 DEF AskInv, TopicNeedsAccount

\* Asked at once: over the broker, or by a read of the Cloud.
LEMMA ReadsKeep == AskInv /\ (ReadBack \/ CloudRead) => AskInv'
<1> SUFFICES ASSUME AskInv, ReadBack \/ CloudRead PROVE AskInv'
  OBVIOUS
<1>1. /\ asked' = TRUE /\ timers' = timers
      /\ UNCHANGED <<budgeted, requester, topic, broker, flips, fails>>
  BY DEF ReadBack, CloudRead
<1>2. AskTypeOK'
  <2>1. CASE ReadBack
    BY <1>1, <2>1 DEF ReadBack, AskInv, AskTypeOK, Stamp
  <2>2. CASE CloudRead
    BY <1>1, <2>2 DEF CloudRead, AskInv, AskTypeOK
  <2> QED BY <2>1, <2>2
<1>3. Covered(unconfirmed, lastAsk, asked, timers)'
  BY <1>1, Zenon DEF Covered
<1> QED BY <1>1, <1>2, <1>3 DEF AskInv, TopicNeedsAccount

\* The command is confirmed.
LEMMA SettledKeep == AskInv /\ (CommandSucceeds \/ StatusArrives) => AskInv'
<1> SUFFICES ASSUME AskInv, CommandSucceeds \/ StatusArrives PROVE AskInv'
  OBVIOUS
<1>1. /\ unconfirmed' = FALSE
      /\ UNCHANGED <<budgeted, requester, topic, broker, lastAsk, timers, tried, flips, fails, asked>>
  BY DEF CommandSucceeds, StatusArrives
<1>2. AskTypeOK'
  BY <1>1 DEF AskInv, AskTypeOK
<1>3. Covered(unconfirmed, lastAsk, asked, timers)'
  BY <1>1, Zenon DEF Covered
<1> QED BY <1>1, <1>2, <1>3 DEF AskInv, TopicNeedsAccount

\* The account and its broker.
LEMMA AccountKeeps == AskInv /\ (TopicLearned \/ BrokerTurns) => AskInv'
<1> SUFFICES ASSUME AskInv, TopicLearned \/ BrokerTurns PROVE AskInv'
  OBVIOUS
<1>1. /\ UNCHANGED <<budgeted, requester, unconfirmed, lastAsk, timers, tried, fails, asked>>
      /\ topic' = topic \/ (topic' = TRUE /\ requester)
  BY DEF TopicLearned, BrokerTurns
<1>2. broker' \in BOOLEAN /\ topic' \in BOOLEAN
  BY DEF TopicLearned, BrokerTurns, AskInv, AskTypeOK
<1>6. flips' = flips \/ (flips > 0 /\ flips' = flips - 1)
  BY DEF TopicLearned, BrokerTurns
<1>7. flips' \in 0..MaxAsk
  BY <1>6, AskAssumption DEF AskInv, AskTypeOK
<1>3. AskTypeOK'
  BY <1>1, <1>2, <1>7 DEF AskInv, AskTypeOK
<1>4. TopicNeedsAccount'
  BY <1>1 DEF AskInv, TopicNeedsAccount
<1>5. Covered(unconfirmed, lastAsk, asked, timers)' /\ NotesOlder(timers)'
  BY <1>1 DEF AskInv
<1> QED BY <1>3, <1>4, <1>5 DEF AskInv

\* The interval passes with no request under way.
LEMMA IntervalKeeps == AskInv /\ IntervalPasses => AskInv'
<1> SUFFICES ASSUME AskInv, IntervalPasses PROVE AskInv'
  OBVIOUS
<1>1. PICK s : s = [lastAsk EXCEPT !.recent = FALSE]
  OBVIOUS
<1>2. /\ timers = {} /\ timers' = {} /\ lastAsk' = s /\ tried' = FALSE
      /\ UNCHANGED <<budgeted, requester, topic, broker, unconfirmed, flips, fails, asked>>
  BY <1>1 DEF IntervalPasses
<1>3. s \in Stamp /\ s.after = lastAsk.after
  BY <1>1 DEF AskInv, AskTypeOK, Stamp
<1>4. AskTypeOK'
  BY <1>2, <1>3 DEF AskInv, AskTypeOK
<1>5. Covered(unconfirmed, s, asked, timers)
  BY <1>3 DEF AskInv, Covered
<1>6. Covered(unconfirmed, lastAsk, asked, timers)'
  BY <1>2, <1>5
<1> QED BY <1>2, <1>4, <1>6 DEF AskInv, TopicNeedsAccount, NotesOlder

\* Every step keeps it.
LEMMA NextAsk == AskInv /\ [AskNext]_askVars => AskInv'
<1>1. AskInv /\ UNCHANGED askVars => AskInv'
  BY DEF AskInv, AskTypeOK, TopicNeedsAccount, askVars
<1> QED BY <1>1, FailKeeps, RequestKeeps, FireKeeps, ReadsKeep, SettledKeep, AccountKeeps, IntervalKeeps
        DEF AskNext, Note

\* What it says of a state.
LEMMA AskInvSays == AskInv => AskTypeOK /\ NotedIsAsked
<1> SUFFICES ASSUME AskInv PROVE NotedIsAsked
  BY DEF AskInv
<1>1. unconfirmed /\ lastAsk.after => asked \/ timers # {}
  BY Zenon DEF AskInv, Covered, Pending
<1>2. \A t \in timers : t.unconfirmed => ~t.before.after
  BY DEF AskInv, NotesOlder
<1> QED BY <1>1, <1>2 DEF NotedIsAsked

\* What it says of the interval.
LEMMA IntervalAsks == AskInv => AskedWithinInterval
<1> SUFFICES ASSUME AskInv, IntervalPasses, broker, topic, unconfirmed PROVE asked
  BY DEF AskedWithinInterval
<1>1. requester
  BY Zenon DEF AskInv, TopicNeedsAccount
<1>2. lastAsk.after /\ timers = {}
  BY <1>1, Zenon DEF IntervalPasses, Unasked
<1> QED BY <1>2, Zenon DEF AskInv, Covered, Pending

\* While the broker is up no interval ends with a failed command that was not asked
\* about since it failed, and no request that was never sent stands in for the one that
\* is due: for any number of failures, confirmations and turns of the broker
\* (device-manager.ts, requestStaleStatuses).
THEOREM FailuresAreAskedAbout == AskSpec => FailureIsFollowedUp
<1>1. AskInv /\ [AskNext]_askVars => [AskedWithinInterval]_askVars
  BY IntervalAsks
<1> QED BY <1>1, InitAsk, NextAsk, AskInvSays, PTL DEF AskSpec, FailureIsFollowedUp

-----------------------------------------------------------------------------
(* The libraries of a light.                                               *)

Steps == {"idle", "scenes", "open", "account", "finish"}

JobType ==
  [at : Steps, tries : 0..SCENE_RATE_LIMIT_RETRIES, token : BOOLEAN, recent : BOOLEAN,
   track : SUBSET Track, changed : BOOLEAN]

\* The endpoints Govee answered for this light, or filled.
SaidFor(d) == {e \in Endpoint : lib[d][e] = "filled" \/ answered[d][e] # Never}

\* A job of a token leaves the scene list alone.
Seen(s) == IF s = Bearer THEN Light ELSE scenesSeen

\* What a job that noted nothing against it stands for: S the endpoints said, N the
\* lights whose scene list was seen.
JobHolds(job, d, S, N) ==
  /\ job.recent = TRUE => S = Endpoint
  /\ librariesConfirmed(job.track) /\ job.at \in {"account", "finish"} => "open" \in S
  /\ librariesConfirmed(job.track) /\ job.at = "finish" => "account" \in S
  /\ ScenesConfirmed(job.track) /\ job.at \in {"open", "account", "finish"} => d \in N

JobsHold == \A d \in Light, s \in Slot : JobHolds(loadJob[<<d, s>>], d, SaidFor(d), Seen(s))

\* A stamp was earned.
StampsHold == \A d \in Light : checkedAt[d] # Never => SaidFor(d) = Endpoint

\* The forms of all but the jobs.
Plain ==
  /\ lib \in [Light -> [Endpoint -> {"empty", "filled"}]]
  /\ checkedAt \in [Light -> Times]
  /\ {scenesOk, awaiting, scenesSeen} \subseteq SUBSET Light
  /\ {bearer, followUps, closing} \subseteq BOOLEAN
  /\ turns \in 0..MaxTurns /\ ran \subseteq LoadRun
  /\ memo \in [LoadRun -> [Endpoint -> Fetch]]
  /\ answered \in [Light -> [Endpoint -> Times]]

\* The inductive invariant.
LoadInv ==
  /\ Plain /\ loadJob \in [Light \X Slot -> JobType]
  /\ JobsHold /\ StampsHold /\ ScenesWereSeen

\* What was said stays said.
SaidStays == /\ \A d \in Light : SaidFor(d) \subseteq SaidFor(d)'
             /\ scenesSeen \subseteq scenesSeen'

LEMMA EndpointFacts ==
  /\ Endpoint = {"open", "account"} /\ Bearer \in Slot /\ LoadRun \subseteq Slot
  /\ \A d : SaidFor(d) \subseteq Endpoint
BY DEF Endpoint, Slot, SaidFor

\* A job stands for what it stood for.
LEMMA HoldsOn ==
  ASSUME NEW job, NEW d, NEW S, NEW T, NEW N, NEW M, S \subseteq T, T \subseteq Endpoint, N \subseteq M,
         JobHolds(job, d, S, N)
  PROVE  JobHolds(job, d, T, M)
BY DEF JobHolds

\* What a light that was checked within the week trusts was said.
LEMMA RecentFacts ==
  ASSUME LoadInv, NEW d \in Light
  PROVE  /\ recentlyCheckedEmpty(d) \in BOOLEAN
         /\ recentlyCheckedEmpty(d) => SaidFor(d) = Endpoint
<1>1. checkedAt[d] \in Times
  BY DEF LoadInv, Plain
<1>2. checkedAt[d] < RECHECK => checkedAt[d] # Never
  BY <1>1 DEF Times, Never, RECHECK
<1> QED BY <1>1, <1>2 DEF LoadInv, StampsHold, recentlyCheckedEmpty

LEMMA NoJobFits ==
  /\ NoJob \in JobType /\ NoJob.at = "idle" /\ NoJob.recent = FALSE /\ NoJob.track = {}
  /\ [NoJob EXCEPT !.at = "scenes"] \in JobType
  /\ \A d, S, N : JobHolds(NoJob, d, S, N) /\ JobHolds([NoJob EXCEPT !.at = "scenes"], d, S, N)
<1>1. NoJob \in JobType /\ NoJob.at = "idle" /\ NoJob.recent = FALSE /\ NoJob.track = {}
  BY DEF NoJob, JobType, Steps, SCENE_RATE_LIMIT_RETRIES
<1>2. PICK n : n = [NoJob EXCEPT !.at = "scenes"]
  OBVIOUS
<1>3. n \in JobType /\ n.at = "scenes" /\ n.recent = FALSE
  BY <1>1, <1>2 DEF JobType, Steps
<1> QED BY <1>1, <1>2, <1>3 DEF JobHolds

\* One job goes on.
LEMMA JobGoesOn ==
  ASSUME LoadInv, SaidStays, NEW d \in Light, NEW s \in Slot, NEW job \in JobType,
         Goes(<<d, s>>, job), JobHolds(job, d, SaidFor(d)', Seen(s)')
  PROVE  loadJob' \in [Light \X Slot -> JobType] /\ JobsHold'
<1>1. loadJob \in [Light \X Slot -> JobType] /\ loadJob' = [loadJob EXCEPT ![<<d, s>>] = job]
  BY DEF LoadInv, Goes
<1>2. loadJob' \in [Light \X Slot -> JobType]
  BY <1>1
<1>3. ASSUME NEW x \in Light, NEW t \in Slot
      PROVE  JobHolds(loadJob'[<<x, t>>], x, SaidFor(x)', Seen(t)')
  <2>1. CASE x = d /\ t = s
    BY <1>1, <2>1
  <2>2. CASE ~(x = d /\ t = s)
    <3>1. loadJob'[<<x, t>>] = loadJob[<<x, t>>]
      BY <1>1, <2>2
    <3>2. JobHolds(loadJob[<<x, t>>], x, SaidFor(x), Seen(t))
      BY DEF LoadInv, JobsHold
    <3>3. SaidFor(x) \subseteq SaidFor(x)' /\ Seen(t) \subseteq Seen(t)' /\ SaidFor(x)' \subseteq Endpoint
      BY DEF SaidStays, Seen, SaidFor
    <3> QED BY <3>1, <3>2, <3>3, HoldsOn
  <2> QED BY <2>1, <2>2
<1> QED BY <1>2, <1>3 DEF JobsHold

\* No job changes.
LEMMA JobsStay ==
  ASSUME LoadInv, SaidStays, UNCHANGED loadJob
  PROVE  loadJob' \in [Light \X Slot -> JobType] /\ JobsHold'
<1>1. ASSUME NEW x \in Light, NEW t \in Slot
      PROVE  JobHolds(loadJob'[<<x, t>>], x, SaidFor(x)', Seen(t)')
  <2>1. JobHolds(loadJob[<<x, t>>], x, SaidFor(x), Seen(t))
    BY DEF LoadInv, JobsHold
  <2>2. SaidFor(x) \subseteq SaidFor(x)' /\ Seen(t) \subseteq Seen(t)' /\ SaidFor(x)' \subseteq Endpoint
    BY DEF SaidStays, Seen, SaidFor
  <2> QED BY <2>1, <2>2, HoldsOn
<1> QED BY <1>1 DEF JobsHold, LoadInv

\* Nothing is forgotten where libraries and answers stand.
LEMMA NothingSaid ==
  ASSUME LoadInv, UNCHANGED <<lib, answered>>
  PROVE  /\ \A d : SaidFor(d)' = SaidFor(d)
         /\ scenesSeen \subseteq scenesSeen' => SaidStays
BY DEF SaidFor, SaidStays

\* The jobs with a token start where they stand for nothing yet.
LEMMA TokenStarts ==
  ASSUME LoadInv, NEW ds \in SUBSET Light
  PROVE  /\ StartsWithToken(ds) \in [Light \X Slot -> JobType]
         /\ \A x \in Light, t \in Slot : JobHolds(StartsWithToken(ds)[<<x, t>>], x, SaidFor(x), Seen(t))
<1>1. DOMAIN loadJob = Light \X Slot /\ loadJob \in [Light \X Slot -> JobType]
  BY DEF LoadInv
<1>2. ASSUME NEW x \in Light, NEW t \in Slot
      PROVE  /\ StartsWithToken(ds)[<<x, t>>] \in JobType
             /\ JobHolds(StartsWithToken(ds)[<<x, t>>], x, SaidFor(x), Seen(t))
  <2>1. CASE t = Bearer /\ x \in ds
    <3>1. PICK r \in BOOLEAN : r = recentlyCheckedEmpty(x)
      BY RecentFacts
    <3>2. PICK n : n = [NoJob EXCEPT !.at = "open", !.token = TRUE, !.recent = r]
      OBVIOUS
    <3>3. StartsWithToken(ds)[<<x, t>>] = n
      BY <1>1, <2>1, <3>1, <3>2 DEF StartsWithToken
    <3>4. n \in JobType /\ n.at = "open" /\ n.recent = r
      BY <3>2, NoJobFits DEF JobType, Steps
    <3>5. r = TRUE => SaidFor(x) = Endpoint
      BY <3>1, RecentFacts
    <3>6. x \in Seen(t)
      BY <2>1 DEF Seen
    <3> QED BY <3>3, <3>4, <3>5, <3>6 DEF JobHolds
  <2>2. CASE ~(t = Bearer /\ x \in ds)
    <3>1. StartsWithToken(ds)[<<x, t>>] = loadJob[<<x, t>>]
      BY <1>1, <2>2 DEF StartsWithToken
    <3> QED BY <1>1, <3>1 DEF LoadInv, JobsHold
  <2> QED BY <2>1, <2>2
<1>3. PICK f : f = StartsWithToken(ds)
  OBVIOUS
<1>4. f = [j \in Light \X Slot |-> f[j]]
  BY <1>1, <1>3 DEF StartsWithToken
<1>5. \A j \in Light \X Slot : f[j] \in JobType
  BY <1>2, <1>3
<1>6. f \in [Light \X Slot -> JobType]
  BY <1>4, <1>5
<1> QED BY <1>2, <1>3, <1>6

-----------------------------------------------------------------------------
(* The steps.                                                              *)

LEMMA InitLoad == LoadInit => LoadInv
<1> SUFFICES ASSUME LoadInit PROVE LoadInv
  OBVIOUS
<1>1. loadJob = [j \in Light \X Slot |-> NoJob]
  BY DEF LoadInit
<1>2. loadJob \in [Light \X Slot -> JobType] /\ JobsHold
  <2>1. \A x \in Light, t \in Slot : loadJob[<<x, t>>] = NoJob
    BY <1>1
  <2>2. loadJob \in [Light \X Slot -> JobType]
    BY <1>1, NoJobFits
  <2>3. ASSUME NEW x \in Light, NEW t \in Slot
        PROVE  JobHolds(loadJob[<<x, t>>], x, SaidFor(x), Seen(t))
    <3>1. JobHolds(NoJob, x, SaidFor(x), Seen(t))
      BY NoJobFits
    <3> QED BY <2>1, <3>1
  <2> QED BY <2>2, <2>3 DEF JobsHold
<1>3. Plain
  <2>1. Never \in Times /\ "none" \in Fetch
    BY DEF Times, Never, RECHECK, Fetch
  <2>2. lib \in [Light -> [Endpoint -> {"empty", "filled"}]]
    BY DEF LoadInit
  <2>3. checkedAt \in [Light -> Times] /\ answered \in [Light -> [Endpoint -> Times]]
    BY <2>1 DEF LoadInit
  <2>4. memo \in [LoadRun -> [Endpoint -> Fetch]]
    BY <2>1 DEF LoadInit
  <2>5. /\ {scenesOk, awaiting, scenesSeen} \subseteq SUBSET Light
        /\ {bearer, followUps, closing} \subseteq BOOLEAN /\ ran \subseteq LoadRun
    BY DEF LoadInit
  <2>6. turns \in 0..MaxTurns
    BY LoadAssumption DEF LoadInit
  <2> QED BY <2>2, <2>3, <2>4, <2>5, <2>6 DEF Plain
<1>4. StampsHold /\ ScenesWereSeen
  BY DEF LoadInit, StampsHold, ScenesWereSeen
<1> QED BY <1>2, <1>3, <1>4 DEF LoadInv

\* A run starts.
LEMMA StartRunKeeps == ASSUME LoadInv, NEW r \in LoadRun, StartRun(r) PROVE LoadInv'
<1>1. /\ UNCHANGED <<lib, Stamps, bearer, followUps, closing, turns, memo, answered, scenesSeen>>
      /\ ran' = ran \cup {r}
      /\ loadJob' = [j \in Light \X Slot |-> IF j[2] = r THEN [NoJob EXCEPT !.at = "scenes"] ELSE loadJob[j]]
  BY DEF StartRun, LoadInv
<1>2. \A x \in Light, t \in Slot :
        loadJob'[<<x, t>>] = IF t = r THEN [NoJob EXCEPT !.at = "scenes"] ELSE loadJob[<<x, t>>]
  BY <1>1
<1>3. loadJob' \in [Light \X Slot -> JobType]
  BY <1>1, NoJobFits DEF LoadInv
<1>4. Plain' /\ StampsHold' /\ ScenesWereSeen'
  BY <1>1 DEF Stamps, LoadInv, Plain, StampsHold, ScenesWereSeen, SaidFor
<1>5. JobsHold'
  <2>1. \A x \in Light, t \in Slot : SaidFor(x)' = SaidFor(x) /\ Seen(t)' = Seen(t)
    BY <1>1 DEF SaidFor, Seen
  <2>2. ASSUME NEW x \in Light, NEW t \in Slot
        PROVE  JobHolds(loadJob'[<<x, t>>], x, SaidFor(x)', Seen(t)')
    <3>1. CASE t = r
      BY <1>2, <3>1, NoJobFits
    <3>2. CASE t # r
      <4>1. loadJob'[<<x, t>>] = loadJob[<<x, t>>]
        BY <1>2, <3>2
      <4>2. JobHolds(loadJob[<<x, t>>], x, SaidFor(x), Seen(t))
        BY DEF LoadInv, JobsHold
      <4> QED BY <2>1, <4>1, <4>2
    <3> QED BY <3>1, <3>2
  <2> QED BY <2>2 DEF JobsHold
<1> QED BY <1>3, <1>4, <1>5 DEF LoadInv

\* What the scene list's answer, refusal or failure leaves behind.
LEMMA LibrariesHold ==
  ASSUME LoadInv, NEW d \in Light, NEW job \in JobType
  PROVE  /\ Libraries(d, job) \in JobType /\ Libraries(d, job).at = "open"
         /\ Libraries(d, job).track = job.track
         /\ \A N : (ScenesConfirmed(job.track) => d \in N) => JobHolds(Libraries(d, job), d, SaidFor(d), N)
<1>1. PICK r \in BOOLEAN, b \in BOOLEAN : r = recentlyCheckedEmpty(d) /\ b = bearer
  BY RecentFacts DEF LoadInv, Plain
<1>2. PICK n : n = [job EXCEPT !.at = "open", !.token = b, !.recent = r]
  OBVIOUS
<1>3. Libraries(d, job) = n
  BY <1>1, <1>2 DEF Libraries
<1>4. n \in JobType /\ n.at = "open" /\ n.track = job.track /\ n.recent = r
  BY <1>2 DEF JobType, Steps
<1>5. r = TRUE => SaidFor(d) = Endpoint
  BY <1>1, RecentFacts
<1> QED BY <1>3, <1>4, <1>5 DEF JobHolds

\* The scene list.
LEMMA ScenesKeep ==
  ASSUME LoadInv, NEW d \in Light, NEW r \in LoadRun,
         ScenesRefused(d, r) \/ ScenesAnswered(d, r) \/ ScenesFail(d, r)
  PROVE  LoadInv'
<1>1. PICK job \in JobType : job = loadJob[<<d, r>>]
  BY EndpointFacts DEF LoadInv
<1>2. job.at = "scenes" /\ JobHolds(job, d, SaidFor(d), Seen(r)) /\ r \in Slot /\ r # Bearer
  BY <1>1, EndpointFacts, LoadAssumption
     DEF ScenesRefused, ScenesAnswered, ScenesFail, LoadInv, JobsHold
<1>3. /\ UNCHANGED <<lib, Stamps, World, memo, answered>>
      /\ scenesSeen' = scenesSeen \/ scenesSeen' = scenesSeen \cup {d}
  BY DEF ScenesRefused, ScenesAnswered, ScenesFail
<1>4. SaidStays /\ SaidFor(d)' = SaidFor(d)
  BY <1>3, NothingSaid
<1>5. Plain' /\ StampsHold' /\ ScenesWereSeen'
  BY <1>3 DEF Stamps, World, LoadInv, Plain, StampsHold, ScenesWereSeen, SaidFor
<1>6. SUFFICES ASSUME TRUE
               PROVE  \E n \in JobType : Goes(<<d, r>>, n) /\ JobHolds(n, d, SaidFor(d)', Seen(r)')
  BY <1>2, <1>4, <1>5, JobGoesOn DEF LoadInv
<1>7. CASE ScenesRefused(d, r)
  <2>1. PICK told \in JobType : told = [job EXCEPT !.track = @ \cup {"cancelled"}]
    BY DEF JobType, Track
  <2>2. ~ScenesConfirmed(told.track)
    BY <2>1 DEF JobType, ScenesConfirmed
  <2> QED BY <1>1, <1>4, <1>7, <2>1, <2>2, LibrariesHold DEF ScenesRefused
<1>8. CASE ScenesAnswered(d, r)
  <2>1. PICK told \in JobType : told = [job EXCEPT !.changed = TRUE]
    BY DEF JobType
  <2>2. d \in Seen(r)'
    BY <1>2, <1>8 DEF ScenesAnswered, Seen
  <2> QED BY <1>1, <1>4, <1>8, <2>1, <2>2, LibrariesHold DEF ScenesAnswered
<1>9. CASE ScenesFail(d, r)
  <2>1. CASE MayRetry(job) /\ Goes(<<d, r>>, [job EXCEPT !.tries = @ + 1])
    <3>1. PICK n : n = [job EXCEPT !.tries = @ + 1]
      OBVIOUS
    <3>2. n \in JobType
      BY <2>1, <3>1 DEF JobType, MayRetry, SCENE_RATE_LIMIT_RETRIES
    <3>3. n.at = "scenes" /\ n.recent = job.recent
      BY <1>2, <3>1 DEF JobType
    <3>4. JobHolds(n, d, SaidFor(d)', Seen(r)')
      BY <1>2, <1>4, <3>3 DEF JobHolds
    <3> QED BY <2>1, <3>1, <3>2, <3>4
  <2>2. CASE Goes(<<d, r>>, Libraries(d, [job EXCEPT !.track = @ \cup {"scenesFailed"}]))
    <3>1. PICK told \in JobType : told = [job EXCEPT !.track = @ \cup {"scenesFailed"}]
      BY DEF JobType, Track
    <3>2. ~ScenesConfirmed(told.track)
      BY <3>1 DEF JobType, ScenesConfirmed
    <3> QED BY <1>4, <2>2, <3>1, <3>2, LibrariesHold
  <2> QED BY <1>1, <1>9, <2>1, <2>2 DEF ScenesFail
<1> QED BY <1>7, <1>8, <1>9

\* A job passes an endpoint: said, or noted against.
LEMMA PassHolds ==
  ASSUME NEW e \in Endpoint, NEW d, NEW S, NEW T, NEW N, S \subseteq T, T \subseteq Endpoint,
         NEW job, NEW n, JobHolds(job, d, S, N), job.at = e,
         n.at = After(e), n.recent = job.recent, job.track \subseteq n.track,
         librariesConfirmed(n.track) => e \in T
  PROVE  JobHolds(n, d, T, N)
<1>1. librariesConfirmed(n.track) => librariesConfirmed(job.track)
  BY DEF librariesConfirmed
<1>2. ScenesConfirmed(n.track) => ScenesConfirmed(job.track)
  BY DEF ScenesConfirmed
<1>3. CASE e = "open"
  BY <1>1, <1>2, <1>3 DEF JobHolds, After
<1>4. CASE e = "account"
  BY <1>1, <1>2, <1>4 DEF JobHolds, After
<1> QED BY <1>3, <1>4 DEF Endpoint

\* The endpoints that are not asked.
LEMMA UnaskedKeeps ==
  ASSUME LoadInv, NEW d \in Light, NEW s \in Slot,
         (\E e \in Endpoint : NotAsked(d, s, e)) \/ Skipped(d, s)
  PROVE  LoadInv'
<1>1. PICK job \in JobType : job = loadJob[<<d, s>>]
  BY DEF LoadInv
<1>2. JobHolds(job, d, SaidFor(d), Seen(s))
  BY <1>1 DEF LoadInv, JobsHold
<1>3. UNCHANGED <<lib, Stamps, World, memo, answered, scenesSeen>>
  BY DEF NotAsked, Skipped
<1>4. SaidStays /\ SaidFor(d)' = SaidFor(d) /\ Seen(s)' = Seen(s)
  BY <1>3, NothingSaid DEF Seen
<1>5. Plain' /\ StampsHold' /\ ScenesWereSeen'
  BY <1>3 DEF Stamps, World, LoadInv, Plain, StampsHold, ScenesWereSeen, SaidFor
<1>6. SUFFICES ASSUME TRUE
               PROVE  \E n \in JobType : Goes(<<d, s>>, n) /\ JobHolds(n, d, SaidFor(d)', Seen(s)')
  BY <1>4, <1>5, JobGoesOn DEF LoadInv
<1>7. ASSUME NEW e \in Endpoint, NotAsked(d, s, e)
      PROVE  \E n \in JobType : Goes(<<d, s>>, n) /\ JobHolds(n, d, SaidFor(d)', Seen(s)')
  <2>1. PICK n : n = [job EXCEPT !.at = After(e)]
    OBVIOUS
  <2>2. /\ n \in JobType /\ n.at = After(e) /\ n.recent = job.recent /\ n.track = job.track
    BY <2>1, EndpointFacts DEF JobType, Steps, After
  <2>3. job.at = e /\ Goes(<<d, s>>, n)
    BY <1>1, <1>7, <2>1 DEF NotAsked, At
  <2>4. lib[d][e] = "filled" \/ job.recent = TRUE
    BY <1>1, <1>7 DEF NotAsked, JobType
  <2>5. e \in SaidFor(d)
    BY <1>2, <2>4 DEF SaidFor, JobHolds
  <2>6. JobHolds(n, d, SaidFor(d), Seen(s))
    BY <1>2, <2>2, <2>3, <2>5, PassHolds, EndpointFacts
  <2> QED BY <1>4, <2>2, <2>3, <2>6
<1>8. CASE Skipped(d, s)
  <2>1. PICK n : n = [job EXCEPT !.at = "finish", !.track = @ \cup {"skipped"}]
    OBVIOUS
  <2>2. /\ n \in JobType /\ n.at = After("account") /\ n.recent = job.recent
        /\ n.track = job.track \cup {"skipped"}
    BY <2>1 DEF JobType, Steps, Track, After
  <2>3. job.at = "account" /\ Goes(<<d, s>>, n)
    BY <1>1, <1>8, <2>1 DEF Skipped, Asks, At
  <2>4. ~librariesConfirmed(n.track) /\ "account" \in Endpoint /\ job.track \subseteq n.track
    BY <2>2, EndpointFacts DEF librariesConfirmed
  <2>5. JobHolds(n, d, SaidFor(d), Seen(s))
    BY <1>2, <2>2, <2>3, <2>4, PassHolds, EndpointFacts
  <2> QED BY <1>4, <2>2, <2>3, <2>5
<1> QED BY <1>7, <1>8

\* The outcome of a fetch, its own or shared.
LEMMA OutcomeKeeps ==
  ASSUME LoadInv, NEW d \in Light, NEW s \in Slot, NEW e \in Endpoint, NEW outcome \in Outcome,
         MayAsk(d, s, e), TakesOutcome(d, s, e, outcome)
  PROVE  LoadInv'
<1>1. PICK job \in JobType : job = loadJob[<<d, s>>]
  BY DEF LoadInv
<1>2. JobHolds(job, d, SaidFor(d), Seen(s)) /\ job.at = e
  BY <1>1 DEF LoadInv, JobsHold, MayAsk, Asks, At
<1>3. UNCHANGED <<Stamps, World, memo, scenesSeen>>
  BY DEF TakesOutcome
<1>4. /\ lib' = lib \/ (outcome = "filled" /\ lib' = [lib EXCEPT ![d][e] = "filled"])
      /\ outcome = "filled" => lib' = [lib EXCEPT ![d][e] = "filled"]
      /\ answered' = answered \/ (outcome \in {"empty", "filled"} /\ answered' = [answered EXCEPT ![d][e] = 0])
      /\ outcome \in {"empty", "filled"} => answered' = [answered EXCEPT ![d][e] = 0]
  BY DEF TakesOutcome
<1>5. lib \in [Light -> [Endpoint -> {"empty", "filled"}]] /\ answered \in [Light -> [Endpoint -> Times]]
  BY DEF LoadInv, Plain
<1>e. e \in Endpoint
  BY <1>2, <1>1, EndpointFacts DEF MayAsk, Asks
<1>6. /\ lib' \in [Light -> [Endpoint -> {"empty", "filled"}]]
      /\ \A x \in Light, f \in Endpoint : lib[x][f] = "filled" => lib'[x][f] = "filled"
  <2>1. PICK g : g = [lib[d] EXCEPT ![e] = "filled"]
    OBVIOUS
  <2>2. /\ g \in [Endpoint -> {"empty", "filled"}]
        /\ \A f \in Endpoint : g[f] = "filled" \/ g[f] = lib[d][f]
    BY <1>5, <1>e, <2>1
  <2>3. lib' = lib \/ lib' = [lib EXCEPT ![d] = g]
    BY <1>4, <2>1
  <2> QED BY <1>5, <2>2, <2>3
<1>7. /\ answered' \in [Light -> [Endpoint -> Times]]
      /\ \A x \in Light, f \in Endpoint : answered'[x][f] = answered[x][f] \/ answered'[x][f] = 0
      /\ outcome \in {"empty", "filled"} => answered'[d][e] = 0
  <2>1. PICK g : g = [answered[d] EXCEPT ![e] = 0]
    OBVIOUS
  <2>2. 0 \in Times
    BY DEF Times, Never, RECHECK
  <2>3. /\ g \in [Endpoint -> Times] /\ g[e] = 0
        /\ \A f \in Endpoint : g[f] = 0 \/ g[f] = answered[d][f]
    BY <1>5, <1>e, <2>1, <2>2
  <2>4. /\ answered' = answered \/ answered' = [answered EXCEPT ![d] = g]
        /\ outcome \in {"empty", "filled"} => answered' = [answered EXCEPT ![d] = g]
    BY <1>4, <2>1
  <2> QED BY <1>5, <2>3, <2>4
<1>8. /\ \A x \in Light : SaidFor(x) \subseteq SaidFor(x)'
      /\ outcome \in {"empty", "filled"} => e \in SaidFor(d)'
  BY <1>6, <1>7 DEF SaidFor, Never, RECHECK
<1>9. SaidStays /\ SaidFor(d)' \subseteq Endpoint /\ Seen(s)' = Seen(s)
  BY <1>3, <1>8 DEF SaidStays, Seen, SaidFor
<1>10. Plain'
  BY <1>3, <1>6, <1>7 DEF Stamps, World, LoadInv, Plain
<1>11. StampsHold'
  <2>1. \A x \in Light : SaidFor(x)' \subseteq Endpoint /\ checkedAt'[x] = checkedAt[x]
    BY <1>3 DEF SaidFor, Stamps
  <2> QED BY <1>8, <2>1 DEF LoadInv, StampsHold
<1>12. ScenesWereSeen'
  BY <1>3 DEF Stamps, LoadInv, ScenesWereSeen
<1>13. PICK c \in BOOLEAN : c = (job.changed \/ outcome = "filled")
  OBVIOUS
<1>14. PICK tr \in SUBSET Track : tr = Noted(job, outcome)
  BY DEF Noted, JobType
<1>15. PICK n : n = [job EXCEPT !.at = After(e), !.track = tr, !.changed = c]
  OBVIOUS
<1>16. Goes(<<d, s>>, n)
  BY <1>1, <1>13, <1>14, <1>15 DEF TakesOutcome
<1>17. n \in JobType /\ n.at = After(e) /\ n.track = tr /\ n.recent = job.recent
  BY <1>15, EndpointFacts DEF JobType, Steps, After
<1>18. job.track \subseteq tr /\ (outcome \in {"cancelled", "failed"} => outcome \in tr)
  BY <1>14 DEF Noted, Track
<1>19. librariesConfirmed(n.track) => e \in SaidFor(d)'
  BY <1>8, <1>17, <1>18 DEF librariesConfirmed, Outcome
<1>20. SaidFor(d) \subseteq SaidFor(d)'
  BY <1>8
<1>21. job.track \subseteq n.track
  BY <1>17, <1>18
<1>22. JobHolds(n, d, SaidFor(d)', Seen(s))
  BY <1>2, <1>9, <1>17, <1>19, <1>20, <1>21, PassHolds
<1>23. loadJob' \in [Light \X Slot -> JobType] /\ JobsHold'
  BY <1>9, <1>16, <1>17, <1>22, JobGoesOn
<1> QED BY <1>10, <1>11, <1>12, <1>23 DEF LoadInv

\* The fetch of a run.
LEMMA FetchKeeps ==
  ASSUME LoadInv, \/ \E d \in Light, r \in LoadRun, e \in Endpoint : FetchStarts(d, r, e)
                  \/ \E r \in LoadRun : Fetching(r)
  PROVE  LoadInv'
<1>1. UNCHANGED <<lib, Stamps, World, loadJob, answered, scenesSeen>>
  BY DEF FetchStarts, Fetching, FetchEnds
<1>2. PICK r \in LoadRun, e \in Endpoint, f \in Fetch : memo' = [memo EXCEPT ![r][e] = f]
  BY DEF FetchStarts, Fetching, FetchEnds, Outcome, Fetch
<1>3. memo' \in [LoadRun -> [Endpoint -> Fetch]]
  BY <1>2 DEF LoadInv, Plain
<1>4. Plain' /\ StampsHold' /\ ScenesWereSeen'
  BY <1>1, <1>3 DEF Stamps, World, LoadInv, Plain, StampsHold, ScenesWereSeen, SaidFor
<1>5. SaidStays
  BY <1>1, NothingSaid
<1> QED BY <1>1, <1>4, <1>5, JobsStay DEF LoadInv

\* The stamps of a job's end.
LEMMA FinishHolds ==
  ASSUME LoadInv, NEW d \in Light, NEW s \in Slot, At(<<d, s>>, "finish"),
         Finishes(d, loadJob[<<d, s>>].track), UNCHANGED <<lib, answered>>
  PROVE  checkedAt' \in [Light -> Times] /\ StampsHold'
<1>1. /\ loadJob[<<d, s>>].at = "finish" /\ JobHolds(loadJob[<<d, s>>], d, SaidFor(d), Seen(s))
      /\ checkedAt \in [Light -> Times] /\ 0 \in Times
  BY DEF LoadInv, JobsHold, At, Plain, Times, Never, RECHECK
<1>2. \A x : SaidFor(x)' = SaidFor(x)
  BY NothingSaid
<1>3. CASE librariesConfirmed(loadJob[<<d, s>>].track)
  <2>1. SaidFor(d) = Endpoint
    BY <1>1, <1>3, EndpointFacts DEF JobHolds
  <2>2. checkedAt' = [checkedAt EXCEPT ![d] = 0]
    BY <1>3 DEF Finishes
  <2>3. checkedAt' \in [Light -> Times] /\ \A x \in Light : x # d => checkedAt'[x] = checkedAt[x]
    BY <1>1, <2>2
  <2> QED BY <1>2, <2>1, <2>3 DEF LoadInv, StampsHold
<1>4. CASE ~librariesConfirmed(loadJob[<<d, s>>].track)
  <2>1. checkedAt' = checkedAt
    BY <1>4 DEF Finishes
  <2> QED BY <1>1, <1>2, <2>1 DEF LoadInv, StampsHold
<1> QED BY <1>3, <1>4

\* The end of a job.
LEMMA EndsKeep ==
  ASSUME LoadInv, NEW d \in Light, NEW s \in Slot,
         (s \in LoadRun /\ JobEnds(d, s)) \/ (s = Bearer /\ BearerJobEnds(d)) \/ JobEndsClosing(d, s)
  PROVE  LoadInv'
<1>0. /\ loadJob \in [Light \X Slot -> JobType] /\ loadJob[<<d, s>>] \in JobType
      /\ JobHolds(loadJob[<<d, s>>], d, SaidFor(d), Seen(s))
  BY DEF LoadInv, JobsHold
<1>1. UNCHANGED <<lib, World, memo, answered, scenesSeen>> /\ At(<<d, s>>, "finish")
  BY DEF JobEnds, BearerJobEnds, JobEndsClosing
<1>2. SaidStays /\ (\A x : SaidFor(x)' = SaidFor(x)) /\ (\A t : Seen(t)' = Seen(t))
  BY <1>1, NothingSaid DEF Seen
<1>3. CASE JobEndsClosing(d, s)
  <2>1. /\ UNCHANGED <<checkedAt, awaiting>> /\ Goes(<<d, s>>, NoJob)
        /\ scenesOk' = scenesOk \/ scenesOk' = scenesOk \ {d}
    BY <1>3 DEF JobEndsClosing
  <2>2. Plain' /\ StampsHold' /\ ScenesWereSeen'
    BY <1>1, <1>2, <2>1 DEF World, LoadInv, Plain, StampsHold, ScenesWereSeen
  <2>3. NoJob \in JobType /\ JobHolds(NoJob, d, SaidFor(d)', Seen(s)')
    BY NoJobFits
  <2>4. loadJob' \in [Light \X Slot -> JobType] /\ JobsHold'
    BY <1>2, <2>1, <2>3, JobGoesOn
  <2> QED BY <2>2, <2>4 DEF LoadInv
<1>4. CASE s = Bearer /\ BearerJobEnds(d)
  <2>1. /\ UNCHANGED <<scenesOk, awaiting>> /\ Goes(<<d, s>>, NoJob)
        /\ Finishes(d, loadJob[<<d, s>>].track)
    BY <1>4 DEF BearerJobEnds
  <2>2. checkedAt' \in [Light -> Times] /\ StampsHold'
    BY <1>1, <2>1, FinishHolds
  <2>3. Plain' /\ ScenesWereSeen'
    BY <1>1, <2>1, <2>2 DEF World, LoadInv, Plain, ScenesWereSeen
  <2>4. NoJob \in JobType /\ JobHolds(NoJob, d, SaidFor(d)', Seen(s)')
    BY NoJobFits
  <2>5. loadJob' \in [Light \X Slot -> JobType] /\ JobsHold'
    BY <1>2, <2>1, <2>4, JobGoesOn
  <2> QED BY <2>2, <2>3, <2>5 DEF LoadInv
<1>5. CASE s \in LoadRun /\ JobEnds(d, s)
  <2>1. /\ Finishes(d, loadJob[<<d, s>>].track) /\ s # Bearer
        /\ scenesOk' = (IF ScenesConfirmed(loadJob[<<d, s>>].track) THEN scenesOk \cup {d} ELSE scenesOk \ {d})
        /\ awaiting' \in {awaiting \ {d}, awaiting \cup {d}, awaiting}
        /\ \/ loadJob' = [StartsWithToken({d}) EXCEPT ![<<d, s>>] = NoJob]
           \/ Goes(<<d, s>>, NoJob)
    BY <1>5 DEF JobEnds
  <2>2. checkedAt' \in [Light -> Times] /\ StampsHold'
    BY <1>1, <2>1, FinishHolds
  <2>3. scenesOk' \subseteq scenesSeen' /\ scenesOk' \subseteq Light
    <3>1. scenesOk \subseteq scenesSeen /\ scenesOk \subseteq Light
      BY DEF LoadInv, ScenesWereSeen, Plain
    <3>2. ScenesConfirmed(loadJob[<<d, s>>].track) => d \in scenesSeen
      BY <1>0, <1>1, <2>1 DEF JobHolds, At, Seen
    <3> QED BY <1>1, <2>1, <3>1, <3>2
  <2>4. Plain' /\ ScenesWereSeen'
    <3>1. awaiting' \subseteq Light
      BY <2>1 DEF LoadInv, Plain
    <3>2. lib' \in [Light -> [Endpoint -> {"empty", "filled"}]]
      BY <1>1 DEF LoadInv, Plain
    <3>3. scenesSeen' \subseteq Light
      BY <1>1 DEF LoadInv, Plain
    <3>4. {scenesOk, awaiting, scenesSeen}' \subseteq SUBSET Light
      BY <2>3, <3>1, <3>3
    <3>5. /\ {bearer, followUps, closing}' \subseteq BOOLEAN
          /\ turns' \in 0..MaxTurns /\ ran' \subseteq LoadRun
          /\ memo' \in [LoadRun -> [Endpoint -> Fetch]]
          /\ answered' \in [Light -> [Endpoint -> Times]]
      BY <1>1 DEF World, LoadInv, Plain
    <3> QED BY <2>2, <2>3, <3>2, <3>4, <3>5 DEF Plain, ScenesWereSeen
  <2>5. NoJob \in JobType /\ JobHolds(NoJob, d, SaidFor(d)', Seen(s)')
    BY NoJobFits
  <2>6. CASE Goes(<<d, s>>, NoJob)
    <3>1. loadJob' \in [Light \X Slot -> JobType] /\ JobsHold'
      BY <1>2, <2>5, <2>6, JobGoesOn
    <3> QED BY <2>2, <2>4, <3>1 DEF LoadInv
  <2>7. CASE loadJob' = [StartsWithToken({d}) EXCEPT ![<<d, s>>] = NoJob]
    <3>1. PICK f : f = StartsWithToken({d})
      OBVIOUS
    <3>2. /\ f \in [Light \X Slot -> JobType]
          /\ \A x \in Light, t \in Slot : JobHolds(f[<<x, t>>], x, SaidFor(x), Seen(t))
      BY <3>1, TokenStarts
    <3>3. loadJob' = [f EXCEPT ![<<d, s>>] = NoJob]
      BY <2>7, <3>1
    <3>4. loadJob' \in [Light \X Slot -> JobType]
      BY <2>5, <3>2, <3>3
    <3>5. ASSUME NEW x \in Light, NEW t \in Slot PROVE JobHolds(loadJob'[<<x, t>>], x, SaidFor(x)', Seen(t)')
      <4>1. CASE x = d /\ t = s
        BY <2>5, <3>2, <3>3, <4>1
      <4>2. CASE ~(x = d /\ t = s)
        <5>1. loadJob'[<<x, t>>] = f[<<x, t>>]
          BY <3>2, <3>3, <4>2
        <5> QED BY <1>2, <3>2, <5>1
      <4> QED BY <4>1, <4>2
    <3>6. JobsHold'
      BY <3>5 DEF JobsHold
    <3> QED BY <2>2, <2>4, <3>4, <3>6 DEF LoadInv
  <2> QED BY <2>1, <2>6, <2>7
<1> QED BY <1>3, <1>4, <1>5

\* Tokens, the end of the start, the stop.
LEMMA TokensKeep ==
  ASSUME LoadInv, TokenComes \/ TokenLost \/ enableBearerFollowUps \/ Closes
  PROVE  LoadInv'
<1>1. UNCHANGED <<lib, checkedAt, scenesOk, ran, memo, answered, scenesSeen>>
  BY DEF TokenComes, TokenLost, enableBearerFollowUps, Closes, Stamps
<1>2. SaidStays /\ (\A x : SaidFor(x)' = SaidFor(x)) /\ (\A t : Seen(t)' = Seen(t))
  BY <1>1, NothingSaid DEF Seen
<1>3. onBearerToken \/ UNCHANGED <<loadJob, awaiting>>
  BY DEF TokenComes, TokenLost, enableBearerFollowUps, Closes, Stamps
<1>4. awaiting' \in SUBSET Light
  BY <1>3 DEF onBearerToken, LoadInv, Plain
<1>5. {bearer, followUps, closing}' \subseteq BOOLEAN
  BY DEF TokenComes, TokenLost, enableBearerFollowUps, Closes, Stamps, LoadInv, Plain
<1>6. turns' = turns \/ (turns > 0 /\ turns' = turns - 1)
  BY DEF TokenComes, TokenLost, enableBearerFollowUps, Closes
<1>7. turns' \in 0..MaxTurns
  BY <1>6, LoadAssumption DEF LoadInv, Plain
<1>8. Plain'
  BY <1>1, <1>4, <1>5, <1>7 DEF LoadInv, Plain
<1>9. StampsHold' /\ ScenesWereSeen'
  BY <1>1, <1>2 DEF LoadInv, StampsHold, ScenesWereSeen
<1>10. loadJob' \in [Light \X Slot -> JobType] /\ JobsHold'
  <2>1. CASE onBearerToken
    <3>1. loadJob' = StartsWithToken(awaiting) /\ awaiting \in SUBSET Light
      BY <2>1 DEF onBearerToken, LoadInv, Plain
    <3> QED BY <1>2, <3>1, TokenStarts DEF JobsHold
  <2>2. CASE UNCHANGED <<loadJob, awaiting>>
    BY <1>2, <2>2, JobsStay
  <2> QED BY <1>3, <2>1, <2>2
<1> QED BY <1>8, <1>9, <1>10 DEF LoadInv

\* Half a week makes no stamp and forgets none.
LEMMA HalfWeekKeeps == LoadInv /\ HalfWeekPasses => LoadInv'
<1> SUFFICES ASSUME LoadInv, HalfWeekPasses PROVE LoadInv'
  OBVIOUS
<1>1. \A t \in Times : Aged(t) \in Times /\ (Aged(t) = Never <=> t = Never)
  BY DEF Aged, Times, Never, RECHECK
<1>2. /\ UNCHANGED <<lib, scenesOk, awaiting, World, memo, loadJob, scenesSeen>>
      /\ checkedAt' = [d \in Light |-> Aged(checkedAt[d])]
      /\ answered' = [d \in Light |-> [e \in Endpoint |-> Aged(answered[d][e])]]
      /\ checkedAt \in [Light -> Times] /\ answered \in [Light -> [Endpoint -> Times]]
  BY DEF HalfWeekPasses, LoadInv, Plain
<1>3. /\ checkedAt' \in [Light -> Times] /\ answered' \in [Light -> [Endpoint -> Times]]
      /\ \A d \in Light : /\ checkedAt'[d] = Never <=> checkedAt[d] = Never
                          /\ \A e \in Endpoint : answered'[d][e] = Never <=> answered[d][e] = Never
  BY <1>1, <1>2
<1>4. \A d \in Light : SaidFor(d)' = SaidFor(d)
  BY <1>2, <1>3 DEF SaidFor
<1>5. SaidStays
  BY <1>2, <1>4 DEF SaidStays
<1>6. Plain' /\ ScenesWereSeen'
  BY <1>2, <1>3 DEF World, LoadInv, Plain, ScenesWereSeen
<1>7. StampsHold'
  BY <1>3, <1>4 DEF LoadInv, StampsHold
<1> QED BY <1>2, <1>5, <1>6, <1>7, JobsStay DEF LoadInv

\* Every step keeps it.
LEMMA NextLoad == LoadInv /\ [LoadNext]_loadVars => LoadInv'
<1> SUFFICES ASSUME LoadInv, [LoadNext]_loadVars PROVE LoadInv'
  OBVIOUS
<1>1. CASE UNCHANGED loadVars
  BY <1>1 DEF loadVars, Stamps, LoadInv, Plain, JobsHold, StampsHold, ScenesWereSeen, SaidFor, Seen
<1>2. ASSUME NEW r \in LoadRun, NEW d \in Light, RunStep(d, r) PROVE LoadInv'
  <2>1. r \in Slot
    BY EndpointFacts
  <2>2. ASSUME NEW e \in Endpoint, SharedOutcome(d, r, e) PROVE LoadInv'
    <3>1. memo[r][e] \in Outcome /\ MayAsk(d, r, e) /\ TakesOutcome(d, r, e, memo[r][e])
      BY <2>2 DEF SharedOutcome
    <3> QED BY <2>1, <3>1, OutcomeKeeps
  <2> QED BY <1>2, <2>1, <2>2, ScenesKeep, FetchKeeps, EndsKeep DEF RunStep
<1>3. ASSUME NEW d \in Light, NEW s \in Slot, JobStep(d, s) PROVE LoadInv'
  BY <1>3, UnaskedKeeps, EndsKeep DEF JobStep
<1>4. ASSUME NEW d \in Light, BearerStep(d) PROVE LoadInv'
  <2>1. CASE BearerJobEnds(d)
    BY <2>1, EndsKeep, EndpointFacts
  <2>2. ASSUME NEW e \in Endpoint, OwnOutcome(d, e) PROVE LoadInv'
    BY <2>2, OutcomeKeeps, EndpointFacts DEF OwnOutcome
  <2> QED BY <1>4, <2>1, <2>2 DEF BearerStep
<1>5. CASE LoadNext
  BY <1>2, <1>3, <1>4, <1>5, StartRunKeeps, FetchKeeps, TokensKeep, HalfWeekKeeps DEF LoadNext
<1> QED BY <1>1, <1>5

\* What it says of a state.
LEMMA LoadInvSays == LoadInv => LoadTypeOK /\ EmptyWasSaid /\ ScenesWereSeen
<1> SUFFICES ASSUME LoadInv PROVE LoadTypeOK /\ EmptyWasSaid
  BY DEF LoadInv
<1>1. LoadTypeOK
  BY DEF LoadInv, Plain, LoadTypeOK, JobType, Steps
<1>2. EmptyWasSaid
  BY DEF LoadInv, StampsHold, SaidFor, EmptyWasSaid
<1> QED BY <1>1, <1>2

\* An empty library is remembered as empty only when Govee answered for this light, and
\* a scene list counts as checked only when it was answered: for any number of lights,
\* runs that overlap, refusals, failures and tokens (device-manager.ts, library-loader.ts).
THEOREM RememberedWasSaid == LoadSpec => []LibrariesAreAsked
BY InitLoad, NextLoad, LoadInvSays, PTL DEF LoadSpec, LibrariesAreAsked
=============================================================================
