-------------------------- MODULE LifecycleProofs --------------------------
(***************************************************************************)
(* The start of a process, and the account channel that it opens and that  *)
(* outlives it until the stop.                                             *)
(*                                                                         *)
(* AccountMqtt, for every cap, window and number of reuses: there is one   *)
(* connect loop, no socket is opened after the stop, and neither the       *)
(* broker nor the login is asked more often than its window allows.  The   *)
(* first two are inductive together with the type of phase: every handler  *)
(* that arms the reconnect timer or opens a client holds the one token of  *)
(* the loop, the refresh and the probe never touch it.  The windows need   *)
(* more: whoever holds the token holds room for one more dial by the time  *)
(* he may make it, and the logins under way count on top of those the      *)
(* window holds.                                                           *)
(*                                                                         *)
(* Startup, for every installation and number of runs: what was listed is  *)
(* built before it is written to, a device's word outlives the start, and  *)
(* behind the stop nothing starts and no device stands as there.           *)
(***************************************************************************)
EXTENDS AccountMqtt, Startup, FiniteSetTheorems, SequenceTheorems, TLAPS

PhaseOK == phase \in [Paths -> {"idle", "login", "key"}]

LoopInv == PhaseOK /\ OneConnectLoop /\ NoSocketAfterStop

(* A step of a path that leaves the loop's token where it is. *)
OnlyPhaseOf(path) ==
  /\ UNCHANGED <<alive, broker, reconnectIn>>
  /\ \/ UNCHANGED phase
     \/ \E step \in {"idle", "login", "key"} :
          phase' = [phase EXCEPT ![path] = step]

LEMMA LoopInit == Init => LoopInv
BY DEF Init, LoopInv, PhaseOK, OneConnectLoop, NoSocketAfterStop, Paths, Off

(* What keeps the token and the phase of connect keeps the invariant. *)
LEMMA OthersKeepLoop ==
  ASSUME LoopInv, UNCHANGED <<alive, broker, reconnectIn>>,
         phase' \in [Paths -> {"idle", "login", "key"}],
         phase'["connect"] = phase["connect"]
  PROVE  LoopInv'
BY DEF LoopInv, PhaseOK, OneConnectLoop, NoSocketAfterStop

LEMMA ConnectKeepsLoop ==
  ASSUME LoopInv, ConnectSteps
  PROVE  LoopInv'
<1> USE DEF LoopInv, PhaseOK, OneConnectLoop, NoSocketAfterStop, Paths, Wait
<1>1. CASE Connect
  BY <1>1 DEF Connect, OpenBroker, SendLogin, Off
<1>2. CASE ConnectAccepted
  BY <1>2 DEF ConnectAccepted
<1>3. CASE KeyArrived
  BY <1>3 DEF KeyArrived, OpenBroker
<1>4. ASSUME NEW answer \in Answers \ {"accepted"}, ConnectRejected(answer)
      PROVE  LoopInv'
  <2>1. reconnectIn' = reconnectIn \/ alive
    BY <1>4 DEF ConnectRejected, ConnectFails, ScheduleReconnect
  <2>2. /\ phase["connect"] = "login"
        /\ phase' = [phase EXCEPT !["connect"] = "idle"]
        /\ UNCHANGED <<alive, broker>>
    BY <1>4 DEF ConnectRejected
  <2> QED  BY <2>1, <2>2
<1>5. ASSUME NEW counted \in BOOLEAN, KeyFailed(counted)
      PROVE  LoopInv'
  <2>1. reconnectIn' = reconnectIn \/ alive
    BY <1>5 DEF KeyFailed, ConnectFails, ScheduleReconnect
  <2>2. /\ phase["connect"] = "key"
        /\ phase' = [phase EXCEPT !["connect"] = "idle"]
        /\ UNCHANGED <<alive, broker>>
    BY <1>5 DEF KeyFailed
  <2> QED  BY <2>1, <2>2
<1> QED  BY <1>1, <1>2, <1>3, <1>4, <1>5 DEF ConnectSteps

LEMMA BrokerKeepsLoop ==
  ASSUME LoopInv, BrokerSteps
  PROVE  LoopInv'
<1> USE DEF LoopInv, PhaseOK, OneConnectLoop, NoSocketAfterStop
<1>1. CASE Connack
  BY <1>1 DEF Connack
<1>2. CASE Subscribed
  BY <1>2 DEF Subscribed
<1>3. ASSUME NEW refused \in BOOLEAN, BrokerClosed(refused)
      PROVE  LoopInv'
  BY <1>3 DEF BrokerClosed
<1> QED  BY <1>1, <1>2, <1>3 DEF BrokerSteps

LEMMA RefreshKeepsLoop ==
  ASSUME LoopInv, RefreshSteps
  PROVE  LoopInv'
<1> USE DEF LoopInv, PhaseOK, Paths
<1>1. OnlyPhaseOf("refresh")
  <2> USE DEF OnlyPhaseOf
  <2>1. CASE RefreshFires
    BY <2>1 DEF RefreshFires, RefreshBearer, SendLogin
  <2>2. CASE AppApiTurnsBearerDown
    BY <2>2 DEF AppApiTurnsBearerDown, RefreshBearer, SendLogin
  <2>3. ASSUME NEW answer \in {"accepted", "unusable"}, RefreshAccepted(answer)
        PROVE  OnlyPhaseOf("refresh")
    BY <2>3 DEF RefreshAccepted, Wait
  <2>4. ASSUME NEW answer, RefreshRejected(answer)
        PROVE  OnlyPhaseOf("refresh")
    BY <2>4 DEF RefreshRejected, Wait
  <2>5. ASSUME NEW arrived \in BOOLEAN, RefreshKeyAnswered(arrived)
        PROVE  OnlyPhaseOf("refresh")
    BY <2>5 DEF RefreshKeyAnswered, Wait
  <2> QED  BY <2>1, <2>2, <2>3, <2>4, <2>5 DEF RefreshSteps
<1> QED  BY <1>1, OthersKeepLoop DEF OnlyPhaseOf

LEMMA ProbeKeepsLoop ==
  ASSUME LoopInv, ProbeTest \/ \E answer \in Answers : ProbeAnswered(answer)
  PROVE  LoopInv'
<1>1. OnlyPhaseOf("probe")
  BY DEF ProbeTest, ProbeAnswered, Wait, OnlyPhaseOf
<1> QED  BY <1>1, OthersKeepLoop DEF LoopInv, PhaseOK, Paths, OnlyPhaseOf

LEMMA LoopStep == LoopInv /\ [Next]_vars => LoopInv'
<1> SUFFICES ASSUME LoopInv, [Next]_vars  PROVE LoopInv'
  OBVIOUS
<1>1. CASE ConnectSteps
  BY <1>1, ConnectKeepsLoop
<1>2. CASE BrokerSteps
  BY <1>2, BrokerKeepsLoop
<1>3. CASE RefreshSteps
  BY <1>3, RefreshKeepsLoop
<1>4. CASE ProbeTest \/ \E answer \in Answers : ProbeAnswered(answer)
  BY <1>4, ProbeKeepsLoop
<1>5. CASE BundleExpires
  BY <1>5, OthersKeepLoop DEF BundleExpires, LoopInv, PhaseOK
<1>6. CASE Tick
  BY <1>6 DEF Tick, LoopInv, PhaseOK, OneConnectLoop, NoSocketAfterStop, Off
<1>7. CASE Disconnect
  BY <1>7 DEF Disconnect, LoopInv, PhaseOK, OneConnectLoop, NoSocketAfterStop
<1>8. CASE UNCHANGED vars
  BY <1>8, OthersKeepLoop DEF vars, LoopInv, PhaseOK
<1> QED  BY <1>1, <1>2, <1>3, <1>4, <1>5, <1>6, <1>7, <1>8 DEF Next

(* Of an armed reconnect timer, a connect() under way and a broker client   *)
(* at most one ever exists: pauseLogins may arm its timer without a look,   *)
(* and the two reconnect loops openBroker warns of never run side by side.  *)
THEOREM OneLoop == Spec => []OneConnectLoop
<1>1. LoopInv => OneConnectLoop
  BY DEF LoopInv
<1> QED  BY LoopInit, LoopStep, <1>1, PTL DEF Spec

(* A login or an IoT key that arrives after disconnect() opens no client,   *)
(* and nothing that runs after it arms the reconnect timer (L12).           *)
THEOREM StopIsFinal == Spec => []NoSocketAfterStop
<1>1. LoopInv => NoSocketAfterStop
  BY DEF LoopInv
<1> QED  BY LoopInit, LoopStep, <1>1, PTL DEF Spec

-----------------------------------------------------------------------------
\* What is left of a window: the oldest entry, with the least left, comes first.
WindowOf(left, W) ==
  /\ left \in Seq(1 .. W)
  /\ \A i, j \in 1 .. Len(left) : i < j => left[i] <= left[j]

\* What leaves a window with the next tick comes first.
LEMMA GoneFirst ==
  ASSUME NEW W \in Nat \ {0}, NEW left, WindowOf(left, W)
  PROVE  /\ Cardinality(Gone(left)) \in 0 .. Len(left)
         /\ \A i \in 1 .. Len(left) : left[i] = 1 <=> i <= Cardinality(Gone(left))
<1> DEFINE G == Gone(left)
           n == Len(left)
<1>1. n \in Nat /\ DOMAIN left = 1 .. n
  BY LenProperties DEF WindowOf
<1>2. \A i \in 1 .. n : left[i] \in 1 .. W
  BY <1>1 DEF WindowOf
<1>3. IsFiniteSet(1 .. n) /\ Cardinality(1 .. n) = n
  <2> HIDE DEF n
  <2>1. IsFiniteSet(1 .. n) /\ Cardinality(1 .. n) = IF 1 > n THEN 0 ELSE n - 1 + 1
    BY <1>1, FS_Interval
  <2> QED BY <1>1, <2>1
<1>4. G \subseteq 1 .. n
  BY <1>1 DEF Gone
<1>5. IsFiniteSet(G) /\ Cardinality(G) \in Nat /\ Cardinality(G) <= n
  <2> HIDE DEF G, n
  <2> QED BY <1>3, <1>4, FS_Subset, FS_CardinalityType
<1>6. ASSUME NEW i \in 1 .. n, left[i] = 1
      PROVE  i <= Cardinality(G)
  <2>1. 1 .. i \subseteq G
    <3> SUFFICES ASSUME NEW j \in 1 .. i PROVE left[j] = 1 /\ j \in 1 .. n
      BY <1>1 DEF Gone
    <3>1. j \in 1 .. n /\ j <= i
      BY <1>1
    <3>2. left[j] <= left[i]
      BY <1>1, <1>2, <3>1 DEF WindowOf
    <3> QED BY <1>2, <1>6, <3>1, <3>2
  <2>2. Cardinality(1 .. i) = i
    BY <1>1, FS_Interval
  <2> HIDE DEF G
  <2>3. Cardinality(1 .. i) <= Cardinality(G)
    BY <1>5, <2>1, FS_Subset
  <2> QED BY <2>2, <2>3
<1>7. ASSUME NEW i \in 1 .. n, left[i] # 1
      PROVE  Cardinality(G) < i
  <2> DEFINE k == i - 1
  <2>1. k \in Nat /\ 1 \in Int /\ k \in Int
    BY <1>1
  <2>2. G \subseteq 1 .. k
    <3> SUFFICES ASSUME NEW j \in 1 .. n, left[j] = 1 PROVE j <= k
      BY <1>1, <2>1 DEF Gone
    <3>1. ~(i < j)
      BY <1>2, <1>7 DEF WindowOf
    <3> QED BY <1>1, <1>7, <3>1
  <2> HIDE DEF k
  <2>3. IsFiniteSet(1 .. k) /\ Cardinality(1 .. k) = IF 1 > k THEN 0 ELSE k - 1 + 1
    BY <2>1, FS_Interval
  <2>4. Cardinality(1 .. k) = k
    BY <2>1, <2>3
  <2> HIDE DEF G
  <2>5. Cardinality(G) <= Cardinality(1 .. k)
    BY <2>2, <2>3, FS_Subset
  <2> QED BY <1>1, <1>5, <2>1, <2>4, <2>5 DEF k
<1> HIDE DEF n, G
<1>8. \A i \in 1 .. n : left[i] = 1 <=> i <= Cardinality(G)
  BY <1>1, <1>5, <1>6, <1>7
<1> QED BY <1>1, <1>5, <1>8 DEF G, n

\* A tick takes the entries with one tick left and one from all others.
LEMMA OlderFacts ==
  ASSUME NEW W \in Nat \ {0}, NEW left, WindowOf(left, W)
  PROVE  \E g \in 0 .. Len(left) :
           /\ WindowOf(Older(left), W)
           /\ Len(Older(left)) = Len(left) - g
           /\ \A i \in 1 .. Len(left) - g : Older(left)[i] = left[i + g] - 1
<1> DEFINE g == Cardinality(Gone(left))
           s == Older(left)
           n == Len(left)
<1>1. n \in Nat /\ DOMAIN left = 1 .. n /\ \A i \in 1 .. n : left[i] \in 1 .. W
  BY LenProperties DEF WindowOf
<1>2. g \in 0 .. n /\ \A i \in 1 .. n : left[i] = 1 <=> i <= g
  BY GoneFirst
<1>3. s = [i \in 1 .. n - g |-> left[i + g] - 1]
  BY DEF Older
<1>0. \A i, j \in 1 .. n : i < j => left[i] <= left[j]
  BY DEF WindowOf
<1> HIDE DEF g, s, n
<1>4. n - g \in Nat
  BY <1>1, <1>2
<1>5. ASSUME NEW i \in 1 .. n - g
      PROVE  left[i + g] - 1 \in 1 .. W /\ s[i] = left[i + g] - 1 /\ i + g \in 1 .. n
  <2>1. i + g \in 1 .. n /\ ~(i + g <= g)
    BY <1>1, <1>2
  <2>2. left[i + g] \in 1 .. W /\ left[i + g] # 1
    BY <1>1, <1>2, <2>1
  <2> QED BY <1>3, <2>1, <2>2
<1>6. s \in [1 .. n - g -> 1 .. W]
  BY <1>3, <1>5
<1>7. s \in Seq(1 .. W) /\ Len(s) = n - g
  <2> DEFINE m == n - g
  <2>1. m \in Nat /\ s \in [1 .. m -> 1 .. W]
    BY <1>4, <1>6
  <2> HIDE DEF m
  <2>2. s \in Seq(1 .. W) /\ DOMAIN s = 1 .. m
    BY <2>1, SeqDef
  <2>3. Len(s) = m
    BY <2>1, <2>2, LenProperties
  <2> QED BY <2>2, <2>3 DEF m
<1>8. ASSUME NEW i \in 1 .. n - g, NEW j \in 1 .. n - g, i < j
      PROVE  s[i] <= s[j]
  <2>1. i + g \in 1 .. n /\ j + g \in 1 .. n /\ i + g < j + g
    BY <1>2, <1>5, <1>8
  <2>2. left[i + g] <= left[j + g]
    BY <1>0, <2>1
  <2> QED BY <1>1, <1>5, <2>1, <2>2
<1>9. WindowOf(s, W)
  BY <1>7, <1>8 DEF WindowOf
<1> QED BY <1>2, <1>5, <1>7, <1>9 DEF s, n

\* A new entry has the whole window left.
LEMMA AppendFacts ==
  ASSUME NEW W \in Nat \ {0}, NEW left, WindowOf(left, W)
  PROVE  /\ WindowOf(Append(left, W), W)
         /\ Len(Append(left, W)) = Len(left) + 1
<1>1. W \in 1 .. W /\ left \in Seq(1 .. W) /\ Len(left) \in Nat
  BY LenProperties DEF WindowOf
<1>2. /\ Append(left, W) \in Seq(1 .. W) /\ Len(Append(left, W)) = Len(left) + 1
      /\ \A i \in 1 .. Len(left) + 1 :
           Append(left, W)[i] = IF i <= Len(left) THEN left[i] ELSE W
  BY <1>1, AppendProperties
<1>3. \A i \in 1 .. Len(left) : left[i] \in 1 .. W
  BY <1>1
<1>4. \A i, j \in 1 .. Len(left) + 1 : i < j => Append(left, W)[i] <= Append(left, W)[j]
  BY <1>1, <1>2, <1>3 DEF WindowOf
<1> QED BY <1>2, <1>4 DEF WindowOf

-----------------------------------------------------------------------------
\* One more dial fits the window once t ticks have gone by.
RoomIn(t) == Len(dials) < MaxDials \/ dials[Len(dials) - MaxDials + 1] <= t

DialInv ==
  /\ WindowOf(dials, DialWindow)
  /\ Len(dials) <= MaxDials
  /\ reconnectIn \in Nat \cup {Off}
  /\ reconnectIn # Off => RoomIn(reconnectIn)
  /\ phase["connect"] # "idle" => RoomIn(0)

\* What waits for Govee's answer, on top of what the window holds.
Waiting == {p \in Paths : phase[p] = "login"}

LoginInv ==
  /\ WindowOf(logins, LoginWindow)
  /\ Len(logins) + Cardinality(Waiting) <= MaxLogins + Cardinality(Paths) - 1

\* There is room now just when the window is not full.
LEMMA RoomNow ==
  ASSUME DialInv
  PROVE  RoomIn(0) <=> Len(dials) < MaxDials
<1>1. Len(dials) \in Nat /\ MaxDials \in Nat \ {0} /\ Len(dials) <= MaxDials
  BY AccountAssumption, LenProperties DEF DialInv, WindowOf
<1>2. ASSUME ~(Len(dials) < MaxDials)
      PROVE  ~(dials[Len(dials) - MaxDials + 1] <= 0)
  <2>1. Len(dials) - MaxDials + 1 \in 1 .. Len(dials)
    BY <1>1, <1>2
  <2>2. dials[Len(dials) - MaxDials + 1] \in 1 .. DialWindow
    BY <2>1, ElementOfSeq DEF DialInv, WindowOf
  <2> QED BY <2>2
<1> QED BY <1>2 DEF RoomIn

\* connectWaitMs waits until there is room.
LEMMA WaitFits ==
  ASSUME DialInv
  PROVE  DialWait \in Nat /\ RoomIn(DialWait)
<1>1. Len(dials) \in Nat /\ MaxDials \in Nat \ {0} /\ Len(dials) <= MaxDials
  BY AccountAssumption, LenProperties DEF DialInv, WindowOf
<1>2. CASE Len(dials) < MaxDials
  BY <1>2 DEF DialWait, RoomIn
<1>3. CASE ~(Len(dials) < MaxDials)
  <2>1. Len(dials) - MaxDials + 1 \in 1 .. Len(dials)
    BY <1>1, <1>3
  <2>2. dials[Len(dials) - MaxDials + 1] \in 1 .. DialWindow
    BY <2>1, ElementOfSeq DEF DialInv, WindowOf
  <2> QED BY <1>3, <2>2 DEF DialWait, RoomIn
<1> QED BY <1>2, <1>3

\* A dial is made where there is room, and takes the token of the loop with it.
LEMMA DialFits ==
  ASSUME DialInv, RoomIn(0), dials' = Append(dials, DialWindow),
         reconnectIn' = Off, phase'["connect"] = "idle"
  PROVE  DialInv'
<1>1. Len(dials) < MaxDials /\ Len(dials) \in Nat /\ MaxDials \in Nat
  BY RoomNow, AccountAssumption, LenProperties DEF DialInv, WindowOf
<1>2. WindowOf(dials', DialWindow) /\ Len(dials') = Len(dials) + 1
  BY AppendFacts, AccountAssumption DEF DialInv
<1>3. Len(dials') <= MaxDials
  BY <1>1, <1>2
<1> QED BY <1>2, <1>3 DEF DialInv, WindowOf

\* Without a dial the token of the loop moves only to where it fits.
LEMMA NoDialFits ==
  ASSUME DialInv, UNCHANGED dials,
         reconnectIn' \in {reconnectIn, Off, DialWait},
         phase'["connect"] = phase["connect"] \/ phase'["connect"] = "idle"
  PROVE  DialInv'
<1>1. WindowOf(dials', DialWindow) /\ Len(dials') <= MaxDials
  BY DEF DialInv, WindowOf
<1>2. reconnectIn' \in Nat \cup {Off}
  BY WaitFits DEF DialInv
<1>3. \A t : RoomIn(t)' <=> RoomIn(t)
  BY DEF RoomIn
<1>4. reconnectIn' # Off => RoomIn(reconnectIn)'
  BY WaitFits DEF DialInv, RoomIn
<1>5. phase'["connect"] # "idle" => RoomIn(0)'
  BY DEF DialInv, RoomIn
<1> QED BY <1>1, <1>2, <1>4, <1>5 DEF DialInv, WindowOf

\* A tick brings every dial nearer to the end of its window.
LEMMA TickFits ==
  ASSUME DialInv, Tick
  PROVE  DialInv'
<1>1. /\ dials' = Older(dials) /\ UNCHANGED phase
      /\ reconnectIn' = IF reconnectIn > 0 THEN reconnectIn - 1 ELSE reconnectIn
  BY DEF Tick
<1>2. PICK g \in 0 .. Len(dials) :
           /\ WindowOf(dials', DialWindow)
           /\ Len(dials') = Len(dials) - g
           /\ \A i \in 1 .. Len(dials) - g : dials'[i] = dials[i + g] - 1
  <2>1. WindowOf(dials, DialWindow) /\ DialWindow \in Nat \ {0}
    BY AccountAssumption DEF DialInv
  <2> QED BY <1>1, <2>1, OlderFacts
<1>3. Len(dials) \in Nat /\ MaxDials \in Nat \ {0} /\ Len(dials) <= MaxDials
  BY AccountAssumption, LenProperties DEF DialInv, WindowOf
<1>4. Len(dials') <= MaxDials
  BY <1>2, <1>3
<1>5. \A i \in 1 .. Len(dials) : dials[i] \in 1 .. DialWindow
  BY ElementOfSeq DEF DialInv, WindowOf
<1> DEFINE room(t) == Len(dials') < MaxDials \/ dials'[Len(dials') - MaxDials + 1] <= t
<1>6. ASSUME NEW t \in Nat, RoomIn(t)
      PROVE  room(IF t > 0 THEN t - 1 ELSE t)
  <2>1. CASE Len(dials') < MaxDials
    BY <2>1
  <2>2. CASE ~(Len(dials') < MaxDials)
    <3>1. g = 0 /\ Len(dials') = Len(dials) /\ Len(dials) = MaxDials
      BY <1>2, <1>3, <2>2
    <3>2. dials[1] <= t /\ dials[1] \in 1 .. DialWindow
      BY <1>3, <1>5, <1>6, <3>1 DEF RoomIn
    <3>3. dials'[1] = dials[1] - 1
      BY <1>2, <1>3, <3>1
    <3>4. Len(dials') - MaxDials + 1 = 1 /\ dials'[1] <= t - 1 /\ t > 0
      BY <1>3, <3>1, <3>2, <3>3, AccountAssumption
    <3> QED BY <3>4
  <2> QED BY <2>1, <2>2
<1>7. reconnectIn' \in Nat \cup {Off} /\ (reconnectIn' # Off <=> reconnectIn # Off)
  BY <1>1 DEF DialInv, Off
<1> HIDE DEF room
<1>8. reconnectIn' # Off => room(reconnectIn')
  BY <1>1, <1>6, <1>7 DEF DialInv, Off
<1>9. phase'["connect"] # "idle" => room(0)
  BY <1>1, <1>6 DEF DialInv
<1> QED BY <1>2, <1>4, <1>7, <1>8, <1>9 DEF DialInv, WindowOf, RoomIn, room

\* Whoever holds the token while there is room may put it anywhere.
LEMMA RoomFits ==
  ASSUME DialInv, RoomIn(0), UNCHANGED dials, reconnectIn' \in Nat \cup {Off}
  PROVE  DialInv'
BY RoomNow DEF DialInv, RoomIn, WindowOf

\* waitMs is 0 just when the window is not full.
LEMMA LoginWaitFacts ==
  ASSUME LoginInv
  PROVE  LoginWait \in Nat /\ (LoginWait > 0 <=> ~(Len(logins) < MaxLogins))
<1>1. Len(logins) \in Nat /\ MaxLogins \in Nat \ {0}
  BY AccountAssumption, LenProperties DEF LoginInv, WindowOf
<1>2. CASE Len(logins) < MaxLogins
  BY <1>2 DEF LoginWait
<1>3. CASE ~(Len(logins) < MaxLogins)
  <2>1. 1 \in 1 .. Len(logins)
    BY <1>1, <1>3
  <2>2. logins[1] \in 1 .. LoginWindow
    BY <2>1, ElementOfSeq DEF LoginInv, WindowOf
  <2>3. LoginWait = logins[1]
    BY <1>3 DEF LoginWait
  <2> QED BY <1>3, <2>2, <2>3
<1> QED BY <1>2, <1>3

\* Every step of the channel keeps the dials within their window.
LEMMA DialStep ==
  ASSUME LoopInv, DialInv, LoginInv, [Next]_vars
  PROVE  DialInv'
<1> USE DEF PhaseOK, Paths
<1>0. /\ phase \in [Paths -> {"idle", "login", "key"}]
      /\ reconnectIn # Off => phase["connect"] = "idle" /\ broker = "none"
      /\ phase["connect"] # "idle" => RoomIn(0) /\ reconnectIn = Off
  BY DEF LoopInv, OneConnectLoop, DialInv
<1>1. CASE Connect
  <2>1. alive /\ reconnectIn = 0 /\ phase["connect"] = "idle" /\ RoomIn(0)
    BY <1>0, <1>1 DEF Connect, DialInv, Off
  <2>2. CASE bundle = "good"
    BY <1>1, <2>1, <2>2, DialFits DEF Connect, OpenBroker
  <2>3. CASE bundle # "good"
    BY <1>1, <2>1, <2>3, RoomFits, LoginWaitFacts DEF Connect
  <2> QED BY <2>2, <2>3
<1>2. CASE ConnectAccepted
  BY <1>0, <1>2, RoomFits DEF ConnectAccepted
<1>3. CASE KeyArrived
  <2>1. /\ RoomIn(0) /\ reconnectIn' = Off
        /\ phase'["connect"] = "idle"
    BY <1>0, <1>3 DEF KeyArrived, Wait
  <2>2. CASE alive
    BY <1>3, <2>1, <2>2, DialFits DEF KeyArrived, OpenBroker
  <2>3. CASE ~alive
    BY <1>3, <2>1, <2>3, RoomFits DEF KeyArrived
  <2> QED BY <2>2, <2>3
<1>4. ASSUME UNCHANGED dials, reconnectIn' = reconnectIn \/ reconnectIn' = DialWait,
             phase'["connect"] = phase["connect"] \/ phase'["connect"] = "idle"
      PROVE  DialInv'
  BY <1>4, NoDialFits
<1>5. ASSUME NEW answer \in Answers \ {"accepted"}, ConnectRejected(answer)
      PROVE  DialInv'
  <2>1. UNCHANGED dials /\ phase'["connect"] = "idle"
    BY <1>0, <1>5 DEF ConnectRejected, Wait
  <2>2. reconnectIn' = reconnectIn \/ reconnectIn' = DialWait
    BY <1>5 DEF ConnectRejected, ConnectFails, ScheduleReconnect
  <2> QED BY <1>4, <2>1, <2>2
<1>6. ASSUME NEW counted \in BOOLEAN, KeyFailed(counted)
      PROVE  DialInv'
  <2>1. UNCHANGED dials /\ phase'["connect"] = "idle"
    BY <1>0, <1>6 DEF KeyFailed, Wait
  <2>2. reconnectIn' = reconnectIn \/ reconnectIn' = DialWait
    BY <1>6 DEF KeyFailed, ConnectFails, ScheduleReconnect
  <2> QED BY <1>4, <2>1, <2>2
<1>7. CASE BrokerSteps
  <2>1. UNCHANGED <<dials, phase>> /\ (reconnectIn' = reconnectIn \/ reconnectIn' = DialWait)
    BY <1>7 DEF BrokerSteps, Connack, Subscribed, BrokerClosed, ScheduleReconnect
  <2> QED BY <1>4, <2>1
<1>8. CASE RefreshSteps
  <2> DEFINE quiet == /\ UNCHANGED <<dials, reconnectIn>>
                      /\ phase'["connect"] = phase["connect"]
  <2>1. ASSUME RefreshFires \/ AppApiTurnsBearerDown PROVE quiet
    BY <1>0, <2>1 DEF RefreshFires, AppApiTurnsBearerDown, RefreshBearer, SendLogin
  <2>2. ASSUME NEW answer, RefreshAccepted(answer) \/ RefreshRejected(answer) PROVE quiet
    BY <1>0, <2>2 DEF RefreshAccepted, RefreshRejected, Wait
  <2>3. ASSUME NEW arrived, RefreshKeyAnswered(arrived) PROVE quiet
    BY <1>0, <2>3 DEF RefreshKeyAnswered, Wait
  <2> QED BY <1>4, <1>8, <2>1, <2>2, <2>3 DEF RefreshSteps
<1>9. CASE ProbeTest \/ \E answer \in Answers : ProbeAnswered(answer)
  <2>1. UNCHANGED <<dials, reconnectIn>> /\ phase'["connect"] = phase["connect"]
    BY <1>0, <1>9 DEF ProbeTest, ProbeAnswered, Wait
  <2> QED BY <1>4, <2>1
<1>10. CASE BundleExpires
  BY <1>4, <1>10 DEF BundleExpires
<1>11. CASE Disconnect
  BY <1>11, NoDialFits DEF Disconnect
<1>12. CASE UNCHANGED vars
  BY <1>4, <1>12 DEF vars
<1> QED
  BY <1>1, <1>2, <1>3, <1>5, <1>6, <1>7, <1>8, <1>9, <1>10, <1>11, <1>12, TickFits
  DEF Next, ConnectSteps

-----------------------------------------------------------------------------
\* The three paths that log in.
LEMMA ThreePaths == IsFiniteSet(Paths) /\ Cardinality(Paths) \in Nat
<1> DEFINE one == {"connect"}
           two == one \cup {"refresh"}
           three == two \cup {"probe"}
<1>1. IsFiniteSet(one)
  BY FS_Singleton
<1>2. Paths = three
  BY DEF Paths
<1> HIDE DEF one
<1>3. IsFiniteSet(two)
  BY <1>1, FS_AddElement
<1> HIDE DEF two
<1>4. IsFiniteSet(three)
  BY <1>3, FS_AddElement
<1> HIDE DEF three
<1> QED BY <1>2, <1>4, FS_CardinalityType

\* A path starts to wait while the window has room.
LEMMA LoginSent ==
  ASSUME LoopInv, LoginInv, NEW p \in Paths, phase[p] # "login", LoginWait = 0,
         phase' = [phase EXCEPT ![p] = "login"], UNCHANGED logins
  PROVE  LoginInv'
<1>1. Waiting' = Waiting \cup {p}
  BY DEF LoopInv, PhaseOK, Waiting
<1>2. IsFiniteSet(Paths) /\ Cardinality(Paths) \in Nat
  BY ThreePaths
<1>3. Cardinality(Waiting') <= Cardinality(Paths) /\ Cardinality(Waiting') \in Nat
  <2>1. Waiting' \subseteq Paths
    BY DEF Waiting
  <2> QED BY <1>2, <2>1, FS_Subset, FS_CardinalityType
<1>4. Len(logins) < MaxLogins /\ Len(logins) \in Nat /\ MaxLogins \in Nat
  BY LoginWaitFacts, AccountAssumption, LenProperties DEF LoginInv, WindowOf
<1>5. Len(logins) + Cardinality(Waiting') <= MaxLogins + Cardinality(Paths) - 1
  BY <1>2, <1>3, <1>4
<1> QED BY <1>5 DEF LoginInv, WindowOf

\* Govee answers it: the login counts or not, and the path waits no longer.
LEMMA LoginAnswered ==
  ASSUME LoopInv, LoginInv, NEW p \in Paths, phase[p] = "login",
         NEW step \in {"idle", "key"}, phase' = [phase EXCEPT ![p] = step],
         logins' = logins \/ logins' = Append(logins, LoginWindow)
  PROVE  LoginInv'
<1>1. Waiting' = Waiting \ {p} /\ p \in Waiting
  BY DEF LoopInv, PhaseOK, Waiting
<1>2. IsFiniteSet(Paths) /\ Cardinality(Paths) \in Nat
  BY ThreePaths
<1>3. IsFiniteSet(Waiting) /\ Cardinality(Waiting) \in Nat
  <2>1. Waiting \subseteq Paths
    BY DEF Waiting
  <2> QED BY <1>2, <2>1, FS_Subset, FS_CardinalityType
<1>4. Cardinality(Waiting') = Cardinality(Waiting) - 1
  <2> DEFINE w == Waiting
  <2>1. IsFiniteSet(w) /\ p \in w /\ Waiting' = w \ {p}
    BY <1>1, <1>3
  <2> HIDE DEF w
  <2>2. Cardinality(w \ {p}) = Cardinality(w) - 1
    BY <2>1, FS_RemoveElement
  <2> QED BY <2>1, <2>2 DEF w
<1>5. /\ WindowOf(logins', LoginWindow)
      /\ Len(logins') \in {Len(logins), Len(logins) + 1} /\ Len(logins) \in Nat
  <2>1. WindowOf(logins, LoginWindow) /\ LoginWindow \in Nat \ {0}
    BY AccountAssumption DEF LoginInv
  <2>2. Len(logins) \in Nat
    BY LenProperties DEF LoginInv, WindowOf
  <2>3. CASE logins' = logins
    BY <2>1, <2>2, <2>3
  <2>4. CASE logins' = Append(logins, LoginWindow)
    BY <2>1, <2>2, <2>4, AppendFacts
  <2> QED BY <2>3, <2>4
<1>6. Len(logins') + Cardinality(Waiting') <= MaxLogins + Cardinality(Paths) - 1
  BY <1>2, <1>3, <1>4, <1>5, AccountAssumption DEF LoginInv
<1> QED BY <1>5, <1>6 DEF LoginInv

\* Nobody starts to wait and nothing is counted.
LEMMA LoginQuiet ==
  ASSUME LoginInv, UNCHANGED logins, Waiting' = Waiting
  PROVE  LoginInv'
BY DEF LoginInv, WindowOf

\* Every step of the channel keeps the logins within their bound.
LEMMA LoginStep ==
  ASSUME LoopInv, LoginInv, [Next]_vars
  PROVE  LoginInv'
<1> USE DEF Paths, Wait
<1>0. phase \in [Paths -> {"idle", "login", "key"}]
  BY DEF LoopInv, PhaseOK
<1>1. ASSUME NEW p \in Paths, phase[p] = "idle", LoginWait = 0,
             phase' = [phase EXCEPT ![p] = "login"], UNCHANGED logins
      PROVE  LoginInv'
  BY <1>1, LoginSent
<1>2. ASSUME NEW p \in Paths, phase[p] = "login", NEW answer, NoteLogin(answer),
             NEW step \in {"idle", "key"}, phase' = [phase EXCEPT ![p] = step]
      PROVE  LoginInv'
  BY <1>2, LoginAnswered DEF NoteLogin
<1>3. ASSUME UNCHANGED logins,
             \/ UNCHANGED phase
             \/ \E p \in Paths : phase[p] # "login" /\ phase' = [phase EXCEPT ![p] = "idle"]
      PROVE  LoginInv'
  <2>1. Waiting' = Waiting
    BY <1>0, <1>3 DEF Waiting
  <2> QED BY <1>3, <2>1, LoginQuiet
<1>4. CASE Connect
  <2>1. phase["connect"] = "idle" /\ UNCHANGED logins
    BY <1>4 DEF Connect, LoopInv, OneConnectLoop, Off
  <2>2. \/ UNCHANGED phase
        \/ ~(LoginWait > 0) /\ phase' = [phase EXCEPT !["connect"] = "login"]
    BY <1>4 DEF Connect, SendLogin
  <2>3. LoginWait \in Nat
    BY LoginWaitFacts
  <2> QED BY <1>1, <1>3, <2>1, <2>2, <2>3
<1>5. CASE ConnectAccepted
  BY <1>2, <1>5 DEF ConnectAccepted
<1>6. ASSUME NEW answer \in Answers \ {"accepted"}, ConnectRejected(answer)
      PROVE  LoginInv'
  BY <1>2, <1>6 DEF ConnectRejected
<1>7. CASE KeyArrived \/ \E counted \in BOOLEAN : KeyFailed(counted)
  BY <1>3, <1>7 DEF KeyArrived, KeyFailed
<1>8. CASE BrokerSteps
  BY <1>3, <1>8 DEF BrokerSteps, Connack, Subscribed, BrokerClosed
<1>9. ASSUME NEW force \in BOOLEAN, NEW timer, RefreshBearer(force, timer), UNCHANGED logins
      PROVE  LoginInv'
  <2>1. \/ UNCHANGED phase
        \/ /\ ~(LoginWait > 0) /\ phase["refresh"] = "idle"
           /\ phase' = [phase EXCEPT !["refresh"] = "login"]
    BY <1>9 DEF RefreshBearer, SendLogin
  <2>2. LoginWait \in Nat
    BY LoginWaitFacts
  <2> QED BY <1>1, <1>3, <1>9, <2>1, <2>2
<1>10. CASE RefreshFires \/ AppApiTurnsBearerDown
  BY <1>9, <1>10 DEF RefreshFires, AppApiTurnsBearerDown
<1>11. ASSUME NEW answer, RefreshAccepted(answer) \/ RefreshRejected(answer)
       PROVE  LoginInv'
  BY <1>2, <1>11 DEF RefreshAccepted, RefreshRejected
<1>12. ASSUME NEW arrived \in BOOLEAN, RefreshKeyAnswered(arrived)
       PROVE  LoginInv'
  BY <1>3, <1>12 DEF RefreshKeyAnswered
<1>13. CASE ProbeTest
  BY <1>1, <1>13 DEF ProbeTest
<1>14. ASSUME NEW answer \in Answers, ProbeAnswered(answer)
       PROVE  LoginInv'
  BY <1>2, <1>14 DEF ProbeAnswered
<1>15. CASE BundleExpires \/ Disconnect
  BY <1>3, <1>15 DEF BundleExpires, Disconnect
<1>16. CASE Tick
  <2>1. PICK g \in 0 .. Len(logins) :
           WindowOf(logins', LoginWindow) /\ Len(logins') = Len(logins) - g
    <3>1. WindowOf(logins, LoginWindow) /\ LoginWindow \in Nat \ {0} /\ logins' = Older(logins)
      BY <1>16, AccountAssumption DEF LoginInv, Tick
    <3> QED BY <3>1, OlderFacts
  <2>2. Waiting' = Waiting
    BY <1>16 DEF Tick, Waiting
  <2>3. Len(logins') <= Len(logins) /\ Len(logins) \in Nat /\ Len(logins') \in Nat
    BY <2>1, LenProperties DEF LoginInv, WindowOf
  <2>4. IsFiniteSet(Waiting) /\ Cardinality(Waiting) \in Nat /\ Cardinality(Paths) \in Nat
    <3>1. Waiting \subseteq Paths
      BY DEF Waiting
    <3> HIDE DEF Paths
    <3> QED BY <3>1, ThreePaths, FS_Subset, FS_CardinalityType
  <2>5. Len(logins') + Cardinality(Waiting') <= MaxLogins + Cardinality(Paths) - 1
    <3> HIDE DEF Paths
    <3> QED BY <2>2, <2>3, <2>4, AccountAssumption DEF LoginInv
  <2> QED BY <2>1, <2>5 DEF LoginInv
<1>17. CASE UNCHANGED vars
  BY <1>3, <1>17 DEF vars
<1> QED
  BY <1>4, <1>5, <1>6, <1>7, <1>8, <1>10, <1>11, <1>12, <1>13, <1>14, <1>15, <1>16, <1>17
  DEF Next, ConnectSteps, RefreshSteps

-----------------------------------------------------------------------------
\* The type of what neither loop nor window is about.
RestOK ==
  /\ alive \in BOOLEAN /\ reusing \in BOOLEAN /\ bearer \in BOOLEAN /\ asked \in BOOLEAN
  /\ sent \in [Paths -> Codes]
  /\ broker \in {"none", "dialing", "subscribing", "live"}
  /\ reuseFailures \in 0 .. ReuseTries - 1
  /\ bundle \in {"none", "good", "unusable"}
  /\ code \in Codes
  /\ fails \in Nat
  /\ refreshIn \in Nat \cup {Off}

BudgetInv == LoopInv /\ DialInv /\ LoginInv /\ RestOK

\* Every step keeps the rest of the types.
LEMMA RestStep ==
  ASSUME RestOK, LoginInv, [Next]_vars
  PROVE  RestOK'
<1> USE DEF RestOK, Codes, Paths
<1>0. LoginWait \in Nat
  BY LoginWaitFacts
<1>1. CASE Connect
  <2>1. reusing' \in BOOLEAN /\ bearer' \in BOOLEAN
    BY <1>1 DEF Connect
  <2>2. sent' \in [Paths -> Codes]
    BY <1>1 DEF Connect, SendLogin
  <2>3. broker' \in {"none", "dialing", "subscribing", "live"}
    BY <1>1 DEF Connect, OpenBroker
  <2>4. refreshIn' \in Nat \cup {Off}
    BY <1>1 DEF Connect, ArmRefresh
  <2>5. UNCHANGED <<alive, reuseFailures, bundle, code, asked, fails>>
    BY <1>1 DEF Connect
  <2> QED BY <2>1, <2>2, <2>3, <2>4, <2>5
<1>2. CASE ConnectAccepted
  BY <1>2 DEF ConnectAccepted
<1>3. CASE KeyArrived
  BY <1>3 DEF KeyArrived, OpenBroker, ArmRefresh, Off
<1>4. ASSUME NEW answer \in Answers \ {"accepted"}, ConnectRejected(answer)
      PROVE  RestOK'
  <2>1. fails' \in Nat
    BY <1>4 DEF ConnectRejected, ConnectFails
  <2>2. code' \in Codes
    BY <1>4 DEF ConnectRejected, SpendCode
  <2>3. asked' \in BOOLEAN
    BY <1>4 DEF ConnectRejected
  <2>4. sent' \in [Paths -> Codes]
    BY <1>4 DEF ConnectRejected
  <2>5. UNCHANGED <<alive, broker, reusing, reuseFailures, bundle, bearer, refreshIn>>
    BY <1>4 DEF ConnectRejected
  <2> QED BY <2>1, <2>2, <2>3, <2>4, <2>5
<1>5. ASSUME NEW counted \in BOOLEAN, KeyFailed(counted)
      PROVE  RestOK'
  BY <1>5 DEF KeyFailed, ConnectFails
<1>6. CASE Connack
  <2>1. reusing' \in BOOLEAN
    BY <1>6 DEF Connack
  <2>2. reuseFailures' \in 0 .. ReuseTries - 1
    BY <1>6, AccountAssumption DEF Connack
  <2>3. broker' \in {"none", "dialing", "subscribing", "live"}
    BY <1>6 DEF Connack
  <2>4. UNCHANGED <<alive, sent, bundle, bearer, code, asked, fails, refreshIn>>
    BY <1>6 DEF Connack
  <2> QED BY <2>1, <2>2, <2>3, <2>4
<1>7. CASE Subscribed
  BY <1>7 DEF Subscribed
<1>8. ASSUME NEW refused \in BOOLEAN, BrokerClosed(refused)
      PROVE  RestOK'
  <2>1. reuseFailures' \in 0 .. ReuseTries - 1 /\ bundle' \in {"none", "good", "unusable"}
    BY <1>8, AccountAssumption DEF BrokerClosed
  <2>2. /\ broker' = "none" /\ reusing' = FALSE
        /\ UNCHANGED <<alive, sent, bearer, code, asked, fails, refreshIn>>
    BY <1>8 DEF BrokerClosed
  <2> QED BY <2>1, <2>2
<1>9. CASE RefreshFires \/ AppApiTurnsBearerDown
  BY <1>0, <1>9 DEF RefreshFires, AppApiTurnsBearerDown, RefreshBearer, ArmRefresh, SendLogin,
     Off
<1>10. ASSUME NEW answer \in {"accepted", "unusable"}, RefreshAccepted(answer)
       PROVE  RestOK'
  BY <1>10 DEF RefreshAccepted, SpendCode
<1>11. ASSUME NEW answer, RefreshRejected(answer)
       PROVE  RestOK'
  <2>1. fails' \in Nat
    BY <1>11 DEF RefreshRejected
  <2>5. asked' \in BOOLEAN
    BY <1>11 DEF RefreshRejected
  <2>2. refreshIn' \in Nat \cup {Off}
    BY <1>11 DEF RefreshRejected, ArmRefresh
  <2>3. code' \in Codes
    BY <1>11 DEF RefreshRejected, SpendCode
  <2>4. sent' \in [Paths -> Codes]
        /\ UNCHANGED <<alive, broker, reusing, reuseFailures, bundle, bearer>>
    BY <1>11 DEF RefreshRejected
  <2> QED BY <2>1, <2>2, <2>3, <2>4, <2>5
<1>12. ASSUME NEW arrived \in BOOLEAN, RefreshKeyAnswered(arrived)
       PROVE  RestOK'
  BY <1>12 DEF RefreshKeyAnswered, ArmRefresh, Off
<1>13. CASE ProbeTest \/ \E answer \in Answers : ProbeAnswered(answer)
  BY <1>13 DEF ProbeTest, ProbeAnswered
<1>14. CASE BundleExpires
  BY <1>14 DEF BundleExpires
<1>15. CASE Tick
  BY <1>15 DEF Tick, Off
<1>16. CASE Disconnect
  BY <1>16 DEF Disconnect
<1>17. CASE UNCHANGED vars
  BY <1>17 DEF vars
<1> QED
  BY <1>1, <1>2, <1>3, <1>4, <1>5, <1>6, <1>7, <1>8, <1>9, <1>10, <1>11, <1>12, <1>13,
     <1>14, <1>15, <1>16, <1>17
  DEF Next, ConnectSteps, BrokerSteps, RefreshSteps

\* The channel starts with empty windows.
LEMMA BudgetInit == Init => BudgetInv
<1> SUFFICES ASSUME Init PROVE BudgetInv
  OBVIOUS
<1>1. /\ <<>> \in Seq(1 .. DialWindow) /\ <<>> \in Seq(1 .. LoginWindow) /\ Len(<<>>) = 0
  BY EmptySeq
<1>2. WindowOf(dials, DialWindow) /\ Len(dials) = 0
  BY <1>1 DEF Init, WindowOf
<1>3. WindowOf(logins, LoginWindow) /\ Len(logins) = 0
  BY <1>1 DEF Init, WindowOf
<1>4. DialInv
  BY <1>2, AccountAssumption DEF Init, DialInv, RoomIn
<1>5. Waiting = {}
  BY DEF Init, Waiting
<1>6. Cardinality(Waiting) = 0 /\ Cardinality(Paths) >= 1 /\ Cardinality(Paths) \in Nat
  <2>1. Paths # {}
    BY DEF Paths
  <2>2. Cardinality(Paths) # 0
    BY <2>1, ThreePaths, FS_EmptySet
  <2> QED BY <1>5, <2>2, ThreePaths, FS_EmptySet
<1>7. LoginInv
  BY <1>3, <1>6, AccountAssumption DEF LoginInv
<1>8. RestOK
  <2>1. alive \in BOOLEAN /\ reusing \in BOOLEAN /\ bearer \in BOOLEAN /\ asked \in BOOLEAN
    BY DEF Init
  <2>2. sent \in [Paths -> Codes] /\ code \in Codes
    BY DEF Init, Codes
  <2>3. /\ reuseFailures \in 0 .. ReuseTries - 1 /\ fails \in Nat
        /\ refreshIn \in Nat \cup {Off}
    BY AccountAssumption DEF Init
  <2>4. /\ broker \in {"none", "dialing", "subscribing", "live"}
        /\ bundle \in {"none", "good", "unusable"}
    BY DEF Init
  <2> QED BY <2>1, <2>2, <2>3, <2>4 DEF RestOK
<1> QED BY <1>4, <1>7, <1>8, LoopInit DEF BudgetInv

\* Neither the broker nor the login is asked more often than its window allows:
\* never more than MaxDials dials in a window, however the connect loop, a pause
\* for a full login window and a retired bundle follow each other, and never
\* more logins than the cap and one for each other path that waits for Govee.
THEOREM BudgetsKept == Spec => []BudgetsAreKept
<1>1. BudgetInv /\ [Next]_vars => BudgetInv'
  BY LoopStep, DialStep, LoginStep, RestStep DEF BudgetInv
<1>2. BudgetInv => BudgetsAreKept
  <2> SUFFICES ASSUME BudgetInv PROVE BudgetsAreKept
    OBVIOUS
  <2>1. TypeOK
    BY DEF BudgetInv, LoopInv, PhaseOK, DialInv, LoginInv, RestOK, WindowOf, TypeOK
  <2>2. DialsAreSpared
    BY DEF BudgetInv, DialInv, DialsAreSpared
  <2>3. LoginsBounded
    <3>1. Waiting \subseteq Paths /\ Len(logins) \in Nat
      BY LenProperties DEF Waiting, BudgetInv, LoginInv, WindowOf
    <3>2. Cardinality(Waiting) \in Nat /\ Cardinality(Paths) \in Nat
      BY <3>1, ThreePaths, FS_Subset, FS_CardinalityType
    <3> QED BY <3>1, <3>2, AccountAssumption DEF BudgetInv, LoginInv, LoginsBounded
  <2> QED BY <2>1, <2>2, <2>3 DEF BudgetsAreKept
<1> QED BY BudgetInit, <1>1, <1>2, PTL DEF Spec

-----------------------------------------------------------------------------
(***************************************************************************)
(* Startup: the phases of onReady, the stop that may come at any wait of    *)
(* them, and what a process leaves to the next.                             *)
(***************************************************************************)
BeforeTree == {"prepare", "build", "creds", "login", "list", "members", "drain"}
BeforeStates == BeforeTree \cup {"leaving", "read", "migrate"}
Live == {"creds", "login", "list", "members", "drain", "read", "migrate", "subscribe", "up"}

\* A setting that is left over was not corrected yet.
LeftoversAreNew == \A c \in leftover : fixes[c] = 0

\* Clients run only in a start that went on and was not stopped.
ClientsNeedStart == running # {} => at \in Live /\ ~stopping
LinksNeedClients == links \subseteq running

\* What the drain let through is built and stays so; until then nothing is written.
EarlyAreBuilt == \A d \in early : tree[d] = "built"
NothingWrittenYet ==
  /\ at \in BeforeTree => rash = {}
  /\ at \in BeforeStates => "states" \notin done
  /\ EarlyWritesWait

\* What a device says during the start is kept; behind it, it is what is shown,
\* unless a read the limiter holds can still come.
WordsAreKept ==
  /\ "states" \notin done => held = word
  /\ ~setting.busy => late = {} /\ DeviceWordLandsLast

\* Behind the first phases a running adapter's markers are of this run.
ClaimsAreOwn == at \in Live /\ ~stopping => \A d \in Device : marker[d] => word[d] # NoWord

StartInv ==
  /\ StartTypeOK /\ LeftoversAreNew
  /\ ClientsNeedStart /\ EarlyAreBuilt
  /\ NothingWrittenYet /\ WordsAreKept /\ ClaimsAreOwn

-----------------------------------------------------------------------------
\* A first process finds no claim, no client and nothing built.
LEMMA InitStart == StartInit => StartInv
<1> SUFFICES ASSUME StartInit PROVE StartInv
  OBVIOUS
<1> USE StartupAssumption DEF StartInit
<1>1. StartTypeOK
  <2>0. stopping \in BOOLEAN /\ setting \in Settings /\ leftover \subseteq Corrections
    OBVIOUS
  <2>1. at \in Waits \cup {"down", "leaving", "ended", "up"} /\ fixes \in [Corrections -> 0..1]
    OBVIOUS
  <2>2. /\ runs \in 0..MaxRuns /\ spoken \in 0..MaxSpoken /\ readySaid \in 0..1
    OBVIOUS
  <2>3. /\ running \subseteq Clients /\ timers \subseteq Timers /\ links \subseteq running
        /\ done \subseteq {"scan", "cloud", "poll", "states"}
    OBVIOUS
  <2>4. /\ tree \in [Device -> {"none", "building", "built"}]
        /\ queue \subseteq Device /\ early \subseteq Device /\ late \subseteq Device
        /\ readable \in BOOLEAN
    OBVIOUS
  <2>5. /\ word \in [Device -> Word \cup {NoWord}] /\ held \in [Device -> Word \cup {NoWord}]
        /\ shown \in [Device -> Word \cup {NoWord}] /\ marker \in [Device -> BOOLEAN]
        /\ rash \subseteq Device /\ found \subseteq LanDevice
    BY DEF Nothing
  <2> QED BY <2>0, <2>1, <2>2, <2>3, <2>4, <2>5 DEF StartTypeOK
<1>2. LeftoversAreNew /\ ClientsNeedStart /\ EarlyAreBuilt
  BY DEF LeftoversAreNew, ClientsNeedStart, EarlyAreBuilt
<1>3. NothingWrittenYet /\ WordsAreKept /\ ClaimsAreOwn
  BY DEF NothingWrittenYet, BeforeTree, BeforeStates, EarlyWritesWait, WordsAreKept,
         DeviceWordLandsLast, ClaimsAreOwn, Live, Nothing
<1> QED BY <1>1, <1>2, <1>3 DEF StartInv

\* The settings of an installation stay.
LEMMA SettingsStay == ASSUME [StartNext]_startVars PROVE setting' = setting
BY DEF StartNext, PhaseStep, TimerStep, DeviceStep, startVars, Boot, IdMoveFails, Prepared, Built,
   AccountOpened, CloudStarted, MembersLoaded, Drained, StateRead, StatesReady, Finished, Correct,
   ListSettled, SafetyTimer, FlagTimer, Found, TreeBuilt, Reports, LateRead, SyncRound, Linked,
   Unlinked, Unload, Exit, Crash

\* Settings that are left over.
LEMMA CorrectionsStep ==
  ASSUME StartInv, [StartNext]_startVars
  PROVE  leftover' \subseteq Corrections /\ fixes' \in [Corrections -> 0..1] /\ LeftoversAreNew'
<1> USE DEF StartInv, StartTypeOK, LeftoversAreNew
<1>1. ASSUME NEW c \in Corrections, Correct(c)
      PROVE  leftover' \subseteq Corrections /\ fixes' \in [Corrections -> 0..1] /\ LeftoversAreNew'
  BY <1>1 DEF Correct, Cleared
<1>2. CASE UNCHANGED <<leftover, fixes>>
  BY <1>2
<1> QED
  BY <1>1, <1>2 DEF StartNext, PhaseStep, TimerStep, DeviceStep, startVars, Boot, IdMoveFails, Prepared,
     Built, AccountOpened, CloudStarted, MembersLoaded, Drained, StateRead, StatesReady, Finished,
     ListSettled, SafetyTimer, FlagTimer, Found, TreeBuilt, Reports, LateRead, SyncRound, Linked,
     Unlinked, Unload, Exit, Crash

\* Where a start stands, and the clients it started.
LEMMA ClientsStep ==
  ASSUME StartInv, [StartNext]_startVars
  PROVE  /\ at' \in Waits \cup {"down", "leaving", "ended", "up"} /\ stopping' \in BOOLEAN
         /\ running' \subseteq Clients /\ links' \subseteq running'
         /\ ClientsNeedStart'
<1> DEFINE Typed == /\ at' \in Waits \cup {"down", "leaving", "ended", "up"} /\ stopping' \in BOOLEAN
                    /\ running' \subseteq Clients /\ links' \subseteq running'
                    /\ ClientsNeedStart'
<1> USE DEF StartInv, StartTypeOK, ClientsNeedStart, Live, Waits, Clients, EndedOnStop, Proceed
<1>1. CASE Boot
  BY <1>1 DEF Boot, Fresh
<1>2. CASE IdMoveFails
  BY <1>2 DEF IdMoveFails
<1>3. CASE Prepared
  BY <1>3 DEF Prepared
<1>4. CASE Built
  BY <1>4 DEF Built, LanStarted
<1>5. CASE AccountOpened
  BY <1>5 DEF AccountOpened, Dialled
<1>6. CASE CloudStarted
  BY <1>6 DEF CloudStarted
<1>7. CASE MembersLoaded \/ Drained \/ StateRead \/ StatesReady \/ Finished
  <2>1. UNCHANGED <<stopping, running, links>>
    BY <1>7 DEF MembersLoaded, Drained, StateRead, StatesReady, Finished
  <2>2. /\ at \in {"members", "drain", "read", "migrate", "subscribe"}
        /\ \E next \in {"drain", "read", "migrate", "subscribe", "up"} : Proceed(next)
    BY <1>7 DEF MembersLoaded, Drained, StateRead, StatesReady, Finished
  <2> QED BY <2>1, <2>2
<1>8. ASSUME NEW c \in Corrections, Correct(c) PROVE Typed
  BY <1>8 DEF Correct
<1>9. ASSUME NEW ok \in BOOLEAN, ListSettled(ok) PROVE Typed
  BY <1>9 DEF ListSettled
<1>10. ASSUME NEW c \in Clients, Linked(c) \/ Unlinked(c) PROVE Typed
  <2>1. /\ UNCHANGED <<at, stopping, running>>
        /\ (c \in running /\ links' = links \cup {c}) \/ links' = links \ {c}
    BY <1>10 DEF Linked, Unlinked
  <2> QED BY <2>1
<1>11. CASE Unload \/ Exit
  BY <1>11 DEF Unload, Exit
<1>12. CASE Crash
  BY <1>12 DEF Crash, Fresh
<1>13. CASE UNCHANGED <<at, stopping, running, links>>
  BY <1>13
<1>14. TimerStep \/ DeviceStep \/ UNCHANGED startVars => UNCHANGED <<at, stopping, running, links>>
  BY DEF TimerStep, DeviceStep, SafetyTimer, FlagTimer, Found, TreeBuilt, Reports, LateRead, SyncRound,
         startVars
<1> QED
  BY <1>1, <1>2, <1>3, <1>4, <1>5, <1>6, <1>7, <1>8, <1>9, <1>10, <1>11, <1>12, <1>13, <1>14
  DEF StartNext, PhaseStep

\* The counters, timers and flags of a process.
LEMMA FlagsStep ==
  ASSUME StartInv, [StartNext]_startVars
  PROVE  /\ runs' \in 0..MaxRuns /\ spoken' \in 0..MaxSpoken
         /\ timers' \subseteq Timers
         /\ done' \subseteq {"scan", "cloud", "poll", "states"} /\ readySaid' \in 0..1
         /\ readable' \in BOOLEAN
<1> DEFINE Typed == /\ runs' \in 0..MaxRuns /\ spoken' \in 0..MaxSpoken
                    /\ timers' \subseteq Timers
                    /\ done' \subseteq {"scan", "cloud", "poll", "states"} /\ readySaid' \in 0..1
                    /\ readable' \in BOOLEAN
<1> USE StartupAssumption DEF StartInv, StartTypeOK, Timers, EndedOnStop
<1>1. CASE Boot \/ Crash
  <2>1. /\ timers' = {} /\ done' = {} /\ readySaid' = 0 /\ readable' = FALSE /\ spoken' = 0
        /\ runs' = runs \/ (runs < MaxRuns /\ runs' = runs + 1)
    BY <1>1 DEF Boot, Crash, Fresh
  <2>2. runs' \in 0..MaxRuns /\ spoken' \in 0..MaxSpoken
    BY <2>1
  <2>3. readable' \in BOOLEAN
    BY <2>1
  <2> QED BY <2>1, <2>2, <2>3
<1>2. CASE Built \/ CloudStarted
  BY <1>2 DEF Built, CloudStarted, LanStarted
<1>3. CASE MembersLoaded \/ StatesReady
  BY <1>3 DEF MembersLoaded, StatesReady
<1>0. \A f, up : Said(f, up) \in 0..1
  BY DEF Said
<1>4. CASE Finished \/ SafetyTimer
  <2>1. /\ UNCHANGED <<runs, spoken, done, readable>>
        /\ timers' \subseteq timers \cup StartTimers
        /\ readySaid' \in {Said(done, links), 1, readySaid}
    BY <1>4 DEF Finished, SafetyTimer
  <2> QED BY <1>0, <2>1 DEF StartTimers
<1>5. ASSUME NEW ok \in BOOLEAN, ListSettled(ok) PROVE Typed
  BY <1>5 DEF ListSettled
<1>6. CASE FlagTimer("scan", "scan") \/ FlagTimer("appInitial", "poll")
  <2>1. /\ UNCHANGED <<runs, spoken, readable>>
        /\ timers' \subseteq timers /\ done' \subseteq done \cup {"scan", "poll"}
        /\ readySaid' = Said(done', links)
    BY <1>6 DEF FlagTimer
  <2> QED BY <1>0, <2>1
<1>7. ASSUME NEW c \in Clients, Linked(c) \/ Unlinked(c) PROVE Typed
  <2>1. /\ UNCHANGED <<runs, spoken, timers, done, readable>>
        /\ readySaid' \in {Said(done, links'), readySaid}
    BY <1>7 DEF Linked, Unlinked
  <2> QED BY <1>0, <2>1
<1>8. ASSUME NEW d \in Device, NEW v \in Word, Reports(d, v) PROVE Typed
  BY <1>8 DEF Reports
<1>9. CASE Unload
  BY <1>9 DEF Unload
<1>10. CASE UNCHANGED <<runs, spoken, timers, done, readySaid, readable>>
  BY <1>10
<1> QED
  BY <1>1, <1>2, <1>3, <1>4, <1>5, <1>6, <1>7, <1>8, <1>9, <1>10
  DEF StartNext, PhaseStep, TimerStep, DeviceStep, startVars, IdMoveFails, Prepared, AccountOpened, Drained,
      StateRead, Correct, Found, TreeBuilt, LateRead, SyncRound, Exit

\* The devices and what is known of them.
LEMMA DevicesStep ==
  ASSUME StartInv, [StartNext]_startVars
  PROVE  /\ tree' \in [Device -> {"none", "building", "built"}]
         /\ queue' \subseteq Device /\ early' \subseteq Device /\ late' \subseteq Device
         /\ found' \subseteq LanDevice
         /\ EarlyAreBuilt'
<1> DEFINE Typed == /\ tree' \in [Device -> {"none", "building", "built"}]
                    /\ queue' \subseteq Device /\ early' \subseteq Device /\ late' \subseteq Device
                    /\ found' \subseteq LanDevice
                    /\ EarlyAreBuilt'
<1> USE StartupAssumption DEF StartInv, StartTypeOK, EarlyAreBuilt
<1>1. CASE Boot \/ Crash
  BY <1>1 DEF Boot, Crash, Fresh
<1>2. ASSUME NEW ds \in SUBSET Device, Listed(ds)
      PROVE  /\ tree' \in [Device -> {"none", "building", "built"}]
             /\ queue' \subseteq Device
             /\ \A d \in Device : tree[d] = "built" => tree'[d] = "built"
  BY <1>2 DEF Listed
<1>3. CASE CloudStarted
  <2>1. UNCHANGED <<early, late, found>> /\ (UNCHANGED <<tree, queue>> \/ Listed(Device) \/ Listed({}))
    BY <1>3 DEF CloudStarted
  <2> QED BY <1>2, <2>1
<1>4. ASSUME NEW ok \in BOOLEAN, ListSettled(ok) PROVE Typed
  <2>1. UNCHANGED <<early, late, found>> /\ (UNCHANGED <<tree, queue>> \/ Listed(Device))
    BY <1>4 DEF ListSettled
  <2> QED BY <1>2, <2>1
<1>5. CASE Drained
  BY <1>5 DEF Drained, DrainEnds
<1>6. CASE StateRead
  <2>1. late' \subseteq Device
    BY <1>6 DEF StateRead
  <2>2. UNCHANGED <<tree, queue, early, found>>
    BY <1>6 DEF StateRead
  <2> QED BY <2>1, <2>2
<1>7. ASSUME NEW d \in Device, Found(d) PROVE Typed
  <2>1. UNCHANGED <<early, late>> /\ found' = found \cup {d} /\ d \in LanDevice /\ Listed({d})
    BY <1>7 DEF Found
  <2> QED BY <1>2, <2>1
<1>8. ASSUME NEW d \in Device, TreeBuilt(d) PROVE Typed
  BY <1>8 DEF TreeBuilt
<1>9. ASSUME NEW d \in Device, NEW v \in Word, LateRead(d, v) PROVE Typed
  BY <1>9 DEF LateRead
<1>10. CASE UNCHANGED <<tree, queue, early, late, found>>
  BY <1>10
<1> QED
  BY <1>1, <1>3, <1>4, <1>5, <1>6, <1>7, <1>8, <1>9, <1>10
  DEF StartNext, PhaseStep, TimerStep, DeviceStep, startVars, IdMoveFails, Prepared, Built, AccountOpened,
      MembersLoaded, StatesReady, Finished, Correct, SafetyTimer, FlagTimer, Reports, SyncRound, Linked,
      Unlinked, Unload, Exit

\* What is shown, kept and written too early.
LEMMA WordsStep ==
  ASSUME StartInv, [StartNext]_startVars
  PROVE  /\ word' \in [Device -> Word \cup {NoWord}] /\ held' \in [Device -> Word \cup {NoWord}]
         /\ shown' \in [Device -> Word \cup {NoWord}] /\ rash' \subseteq Device
         /\ NothingWrittenYet' /\ WordsAreKept'
<1> DEFINE Typed == /\ word' \in [Device -> Word \cup {NoWord}] /\ held' \in [Device -> Word \cup {NoWord}]
                    /\ shown' \in [Device -> Word \cup {NoWord}] /\ rash' \subseteq Device
           Orderly == NothingWrittenYet' /\ WordsAreKept'
<1> SUFFICES Typed /\ Orderly
  OBVIOUS
<1>0. setting' = setting
  BY SettingsStay
<1> USE StartupAssumption, <1>0 DEF StartInv, StartTypeOK, EndedOnStop, Proceed, NothingWrittenYet,
        EarlyWritesWait, WordsAreKept, DeviceWordLandsLast, BeforeTree, BeforeStates
<1>1. CASE Boot \/ Crash
  <2>1. /\ done' = {} /\ early' = {} /\ late' = {} /\ word' = Nothing /\ held' = Nothing /\ rash' = {}
        /\ shown' = shown
    BY <1>1 DEF Boot, Crash, Fresh
  <2> QED BY <2>1 DEF Nothing
<1>2. CASE Drained
  <2>1. /\ UNCHANGED <<word, held, shown, rash, done, late, stopping>> /\ early' = queue
        /\ at = "drain" /\ at' \in {"ended", "read"}
    BY <1>2 DEF Drained
  <2> QED BY <2>1
<1>3. CASE StateRead
  <2>1. /\ UNCHANGED <<word, held, done, early, stopping>> /\ at = "read" /\ at' \in {"ended", "migrate"}
    BY <1>3 DEF StateRead
  <2>2. shown' \in [Device -> Word \cup {NoWord}]
    BY <1>3 DEF StateRead
  <2>3. /\ ~setting.busy => late' = {}
        /\ \A d \in rash' \ rash : d \in Device /\ tree[d] # "built"
    BY <1>3 DEF StateRead
  <2>4. "states" \notin done
    BY <2>1
  <2>5. early' \cap rash' = {} /\ rash' \subseteq Device
    BY <2>1, <2>3 DEF EarlyAreBuilt
  <2> QED BY <2>1, <2>2, <2>3, <2>4, <2>5
<1>4. ASSUME NEW d \in Device, NEW v \in Word, LateRead(d, v) PROVE Typed /\ Orderly
  <2>1. /\ UNCHANGED <<at, stopping, word, held, rash, done, early>>
        /\ d \in late /\ late' = late \ {d} /\ (shown' = shown \/ shown' = [shown EXCEPT ![d] = v])
    BY <1>4 DEF LateRead
  <2> QED BY <2>1
<1>5. CASE StatesReady
  <2>1. /\ at = "migrate" /\ UNCHANGED <<stopping, word, early, late>>
        /\ at' = IF stopping THEN "ended" ELSE "subscribe"
    BY <1>5 DEF StatesReady
  <2>2. CASE stopping
    BY <1>5, <2>1, <2>2 DEF StatesReady
  <2>3. CASE ~stopping
    <3>1. /\ done' = done \cup {"states"} /\ shown' = Released /\ held' = Nothing
          /\ rash' = rash \cup {d \in Device : held[d] # NoWord /\ tree[d] # "built"}
      BY <1>5, <2>3 DEF StatesReady
    <3>2. held = word
      BY <2>1
    <3>3. early' \cap rash' = {}
      BY <2>1, <3>1 DEF EarlyAreBuilt
    <3>4. Typed
      BY <2>1, <3>1 DEF Released, Nothing
    <3>5. \A d \in Device : word[d] # NoWord => shown'[d] = word[d]
      BY <3>1, <3>2 DEF Released
    <3> QED BY <2>1, <3>1, <3>3, <3>4, <3>5
  <2> QED BY <2>2, <2>3
<1>6. ASSUME NEW d \in Device, NEW v \in Word, Reports(d, v) PROVE Typed /\ Orderly
  <2>1. /\ UNCHANGED <<at, stopping, done, early, late>> /\ word' = [word EXCEPT ![d] = v]
    BY <1>6 DEF Reports
  <2>2. CASE "states" \in done
    <3>1. /\ held' = held /\ rash' = IF tree[d] = "built" THEN rash ELSE rash \cup {d}
          /\ shown' = IF ~stopping THEN [shown EXCEPT ![d] = v] ELSE shown
      BY <1>6, <2>2 DEF Reports, MayWrite
    <3> QED BY <2>1, <2>2, <3>1 DEF EarlyAreBuilt
  <2>3. CASE "states" \notin done
    <3>1. UNCHANGED <<shown, rash>> /\ held' = [held EXCEPT ![d] = v]
      BY <1>6, <2>3 DEF Reports, Kept
    <3> QED BY <2>1, <2>3, <3>1
  <2> QED BY <2>2, <2>3
<1>7. ASSUME UNCHANGED <<word, held, shown, rash, early, late>>,
             "states" \in done' <=> "states" \in done, stopping' = FALSE => stopping = FALSE,
             at' \in BeforeTree => at \in BeforeTree, at' \in BeforeStates => at \in BeforeStates
      PROVE  Typed /\ Orderly
  BY <1>7
<1>8. CASE IdMoveFails \/ Prepared \/ Built \/ AccountOpened \/ CloudStarted
  <2>1. /\ UNCHANGED <<word, held, shown, rash, early, late, done>> /\ at \in BeforeTree
        /\ at' \in BeforeTree \cup {"ended"}
    BY <1>8 DEF IdMoveFails, Prepared, Built, AccountOpened, CloudStarted
  <2>2. stopping' = stopping
    BY <1>8 DEF IdMoveFails, Prepared, Built, AccountOpened, CloudStarted
  <2> QED BY <1>7, <2>1, <2>2
<1>9. CASE MembersLoaded
  <2>1. /\ UNCHANGED <<word, held, shown, rash, early, late>> /\ at = "members" /\ at' \in {"drain", "ended"}
    BY <1>9 DEF MembersLoaded
  <2>2. stopping' = stopping /\ ("states" \in done' <=> "states" \in done)
    BY <1>9 DEF MembersLoaded
  <2> QED BY <1>7, <2>1, <2>2
<1>10. ASSUME NEW ok \in BOOLEAN, ListSettled(ok) PROVE Typed /\ Orderly
  <2>1. /\ UNCHANGED <<word, held, shown, rash, early, late, done>> /\ at = "list" /\ at' \in {"members", "ended"}
    BY <1>10 DEF ListSettled
  <2>2. stopping' = stopping
    BY <1>10 DEF ListSettled
  <2> QED BY <1>7, <2>1, <2>2
<1>11. CASE Finished \/ Unload \/ Exit
  <2>1. /\ UNCHANGED <<word, held, shown, rash, early, late, done>> /\ at' \in {at, "up", "ended", "down"}
    BY <1>11 DEF Finished, Unload, Exit
  <2>2. stopping' = FALSE => stopping = FALSE
    BY <1>11 DEF Finished, Unload, Exit
  <2> QED BY <1>7, <2>1, <2>2
<1>12. ASSUME NEW c \in Corrections, Correct(c) PROVE Typed /\ Orderly
  <2>1. /\ UNCHANGED <<word, held, shown, rash, early, late, done>> /\ at = "prepare" /\ at' = "leaving"
    BY <1>12 DEF Correct
  <2>2. stopping' = stopping
    BY <1>12 DEF Correct
  <2> QED BY <1>7, <2>1, <2>2
<1>13. CASE TimerStep
  <2>1. UNCHANGED <<word, held, shown, rash, early, late, at>> /\ ("states" \in done' <=> "states" \in done)
    BY <1>13 DEF TimerStep, SafetyTimer, FlagTimer
  <2>2. stopping' = stopping
    BY <1>13 DEF TimerStep, SafetyTimer, FlagTimer
  <2> QED BY <1>7, <2>1, <2>2
<1>14. CASE UNCHANGED <<word, held, shown, rash, early, late, done, at, stopping>>
  BY <1>7, <1>14
<1>15. /\ \A d \in Device : Found(d) \/ TreeBuilt(d) \/ (\E up \in BOOLEAN : SyncRound(d, up))
            => UNCHANGED <<word, held, shown, rash, early, late, done, at, stopping>>
       /\ \A c \in Clients : Linked(c) \/ Unlinked(c)
            => UNCHANGED <<word, held, shown, rash, early, late, done, at, stopping>>
       /\ UNCHANGED startVars => UNCHANGED <<word, held, shown, rash, early, late, done, at, stopping>>
  BY DEF Found, TreeBuilt, SyncRound, Linked, Unlinked, startVars
<1> HIDE DEF Typed, Orderly
<1> QED
  BY <1>1, <1>2, <1>3, <1>4, <1>5, <1>6, <1>8, <1>9, <1>10, <1>11, <1>12, <1>13, <1>14, <1>15
  DEF StartNext, PhaseStep, DeviceStep

\* What the markers claim.
LEMMA MarkersStep ==
  ASSUME StartInv, [StartNext]_startVars
  PROVE  marker' \in [Device -> BOOLEAN] /\ ClaimsAreOwn'
<1> DEFINE Goal == marker' \in [Device -> BOOLEAN] /\ ClaimsAreOwn'
<1> USE StartupAssumption DEF StartInv, StartTypeOK, ClaimsAreOwn, Live, EndedOnStop, Proceed, MayWrite
<1>1. CASE Boot \/ Crash
  <2>1. marker' = marker /\ at' \notin Live
    BY <1>1 DEF Boot, Crash
  <2> QED BY <2>1
<1>2. CASE Built
  BY <1>2 DEF Built, OldMarkers
<1>3. CASE Unload
  <2>1. stopping' = TRUE /\ (marker' = marker \/ marker' = OldMarkers)
    BY <1>3 DEF Unload
  <2> QED BY <2>1 DEF OldMarkers
<1>4. ASSUME NEW d \in Device, NEW v \in Word, Reports(d, v) PROVE Goal
  <2>1. UNCHANGED <<at, stopping>> /\ word' = [word EXCEPT ![d] = v] /\ v # NoWord
    BY <1>4 DEF Reports
  <2>2. marker' = IF ~stopping THEN [marker EXCEPT ![d] = TRUE] ELSE marker
    BY <1>4 DEF Reports
  <2> QED BY <2>1, <2>2
<1>5. ASSUME NEW d \in Device, NEW up \in BOOLEAN, SyncRound(d, up) PROVE Goal
  <2>1. UNCHANGED <<at, stopping, word>> /\ (up => word[d] # NoWord)
    BY <1>5 DEF SyncRound
  <2>2. marker' = IF ~stopping THEN [marker EXCEPT ![d] = up] ELSE marker
    BY <1>5 DEF SyncRound
  <2> QED BY <2>1, <2>2
<1>6. ASSUME UNCHANGED <<marker, word, stopping>>, at' \in Live => at \in Live \/ stopping
      PROVE  Goal
  BY <1>6
<1>7. CASE IdMoveFails \/ Prepared \/ Exit
  <2>1. UNCHANGED <<marker, word, stopping>> /\ at' \notin Live
    BY <1>7 DEF IdMoveFails, Prepared, Exit
  <2> QED BY <1>6, <2>1
<1>8. CASE AccountOpened \/ CloudStarted \/ MembersLoaded \/ Drained \/ StateRead \/ StatesReady \/ Finished
  <2>1. UNCHANGED <<marker, word, stopping>> /\ at \in Live
    BY <1>8 DEF AccountOpened, CloudStarted, MembersLoaded, Drained, StateRead, StatesReady, Finished
  <2> QED BY <1>6, <2>1
<1>9. ASSUME NEW ok \in BOOLEAN, ListSettled(ok) PROVE Goal
  <2>1. UNCHANGED <<marker, word, stopping>> /\ at \in Live
    BY <1>9 DEF ListSettled
  <2> QED BY <1>6, <2>1
<1>10. ASSUME NEW c \in Corrections, Correct(c) PROVE Goal
  <2>1. UNCHANGED <<marker, word, stopping>> /\ at' \notin Live
    BY <1>10 DEF Correct
  <2> QED BY <1>6, <2>1
<1>11. CASE UNCHANGED <<at, marker, word, stopping>>
  BY <1>6, <1>11
<1>12. /\ \A d \in Device : Found(d) \/ TreeBuilt(d) \/ (\E v \in Word : LateRead(d, v))
            => UNCHANGED <<at, marker, word, stopping>>
       /\ \A c \in Clients : Linked(c) \/ Unlinked(c) => UNCHANGED <<at, marker, word, stopping>>
       /\ TimerStep => UNCHANGED <<at, marker, word, stopping>>
       /\ UNCHANGED startVars => UNCHANGED <<at, marker, word, stopping>>
  BY DEF Found, TreeBuilt, LateRead, Linked, Unlinked, TimerStep, SafetyTimer, FlagTimer, startVars
<1> HIDE DEF Goal
<1> QED
  BY <1>1, <1>2, <1>3, <1>4, <1>5, <1>7, <1>8, <1>9, <1>10, <1>11, <1>12
  DEF StartNext, PhaseStep, DeviceStep, Goal

\* Every step keeps the invariant of the start.
LEMMA StartStep == StartInv /\ [StartNext]_startVars => StartInv'
<1> SUFFICES ASSUME StartInv, [StartNext]_startVars PROVE StartInv'
  OBVIOUS
<1>1. StartTypeOK'
  BY SettingsStay, CorrectionsStep, ClientsStep, FlagsStep, DevicesStep, WordsStep, MarkersStep
  DEF StartInv, StartTypeOK
<1> QED
  BY <1>1, CorrectionsStep, ClientsStep, DevicesStep, WordsStep, MarkersStep DEF StartInv

\* Nothing starts behind the stop.
LEMMA StopHolds ==
  ASSUME StartInv, [StartNext]_startVars
  PROVE  NothingStartsBehindStop
<1> SUFFICES ASSUME stopping, stopping' PROVE running' \subseteq running
  BY DEF NothingStartsBehindStop
<1>1. running = {}
  BY DEF StartInv, ClientsNeedStart
<1>2. running' = {}
  BY ClientsStep DEF ClientsNeedStart
<1> QED BY <1>2

\* Stopping takes every marker back, and nothing sets one behind it.
LEMMA StopGreys ==
  ASSUME StartInv, [StartNext]_startVars
  PROVE  StoppedIsGrey
<1> SUFFICES ASSUME stopping', IF stopping THEN Grey ELSE running # {} PROVE Grey'
  BY DEF StoppedIsGrey
<1> USE DEF Grey
<1>1. CASE Unload
  <2>1. ~stopping /\ running # {}
    BY <1>1 DEF Unload
  <2>2. at \in Live
    BY <2>1 DEF StartInv, ClientsNeedStart
  <2>3. Managed
    BY <2>2 DEF Managed, Live
  <2>4. marker' = OldMarkers
    BY <1>1, <2>3 DEF Unload
  <2> QED BY <2>4 DEF OldMarkers
<1>2. CASE marker' = marker /\ stopping' = stopping
  BY <1>2
<1>3. CASE Built
  BY <1>3 DEF Built, OldMarkers
<1>4. CASE Boot
  BY <1>4 DEF Boot
<1>5. CASE Crash
  BY <1>5 DEF Crash
<1>6. ASSUME NEW d \in Device, (\E v \in Word : Reports(d, v)) \/ (\E up \in BOOLEAN : SyncRound(d, up))
      PROVE  Grey'
  <2>1. stopping' = stopping
    BY <1>6 DEF Reports, SyncRound
  <2>2. stopping => marker' = marker
    BY <1>6 DEF Reports, SyncRound, MayWrite
  <2> QED BY <2>1, <2>2
<1>7. /\ \A d \in Device : Found(d) \/ TreeBuilt(d) \/ (\E v \in Word : LateRead(d, v))
           => marker' = marker /\ stopping' = stopping
      /\ \A c \in Clients : Linked(c) \/ Unlinked(c) => marker' = marker /\ stopping' = stopping
      /\ \A c \in Corrections : Correct(c) => marker' = marker /\ stopping' = stopping
      /\ \A ok \in BOOLEAN : ListSettled(ok) => marker' = marker /\ stopping' = stopping
      /\ TimerStep => marker' = marker /\ stopping' = stopping
      /\ UNCHANGED startVars => marker' = marker /\ stopping' = stopping
  BY DEF Found, TreeBuilt, LateRead, Linked, Unlinked, Correct, ListSettled, TimerStep, SafetyTimer,
         FlagTimer, startVars
<1>8. IdMoveFails \/ Prepared \/ AccountOpened \/ CloudStarted \/ MembersLoaded \/ Drained \/ StateRead
      \/ StatesReady \/ Finished \/ Exit => marker' = marker /\ stopping' = stopping
  BY DEF IdMoveFails, Prepared, AccountOpened, CloudStarted, MembersLoaded, Drained, StateRead,
         StatesReady, Finished, Exit
<1> HIDE DEF Grey
<1> QED
  BY <1>1, <1>2, <1>3, <1>4, <1>5, <1>6, <1>7, <1>8 DEF StartNext, PhaseStep, DeviceStep

\* For any devices, words and number of runs, with the stop or the end of the process at
\* any wait of the start: the tree is built before it is declared ready, nothing known
\* to the drain is written early, a device's word outlives the start, no marker is an old
\* claim, and behind the stop nothing starts and everything is grey (main.ts).
THEOREM StartStaysOrdered == StartSpec => StartIsOrdered
<1>1. StartInv => /\ StartTypeOK /\ ReadyMeansBuilt /\ EarlyWritesWait
                  /\ DeviceWordOutlivesStart /\ NoOldClaim
  <2> SUFFICES ASSUME StartInv
               PROVE  /\ StartTypeOK /\ ReadyMeansBuilt /\ EarlyWritesWait
                      /\ DeviceWordOutlivesStart /\ NoOldClaim
    OBVIOUS
  <2>1. StartTypeOK /\ ReadyMeansBuilt /\ EarlyWritesWait /\ DeviceWordOutlivesStart
    BY DEF StartInv, EarlyAreBuilt, ReadyMeansBuilt, NothingWrittenYet, WordsAreKept,
           DeviceWordOutlivesStart
  <2>2. NoOldClaim
    BY DEF StartInv, ClientsNeedStart, ClaimsAreOwn, NoOldClaim
  <2> QED BY <2>1, <2>2
<1>2. StartInv /\ [StartNext]_startVars => [NothingStartsBehindStop /\ StoppedIsGrey]_startVars
  BY StopHolds, StopGreys
<1> QED BY InitStart, StartStep, <1>1, <1>2, PTL DEF StartSpec, StartIsOrdered
=============================================================================
