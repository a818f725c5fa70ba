---------------------------- MODULE CommandSend ----------------------------
(***************************************************************************)
(* A cloud command on its way through the limiter: sendBudgeted and         *)
(* sendOnce of src/lib/command-router.ts over RateLimiter.  A command that  *)
(* never reached Govee is sent again after a pause, unless a newer write to *)
(* the same datapoint has superseded it.  Every attempt is a limiter call   *)
(* of its own, on the control lane of the one device modelled.              *)
(***************************************************************************)
EXTENDS Naturals, FiniteSets

CONSTANTS
  Command,               \* commands, each issued once
  Slot, slotOf,          \* the datapoint a command writes: [Command -> Slot]
  MaxAttempts,           \* one more than COMMAND_RETRY_DELAYS_MS has entries
  device, DeviceBurst, AccountBurst, PerDay, MaxQueueLength

ASSUME CommandAssumption ==
  /\ IsFiniteSet(Command)
  /\ slotOf \in [Command -> Slot]
  /\ MaxAttempts \in Nat \ {0}

ASSUME SendLimits == {DeviceBurst, AccountBurst, PerDay, MaxQueueLength} \subseteq Nat \ {0}

VARIABLES
  stopped, queue, walk, used, deviceTokens, accountTokens, callsToday, callsTodayPerDevice,
  notDeliveredToday, thisMinute, thisDay, status, promise,    \* the limiter's
  phase,                 \* where each sendBudgeted is
  attempt,               \* its loop counter
  seq,                   \* the sequence number it was given
  sendSeq                \* the latest sequence number per slot

Attempt == Command \X (1..MaxAttempts)

Limiter == INSTANCE RateLimiter WITH
  Call <- Attempt,
  Device <- {device},
  laneOf <- [c \in Attempt |-> [kind |-> "device-control", deviceKey |-> device]],
  priorityOf <- [c \in Attempt |-> 0],
  Budgeted <- {}, Tracked <- Attempt,
  AccountListPerMinute <- 1, AppApiPerMinute <- 1, DeviceReadPerMinute <- 1,
  AppliancePerDay <- 1

limiterVars == <<stopped, queue, walk, used, deviceTokens, accountTokens, callsToday,
                 callsTodayPerDevice, notDeliveredToday, thisMinute, thisDay, status, promise>>
sendVars == <<phase, attempt, seq, sendSeq>>
commandVars == <<limiterVars, sendVars>>

SendTypeOK ==
  /\ Limiter!TypeOK
  /\ phase \in [Command -> {"new", "sending", "pausing", "delivered", "failed"}]
  /\ attempt \in [Command -> 0..MaxAttempts]
  /\ seq \in [Command -> Nat]
  /\ sendSeq \in [Slot -> Nat]

SendInit ==
  /\ Limiter!Init
  /\ phase = [w \in Command |-> "new"]
  /\ attempt = [w \in Command |-> 0]
  /\ seq = [w \in Command |-> 0]
  /\ sendSeq = [s \in Slot |-> 0]

Superseded(w) == sendSeq[slotOf[w]] # seq[w]

SendOnce(w, n) == Limiter!ExecuteTracked(<<w, n>>)

Send(w) ==
  /\ phase[w] = "new"
  /\ sendSeq' = [sendSeq EXCEPT ![slotOf[w]] = @ + 1]
  /\ seq' = [seq EXCEPT ![w] = sendSeq[slotOf[w]] + 1]
  /\ phase' = [phase EXCEPT ![w] = "sending"]
  /\ attempt' = [attempt EXCEPT ![w] = 1]
  /\ SendOnce(w, 1)

\* mutant: every failure is sent again, also one Govee may have received
MutNeverSent(w) == promise[<<w, attempt[w]>>] = "rejected"

\* err.neverSent: no request of this attempt reached Govee
NeverSent(w) ==
  /\ promise[<<w, attempt[w]>>] = "rejected"
  /\ status[<<w, attempt[w]>>] = "given-back"

\* The awaited attempt has settled: done, pause before the next one, or give up.
\* inWindow: the next attempt would still start inside COMMAND_RETRY_WINDOW_MS.
Continue(w, inWindow) ==
  LET again == NeverSent(w) /\ attempt[w] < MaxAttempts /\ inWindow /\ ~Superseded(w)
      how == promise[<<w, attempt[w]>>]
  IN  /\ phase[w] = "sending"
      /\ how \in {"resolved", "rejected"}
      /\ phase' = [phase EXCEPT ![w] = IF how = "resolved" THEN "delivered"
                                       ELSE IF again THEN "pausing" ELSE "failed"]
      /\ UNCHANGED <<limiterVars, attempt, seq, sendSeq>>

\* mutant: not asked again after the pause
MutResume(w) ==
  /\ phase[w] = "pausing"
  /\ phase' = [phase EXCEPT ![w] = "sending"]
  /\ attempt' = [attempt EXCEPT ![w] = @ + 1]
  /\ SendOnce(w, attempt[w] + 1)
  /\ UNCHANGED <<seq, sendSeq>>

\* The pause is over: superseded while waiting, or sent again.
Resume(w) ==
  /\ phase[w] = "pausing"
  /\ \/ /\ Superseded(w)
        /\ phase' = [phase EXCEPT ![w] = "failed"]
        /\ UNCHANGED <<limiterVars, attempt>>
     \/ /\ ~Superseded(w)
        /\ phase' = [phase EXCEPT ![w] = "sending"]
        /\ attempt' = [attempt EXCEPT ![w] = @ + 1]
        /\ SendOnce(w, attempt[w] + 1)
  /\ UNCHANGED <<seq, sendSeq>>

\* One command is one request, so an attempt that never left has failed.
LimiterStep ==
  /\ \/ \E c \in Attempt, neverSent, failed \in BOOLEAN :
          (neverSent => failed) /\ Limiter!Settle(c, neverSent, failed)
     \/ Limiter!ProcessTick
     \/ Limiter!WalkTurn
     \/ Limiter!ResetMinuteWindow
     \/ Limiter!ResetDaily
     \/ Limiter!RefillDevice(device)
     \/ Limiter!RefillAccount
     \/ Limiter!Stop
  /\ UNCHANGED sendVars

SendNext ==
  \/ \E w \in Command : Send(w) \/ Resume(w) \/ \E inWindow \in BOOLEAN : Continue(w, inWindow)
  \/ LimiterStep

SendSpec == SendInit /\ [][SendNext]_commandVars

\* Pauses end and awaited promises continue; the limiter is as fair as its timers.
\* A write has one attempt under way at a time.
SendFairSpec ==
  /\ SendSpec
  /\ \A w \in Command : SF_commandVars(Resume(w)) /\ WF_commandVars(\E inWindow \in BOOLEAN : Continue(w, inWindow))
  /\ WF_commandVars(Limiter!WalkTurn /\ UNCHANGED sendVars)
  /\ SF_commandVars(Limiter!ProcessTick /\ UNCHANGED sendVars)
  /\ SF_commandVars(Limiter!RefillDevice(device) /\ UNCHANGED sendVars)
  /\ SF_commandVars(Limiter!RefillAccount /\ UNCHANGED sendVars)
  /\ \A w \in Command :
       SF_commandVars(/\ \E n \in 1..MaxAttempts, neverSent, failed \in BOOLEAN :
                           (neverSent => failed) /\ Limiter!Settle(<<w, n>>, neverSent, failed)
                      /\ UNCHANGED sendVars)

-----------------------------------------------------------------------------
Delivered(w) == {n \in 1..MaxAttempts : status[<<w, n>>] = "done"}

\* A command is sent again only because Govee never received it, so Govee never
\* receives it twice - also when the attempts waited in the limiter's queue.
ReceivedAtMostOnce == \A w \in Command : Cardinality(Delivered(w)) <= 1

Older(w, v) == slotOf[w] = slotOf[v] /\ 0 < seq[w] /\ seq[w] < seq[v]

\* A write that leaves at once - the first time, or again after any number of pauses -
\* never follows a newer write to the same datapoint that Govee took.
NoRetryAfterNew ==
  \A w, v \in Command, n \in 1..MaxAttempts :
    Older(w, v) /\ Delivered(v) # {} =>
      ~(status[<<w, n>>] = "new" /\ status'[<<w, n>>] = "running")

\* Refuted: "an old value is never delivered after a new one", neither by a write that
\* waited in the limiter's queue.
NoOldAfterNew ==
  [][\A w, v \in Command, n \in 1..MaxAttempts :
       Older(w, v) /\ Delivered(v) # {} =>
         ~(status[<<w, n>>] # "running" /\ status'[<<w, n>>] = "running")]_commandVars

\* Every command ends: delivered, superseded or reported as failed.
EveryWriteEnds ==
  \A w \in Command : phase[w] = "sending" ~> phase[w] \in {"delivered", "failed"}

\* A command reaches Govee at most once, and no write that leaves at once, a retry
\* included, follows a newer one.  A write that waits in the limiter's queue may
\* (NoOldAfterNew, refuted).
SentOnceInOrder ==
  /\ [](SendTypeOK /\ ReceivedAtMostOnce)
  /\ [][NoRetryAfterNew]_commandVars
=============================================================================
