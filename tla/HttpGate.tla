------------------------------ MODULE HttpGate ------------------------------
(***************************************************************************)
(* The HTTPS request function in front of every cloud call (https, admit,   *)
(* hold and heldMs of src/lib/call-gate.ts) over CallGate.  A request first *)
(* looks whether a 429 holds its host, then waits until it fits the host's  *)
(* windows, then goes out; a 429 holds the host for the wait it names.      *)
(* Looking, counting and sending follow each other without a timer or a     *)
(* socket event in between, so a request that fits at once is one step.     *)
(***************************************************************************)
EXTENDS CallGate

CONSTANTS
  HoldMs,                \* the waits a 429 leads to, within floor and ceiling
  LastAsk,               \* bound: no request after this time
  MaxLateness            \* bound: how late a delay may end

ASSUME HttpAssumption ==
  /\ HoldMs \subseteq Nat \ {0}
  /\ {LastAsk, MaxLateness} \subseteq Nat

VARIABLES
  heldUntil,             \* per host: until when a 429 holds it
  status,
  wakeAt                 \* when a waiting request asks again

vars == <<gateVars, heldUntil, status, wakeAt>>

TypeOK ==
  /\ GateTypeOK
  /\ heldUntil \in [Host -> Nat]
  /\ status \in [Call -> {"new", "refused", "waiting", "running", "settled"}]
  /\ wakeAt \in [Call -> Nat]

Init ==
  /\ GateInit
  /\ heldUntil = [h \in Host |-> 0]
  /\ status = [c \in Call |-> "new"]
  /\ wakeAt = [c \in Call |-> 0]

Held(h) == now < heldUntil[h]

Become(c, s) == status' = [status EXCEPT ![c] = s]

\* One turn of admit: let through and sent, or asleep until there may be room.
Admit(c) ==
  LET h == hostOf[c]
  IN  /\ \/ /\ TryAdmit(h, {c})
            /\ Become(c, "running")
            /\ UNCHANGED wakeAt
         \/ /\ ~Fits(h, {c})
            /\ TryAdmit(h, {})
            /\ Become(c, "waiting")
            /\ wakeAt' = [wakeAt EXCEPT ![c] = now + WaitMs(h)']
      /\ UNCHANGED heldUntil

\* A held host answers here, with the 429 it would give.
Request(c) ==
  /\ status[c] = "new" /\ now <= LastAsk
  /\ \/ /\ Held(hostOf[c])
        /\ Become(c, "refused")
        /\ UNCHANGED <<gateVars, heldUntil, wakeAt>>
     \/ /\ ~Held(hostOf[c])
        /\ Admit(c)

\* mutant: sent when the delay is over, the gate not asked again
MutWake(c) ==
  /\ status[c] = "waiting" /\ wakeAt[c] <= now
  /\ Become(c, "running")
  /\ at' = [at EXCEPT ![c] = now]
  /\ passed' = passed \cup {c}
  /\ UNCHANGED <<now, seen, heldUntil, wakeAt>>

\* mutant: one wait is taken to be enough, a lost race for the slot ends the request
MutWakeOnce(c) ==
  /\ status[c] = "waiting" /\ wakeAt[c] <= now
  /\ \/ TryAdmit(hostOf[c], {c}) /\ Become(c, "running")
     \/ /\ ~Fits(hostOf[c], {c})
        /\ TryAdmit(hostOf[c], {})
        /\ Become(c, "refused")
  /\ UNCHANGED <<heldUntil, wakeAt>>

Wake(c) ==
  /\ status[c] = "waiting" /\ wakeAt[c] <= now
  /\ Admit(c)

Answered(c) ==
  /\ status[c] = "running"
  /\ Become(c, "settled")
  /\ UNCHANGED <<gateVars, heldUntil, wakeAt>>

\* mutant: the newest 429 decides, not the longest wait
MutHold(h, ms) == heldUntil' = [heldUntil EXCEPT ![h] = now + ms]

Hold(h, ms) ==
  heldUntil' = [heldUntil EXCEPT ![h] = IF @ > now + ms THEN @ ELSE now + ms]

RateLimited(c, ms) ==
  /\ status[c] = "running"
  /\ Become(c, "settled")
  /\ Hold(hostOf[c], ms)
  /\ UNCHANGED <<gateVars, wakeAt>>

Tick ==
  /\ \A c \in Call : status[c] = "waiting" => now < wakeAt[c] + MaxLateness
  /\ GateTick
  /\ UNCHANGED <<heldUntil, status, wakeAt>>

Next ==
  \/ \E c \in Call : Request(c) \/ Wake(c) \/ Answered(c) \/ \E ms \in HoldMs : RateLimited(c, ms)
  \/ Tick

Spec == Init /\ [][Next]_vars

\* Delays end and time passes; no server has to answer.
FairSpec == Spec /\ WF_vars(Tick) /\ \A c \in Call : WF_vars(Wake(c))

-----------------------------------------------------------------------------
\* No window of a limit holds more requests to what it counts for - one host, or all
\* of the account - however many were waiting for the same slot when it became free.
WindowsAreSpared ==
  \A l \in Limit, h \in Host, t \in 0..now :
    Cardinality({c \in Call : /\ status[c] \in {"running", "settled"}
                              /\ KeyOf(l, hostOf[c]) = KeyOf(l, h)
                              /\ at[c] <= t /\ t < at[c] + windowOf[l]}) <= maxOf[l]

\* Answers come back in any order: a later 429 that names a shorter wait does not
\* open a host before the longer one has passed.
HoldNeverShortened ==
  [][\A h \in Host : heldUntil'[h] >= heldUntil[h]]_vars

\* Waiting requests compete for every slot that becomes free, and a loser waits
\* again: still each goes out in the end.
EveryWaiterGoesOut ==
  \A c \in Call : status[c] = "waiting" ~> status[c] = "running"

\* After a 429 no further call goes to that host before its wait has passed.
HoldIsKept ==
  [][\A c \in Call :
       status[c] # "running" /\ status'[c] = "running" => ~Held(hostOf[c])]_vars

\* Requests that wait for the same slots, wake late and are answered in any order
\* with 429 overflow no window of a limit; the wait the gate names is long enough;
\* and no hold is shortened.
HostsAreSpared ==
  /\ [](TypeOK /\ WindowsAreSpared /\ WaitIsEnough)
  /\ HoldNeverShortened
=============================================================================
