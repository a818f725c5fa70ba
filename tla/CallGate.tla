------------------------------ MODULE CallGate ------------------------------
(***************************************************************************)
(* The gate that keeps the short windows of api-limits.json                 *)
(* (src/lib/call-gate.ts: waitMs, tryAdmit, window).  The gate remembers    *)
(* per limit - and per host, for a limit that counts per host - the calls   *)
(* it let through, and forgets one when its window has passed.  HttpGate    *)
(* and LanPacing are the users of the gate.                                 *)
(*                                                                         *)
(* Time is the clock the gate is built with, in whole ticks.                *)
(***************************************************************************)
EXTENDS Naturals, FiniteSets, FiniteSetsExt

CONSTANTS
  Call, Host, hostOf,    \* every call made, and the host it goes to
  Limit, maxOf, windowOf,\* the limits of one counterpart, and their windows
  PerHost,               \* limits that count per host, the others per account
  MaxTime                \* bound of the clock

ASSUME GateAssumption ==
  /\ IsFiniteSet(Call) /\ IsFiniteSet(Limit)
  /\ hostOf \in [Call -> Host]
  /\ maxOf \in [Limit -> Nat \ {0}]
  /\ windowOf \in [Limit -> Nat \ {0}]
  /\ PerHost \subseteq Limit
  /\ MaxTime \in Nat

VARIABLES
  now,
  seen,                  \* calls remembered, per key
  passed,                \* every call ever let through
  at                     \* when each of them was

gateVars == <<now, seen, passed, at>>

AnyHost == "any"
KeyOf(l, h) == <<l, IF l \in PerHost THEN h ELSE AnyHost>>
Key == Limit \X (Host \cup {AnyHost})

GateTypeOK ==
  /\ now \in Nat
  /\ seen \in [Key -> SUBSET Call]
  /\ passed \subseteq Call
  /\ at \in [Call -> Nat]

GateInit ==
  /\ now = 0
  /\ seen = [k \in Key |-> {}]
  /\ passed = {}
  /\ at = [c \in Call |-> 0]

Window(l, h) == {c \in seen[KeyOf(l, h)] : now < at[c] + windowOf[l]}

\* Room for all of S, let through one after the other.
Fits(h, S) == \A l \in Limit : Cardinality(Window(l, h)) + Cardinality(S) <= maxOf[l]

\* The limits with no room for one more call.
Full(h) == {l \in Limit : Cardinality(Window(l, h)) >= maxOf[l]}

\* Until one more call fits limit l: the max-th call from the end has to leave.
RoomIn(l, h) ==
  LET last == CHOOSE t \in {at[c] : c \in Window(l, h)} :
                /\ Cardinality({c \in Window(l, h) : at[c] > t}) < maxOf[l]
                /\ Cardinality({c \in Window(l, h) : at[c] >= t}) >= maxOf[l]
  IN  last + windowOf[l] - now + 1

\* mutant: the shortest of the waits, not the longest
MutWaitMs(h) == IF Full(h) = {} THEN 0 ELSE Min({RoomIn(l, h) : l \in Full(h)})
WaitMs(h) == Max({0} \cup {RoomIn(l, h) : l \in Full(h)})

\* Asking prunes what has left its window; the calls in S are counted.
TryAdmit(h, S) ==
  /\ S \subseteq {c \in Call \ passed : hostOf[c] = h}
  /\ Fits(h, S)
  /\ seen' = [k \in Key |-> IF k = KeyOf(k[1], h)
                              THEN Window(k[1], h) \cup S
                              ELSE seen[k]]
  /\ passed' = passed \cup S
  /\ at' = [c \in Call |-> IF c \in S THEN now ELSE at[c]]
  /\ UNCHANGED now

GateTick ==
  /\ now < MaxTime
  /\ now' = now + 1
  /\ UNCHANGED <<seen, passed, at>>

GateNext == GateTick \/ \E h \in Host : \E S \in SUBSET Call : TryAdmit(h, S)

GateSpec == GateInit /\ [][GateNext]_gateVars

-----------------------------------------------------------------------------
\* The calls a limit counts for host h that lie in its window ending at time t.
InWindow(l, h, t) ==
  {c \in passed : KeyOf(l, hostOf[c]) = KeyOf(l, h) /\ at[c] <= t /\ t < at[c] + windowOf[l]}

\* No counterpart ever sees more calls than its limit in any window, wherever the
\* window is laid - also when the gate has forgotten part of it.
WindowsKept ==
  \A l \in Limit, h \in Host, t \in 0..now : Cardinality(InWindow(l, h, t)) <= maxOf[l]

\* The wait the gate names is enough: once it has passed and nobody else was let
\* through, the call fits, so a waiter that sleeps it needs no second wait.
WaitIsEnough ==
  \A h \in Host :
    WaitMs(h) > 0 =>
      \A l \in Limit :
        Cardinality({c \in Window(l, h) : now + WaitMs(h) < at[c] + windowOf[l]}) < maxOf[l]
=============================================================================
