----------------------------- MODULE LanPacing -----------------------------
(***************************************************************************)
(* The control datagrams of the LAN client (sendCommand and releaseLater of *)
(* src/lib/govee-lan-client.ts) over CallGate: a datagram over a light's    *)
(* limit waits behind the ones before it, and a timer of that light         *)
(* releases them.  "delayed, never dropped"                                 *)
(***************************************************************************)
EXTENDS Naturals, FiniteSets, SequencesExt

CONSTANTS
  Datagram, Light, lightOf,
  MaxPerWindow, WindowLength,  \* the control limit of api-limits.json
  LastAsk,                     \* bound: no command after this time
  MaxLateness,                 \* bound: how late a timer may fire
  MaxTime                      \* bound of the clock

ASSUME PacingAssumption ==
  /\ IsFiniteSet(Datagram)
  /\ lightOf \in [Datagram -> Light]
  /\ MaxPerWindow \in Nat \ {0} /\ WindowLength \in Nat \ {0}
  /\ {LastAsk, MaxLateness, MaxTime} \subseteq Nat

VARIABLES
  now, seen, passed, at,       \* the gate's
  paced,                       \* datagrams that wait, per light
  armed, due,                  \* lights with a release timer, and when it is due
  closed,
  asked, sent,                 \* history: the datagrams asked for and on the wire, in order
  sentAt                       \* and when each went out

gateVars == <<now, seen, passed, at>>
pacingVars == <<paced, armed, due, closed, asked, sent, sentAt>>
vars == <<gateVars, pacingVars>>

Gate == INSTANCE CallGate WITH
  Call <- Datagram, Host <- Light, hostOf <- lightOf,
  Limit <- {"control"}, PerHost <- {"control"},
  maxOf <- [l \in {"control"} |-> MaxPerWindow],
  windowOf <- [l \in {"control"} |-> WindowLength]

TypeOK ==
  /\ Gate!GateTypeOK
  /\ paced \in [Light -> Seq(Datagram)]
  /\ armed \subseteq Light
  /\ due \in [Light -> Nat]
  /\ closed \in BOOLEAN
  /\ asked \in [Light -> Seq(Datagram)]
  /\ sent \in [Light -> Seq(Datagram)]
  /\ sentAt \in [Datagram -> Nat]

Init ==
  /\ Gate!GateInit
  /\ paced = [l \in Light |-> <<>>]
  /\ armed = {}
  /\ due = [l \in Light |-> 0]
  /\ closed = FALSE
  /\ asked = [l \in Light |-> <<>>]
  /\ sent = [l \in Light |-> <<>>]
  /\ sentAt = [d \in Datagram |-> 0]

Transmit(l, out) ==
  /\ sent' = [sent EXCEPT ![l] = @ \o out]
  /\ sentAt' = [d \in Datagram |-> IF d \in Range(out) THEN now ELSE sentAt[d]]

\* releaseLater: the wait is asked of the gate as this step leaves it.
Arm(l) ==
  /\ armed' = armed \cup {l}
  /\ due' = [due EXCEPT ![l] = now + Gate!WaitMs(l)']

\* mutant: a fresh command goes out when the gate has room, waiting or not
MutSendCommand(d) ==
  LET l == lightOf[d]
  IN  /\ ~closed /\ now <= LastAsk
      /\ d \notin Range(asked[l])
      /\ asked' = [asked EXCEPT ![l] = Append(@, d)]
      /\ \/ /\ Gate!TryAdmit(l, {d})
            /\ Transmit(l, <<d>>)
            /\ UNCHANGED <<paced, armed, due>>
         \/ /\ ~Gate!Fits(l, {d})
            /\ Gate!TryAdmit(l, {})
            /\ paced' = [paced EXCEPT ![l] = Append(@, d)]
            /\ Arm(l)
            /\ UNCHANGED <<sent, sentAt>>
      /\ UNCHANGED closed

SendCommand(d) ==
  LET l == lightOf[d]
  IN  /\ ~closed /\ now <= LastAsk
      /\ d \notin Range(asked[l])
      /\ asked' = [asked EXCEPT ![l] = Append(@, d)]
      /\ \/ /\ paced[l] # <<>>
            /\ paced' = [paced EXCEPT ![l] = Append(@, d)]
            /\ UNCHANGED <<gateVars, armed, due, sent, sentAt>>
         \/ /\ paced[l] = <<>>
            /\ Gate!TryAdmit(l, {d})
            /\ Transmit(l, <<d>>)
            /\ UNCHANGED <<paced, armed, due>>
         \/ /\ paced[l] = <<>> /\ ~Gate!Fits(l, {d})
            /\ Gate!TryAdmit(l, {})
            /\ paced' = [paced EXCEPT ![l] = <<d>>]
            /\ Arm(l)
            /\ UNCHANGED <<sent, sentAt>>
      /\ UNCHANGED closed

\* mutant: the timer is not armed again for what still waits
MutRelease(l) ==
  \E n \in 0..Len(paced[l]) :
    LET out == SubSeq(paced[l], 1, n)
    IN  /\ l \in armed /\ due[l] <= now
        /\ n < Len(paced[l]) => ~Gate!Fits(l, Range(SubSeq(paced[l], 1, n + 1)))
        /\ Gate!TryAdmit(l, Range(out))
        /\ Transmit(l, out)
        /\ paced' = [paced EXCEPT ![l] = SubSeq(@, n + 1, Len(@))]
        /\ armed' = armed \ {l}
        /\ UNCHANGED <<due, closed, asked>>

\* mutant: what waits goes out without asking the gate
MutReleaseAll(l) ==
  /\ l \in armed /\ due[l] <= now
  /\ Transmit(l, paced[l])
  /\ paced' = [paced EXCEPT ![l] = <<>>]
  /\ armed' = armed \ {l}
  /\ UNCHANGED <<gateVars, due, closed, asked>>

\* The timer lets n datagrams go: all that wait, or up to the first that does not fit.
Release(l) ==
  \E n \in 0..Len(paced[l]) :
    LET out == SubSeq(paced[l], 1, n)
        rest == SubSeq(paced[l], n + 1, Len(paced[l]))
    IN  /\ l \in armed /\ due[l] <= now
        /\ n < Len(paced[l]) => ~Gate!Fits(l, Range(SubSeq(paced[l], 1, n + 1)))
        /\ Gate!TryAdmit(l, Range(out))
        /\ Transmit(l, out)
        /\ paced' = [paced EXCEPT ![l] = rest]
        /\ IF rest = <<>> THEN armed' = armed \ {l} /\ UNCHANGED due ELSE Arm(l)
        /\ UNCHANGED <<closed, asked>>

Stop ==
  /\ ~closed
  /\ closed' = TRUE
  /\ paced' = [l \in Light |-> <<>>]
  /\ armed' = {}
  /\ UNCHANGED <<gateVars, due, asked, sent, sentAt>>

Tick ==
  /\ \A l \in armed : now < due[l] + MaxLateness
  /\ Gate!GateTick
  /\ UNCHANGED pacingVars

Next ==
  \/ \E d \in Datagram : SendCommand(d)
  \/ \E l \in Light : Release(l)
  \/ Stop
  \/ Tick

Spec == Init /\ [][Next]_vars

\* Timers fire, and time passes.
FairSpec == Spec /\ WF_vars(Tick) /\ \A l \in Light : WF_vars(Release(l))

-----------------------------------------------------------------------------
\* A light receives its commands in the order they were asked for, each once and
\* none skipped; only stop() drops what still waits.
InOrderNothingDropped ==
  \A l \in Light : IF closed THEN IsPrefix(sent[l], asked[l])
                              ELSE asked[l] = sent[l] \o paced[l]

\* Whatever was queued and however late a release came, no window of a light ever
\* holds more datagrams on the wire than its control limit.
LightsAreSpared ==
  \A l \in Light, t \in 0..now :
    Cardinality({d \in Range(sent[l]) : sentAt[d] <= t /\ t < sentAt[d] + WindowLength})
      <= MaxPerWindow

\* Nothing waits for ever: every command leaves, unless the client stops.
EveryDatagramLeaves ==
  \A d \in Datagram :
    d \in Range(asked[lightOf[d]]) ~> (d \in Range(sent[lightOf[d]]) \/ closed)

\* The commands of a light go out in the order they were asked for, none skipped
\* and never more than its window holds.
DatagramsLeaveInOrder == TypeOK /\ LightsAreSpared /\ InOrderNothingDropped
=============================================================================
