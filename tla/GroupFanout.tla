---------------------------- MODULE GroupFanout -----------------------------
(***************************************************************************)
(* A command written to an app group goes to its members one after the     *)
(* other (group-fanout.ts); the group is acked by the router when fanOut   *)
(* answers true.  Between two members the handler waits, so fan-outs of    *)
(* one group overlap, members come and go and the account broker connects  *)
(* and drops.                                                              *)
(***************************************************************************)
EXTENDS Integers, FiniteSets

CONSTANTS Member, Write, MaxFlips   \* writes in flight; changes of reachability (bounds)

ASSUME GroupAssumption == MaxFlips \in Nat

CommandKind == {"basic", "scene", "music", "sensitivity"}

\* What a member is: reached over LAN, over the Cloud (or both), with music,
\* knowing the scene the group names.
MemberKind == [lan : BOOLEAN, cloud : BOOLEAN, music : BOOLEAN, scene : BOOLEAN]

VARIABLES
    is,            \* the members' kinds
    online,        \* members whose online flag is set
    broker,        \* the account broker is connected
    fan,           \* the fan-outs
    warnedMembers, \* members named by a warning since they last took a command
    warnedGroup,   \* the group was warned about and has not recovered
    flips          \* bound

groupVars == <<is, online, broker, fan, warnedMembers, warnedGroup, flips>>

NoFan == [at |-> "idle", kind |-> "basic", todo |-> {}, counted |-> {}, took |-> {},
          failed |-> {}, awaiting |-> FALSE, acked |-> FALSE]

GroupTypeOK ==
    /\ is \in [Member -> MemberKind]
    /\ online \subseteq Member /\ broker \in BOOLEAN
    /\ fan \in [Write -> [at : {"idle", "sending", "over"}, kind : CommandKind, todo : SUBSET Member,
                          counted : SUBSET Member, took : SUBSET Member, failed : SUBSET Member,
                          awaiting : BOOLEAN, acked : BOOLEAN]]
    /\ \A w \in Write : fan[w].failed \subseteq fan[w].counted /\ fan[w].took \cap fan[w].failed = {}
    /\ warnedMembers \subseteq Member /\ warnedGroup \in BOOLEAN
    /\ flips \in 0..MaxFlips

GroupInit ==
    /\ is \in [Member -> {k \in MemberKind : k.lan \/ k.cloud}]
    /\ online = Member /\ broker \in BOOLEAN
    /\ fan = [w \in Write |-> NoFan]
    /\ warnedMembers = {} /\ warnedGroup = FALSE
    /\ flips = MaxFlips

AllCount(kind) == Member                                             \* mutant

\* Who has to take a command: every member; for music those that have music.
Counted(kind) ==
    IF kind \in {"music", "sensitivity"} THEN {m \in Member : is[m].music} ELSE Member

\* A LAN light that is offline is skipped; a member only the Cloud carries is tried.
Reachable == {m \in Member : m \in online \/ (is[m].cloud /\ ~is[m].lan)}

FailedUncounted(w, m) == fan[w].failed \cup {m}                      \* mutant

\* A member outside the count is no failure of the group.
FailedWith(w, m) == fan[w].failed \cup ({m} \cap fan[w].counted)

\* The start of fanOut: who counts and who is tried is settled once.
StartFanOut(w, kind) ==
    /\ fan[w].at = "idle"
    /\ IF Reachable = {}
       THEN /\ fan' = [fan EXCEPT ![w] = [NoFan EXCEPT !.at = "over", !.kind = kind, !.counted = Counted(kind)]]
            /\ warnedGroup' = TRUE
       ELSE /\ fan' = [fan EXCEPT ![w] = [NoFan EXCEPT !.at = "sending", !.kind = kind, !.todo = Reachable,
                                           !.counted = Counted(kind), !.failed = Counted(kind) \ Reachable]]
            /\ UNCHANGED warnedGroup
    /\ UNCHANGED <<is, online, broker, warnedMembers, flips>>

\* The dropdown's "---" is acked without a command (the sensitivity of music shares
\* the command's name, but a group has no datapoint for it to be written 0 to).
SelectNothing(w, kind) ==
    /\ fan[w].at = "idle" /\ kind \in {"scene", "music"}
    /\ fan' = [fan EXCEPT ![w] = [NoFan EXCEPT !.at = "over", !.kind = kind, !.acked = TRUE]]
    /\ UNCHANGED <<is, online, broker, warnedMembers, warnedGroup, flips>>

Takes(w, m, awaits) ==
    /\ fan' = [fan EXCEPT ![w].todo = @ \ {m}, ![w].took = @ \cup {m},
                          ![w].awaiting = @ \/ (awaits /\ m \in fan[w].counted)]
    /\ warnedMembers' = warnedMembers \ {m}
    /\ UNCHANGED <<is, online, broker, warnedGroup, flips>>

TakesNothing(w, m) ==
    /\ fan' = [fan EXCEPT ![w].todo = @ \ {m}, ![w].failed = FailedWith(w, m)]
    /\ UNCHANGED <<is, online, broker, warnedMembers, warnedGroup, flips>>

\* sendCommand to one member: LAN, else for a basic command the broker (no
\* receipt), else the Cloud, which may fail; with no way left it throws.
SendBasic(w, m) ==
    /\ m \in fan[w].todo /\ fan[w].kind = "basic"
    /\ \/ is[m].lan /\ Takes(w, m, FALSE)
       \/ ~is[m].lan /\ broker /\ Takes(w, m, TRUE)
       \/ ~is[m].lan /\ ~broker /\ is[m].cloud /\ Takes(w, m, FALSE)
       \/ ~is[m].lan /\ ~broker /\ TakesNothing(w, m)

\* fanOutScene: by name; a member that does not know the scene takes nothing.
fanOutScene(w, m) ==
    /\ m \in fan[w].todo /\ fan[w].kind = "scene"
    /\ \/ is[m].scene /\ Takes(w, m, FALSE)
       \/ ~(is[m].scene /\ is[m].lan /\ ~is[m].cloud) /\ TakesNothing(w, m)

\* fanOutMusic: the mode by name; the sensitivity a LAN light cannot take, and
\* nobody without a mode.
fanOutMusic(w, m) ==
    /\ m \in fan[w].todo /\ fan[w].kind \in {"music", "sensitivity"}
    /\ \/ is[m].music /\ (is[m].lan => fan[w].kind = "music") /\ Takes(w, m, FALSE)
       \/ ~(is[m].music /\ is[m].lan /\ fan[w].kind = "music") /\ TakesNothing(w, m)

reportForgotten(f) == warnedMembers                                  \* mutant

\* reportFailedMembers: who is named now stays named until it takes a command.
reportFailedMembers(f) == warnedMembers \cup f.failed

\* The end of fanOut, and the ack of the router.
EndFanOut(w) ==
    LET f == fan[w]
    IN  /\ f.at = "sending" /\ f.todo = {}
        /\ fan' = [fan EXCEPT ![w].at = "over",
                              ![w].acked = f.took # {} /\ f.failed = {} /\ ~f.awaiting]
        /\ warnedGroup' = (f.took = {})
        /\ warnedMembers' = IF f.took = {} THEN warnedMembers ELSE reportFailedMembers(f)
        /\ UNCHANGED <<is, online, broker, flips>>

OnlineFlips(m) ==
    /\ flips > 0 /\ flips' = flips - 1
    /\ online' = IF m \in online THEN online \ {m} ELSE online \cup {m}
    /\ UNCHANGED <<is, broker, fan, warnedMembers, warnedGroup>>

BrokerFlips ==
    /\ flips > 0 /\ flips' = flips - 1
    /\ broker' = ~broker
    /\ UNCHANGED <<is, online, fan, warnedMembers, warnedGroup>>

GroupNext ==
    \/ \E w \in Write, k \in CommandKind : StartFanOut(w, k) \/ SelectNothing(w, k)
    \/ \E w \in Write, m \in Member : SendBasic(w, m) \/ fanOutScene(w, m) \/ fanOutMusic(w, m)
    \/ \E w \in Write : EndFanOut(w)
    \/ \E m \in Member : OnlineFlips(m)
    \/ BrokerFlips

GroupSpec == GroupInit /\ [][GroupNext]_groupVars

(***************************************************************************)
(* Properties.                                                             *)
(***************************************************************************)

HasToTake(kind) == {m \in Member : kind \in {"music", "sensitivity"} => is[m].music}

\* A write to a group is confirmed exactly when every member that has to take
\* it took it, without an error and with nothing left to report, whatever the
\* other fan-out did meanwhile; a member without music vetoes no music mode (GV-13).
GroupConfirmed ==
    \A w \in Write : (fan[w].at = "over" /\ fan[w].counted # {}) =>
        (fan[w].acked <=> HasToTake(fan[w].kind) \subseteq fan[w].took /\ ~fan[w].awaiting)

\* A write that ends unconfirmed leaves a trace for the user: the group or a
\* member that did not take it stands warned about, unless all that is missing
\* is a report (issue #51).
NobodyIsLeftUntold ==
    \A w \in Write : (fan[w].at # "over" /\ fan'[w].at = "over" /\ ~fan'[w].acked)
     => \/ fan'[w].awaiting /\ fan'[w].failed = {}
        \/ warnedGroup'
        \/ (HasToTake(fan'[w].kind) \ fan'[w].took) \cap warnedMembers' # {}

\* A group is confirmed exactly when its members took the command, and a failure
\* is told.
GroupIsTold ==
  /\ [](GroupTypeOK /\ GroupConfirmed)
  /\ [][NobodyIsLeftUntold]_groupVars
=============================================================================
