---------------------------- MODULE SegmentWizard ----------------------------
(***************************************************************************)
(* The segment-detection wizard (src/lib/segment-wizard.ts): one session at *)
(* a time, driven by messages of the admin page.  Every message is a        *)
(* handler of its own that waits for states, commands and the tree rebuild, *)
(* so handlers overlap: two admin pages, a double click, the idle timeout.  *)
(* Over the LAN a command is sent without a wait, but a flash paints its    *)
(* segment a moment after it switched the mode.                             *)
(***************************************************************************)
EXTENDS Naturals, FiniteSets

CONSTANTS
  Message,               \* bound: the messages that arrive, each one handler
  LastIndex,                  \* the last index the protocol addresses
  OverLan                \* sessions that reach the strip over the LAN, the others over the cloud

ASSUME WizardAssumption ==
  /\ LastIndex \in Nat /\ IsFiniteSet(Message)
  /\ OverLan \subseteq Message
  /\ "idle" \notin Message /\ "none" \notin Message

\* A session is named by the message that started it.
NoSession == "none"
Idle == "idle"           \* the handler of the idle timeout
Handler == Message \cup {Idle}

VARIABLES
  session,
  timer,                 \* the idle timeout is armed
  pc,                    \* where each handler waits
  mine,                  \* the session a handler took at its start
  current, lit,          \* per session: the segment asked about, any seen so far
  onStrip,               \* "own" or "forced": shows the user's light or the wizard's
  flashes,               \* LAN flashes whose segment is still to be painted
  present,               \* the device is still known
  rolledBack,            \* history: the last session was closed by a restore that worked
  disposed

wizardVars == <<session, timer, pc, mine, current, lit, onStrip, flashes, present, rolledBack, disposed>>

WizardTypeOK ==
  /\ session \in Message \cup {NoSession}
  /\ timer \in BOOLEAN
  /\ pc \in [Handler -> {"new", "capturing", "preparing", "flashing", "answering",
                         "applying", "restoring", "unread", "done"}]
  /\ mine \in [Handler -> Message \cup {NoSession}]
  /\ current \in [Message -> 0..(LastIndex + 1 + Cardinality(Message))]
  /\ lit \in [Message -> BOOLEAN]
  /\ onStrip \in {"own", "forced"}
  /\ flashes \subseteq Message
  /\ {present, rolledBack, disposed} \subseteq BOOLEAN

WizardInit ==
  /\ session = NoSession
  /\ timer = FALSE
  /\ pc = [h \in Handler |-> "new"]
  /\ mine = [h \in Handler |-> NoSession]
  /\ current = [m \in Message |-> 0]
  /\ lit = [m \in Message |-> FALSE]
  /\ onStrip = "own"
  /\ flashes = {}
  /\ present = TRUE
  /\ rolledBack = FALSE
  /\ disposed = FALSE

At(h, where) == pc' = [pc EXCEPT ![h] = where]
\* The idle timeout's handler can run again, a message is answered once.
Finish(h) == At(h, IF h = Idle THEN "new" ELSE "done")

\* mutant: the idle timeout of a closed session stays armed
MutClose == session' = NoSession /\ UNCHANGED timer
Close == session' = NoSession /\ timer' = FALSE

-----------------------------------------------------------------------------
(* start *)

\* The slot is taken before the first wait.
Start(m) ==
  /\ pc[m] = "new" /\ ~disposed
  /\ session = NoSession /\ present
  /\ session' = m
  /\ mine' = [mine EXCEPT ![m] = m]
  /\ At(m, "capturing")
  /\ UNCHANGED <<timer, current, lit, onStrip, flashes, present, rolledBack, disposed>>

Flash(m) ==
  /\ onStrip' = "forced"
  /\ flashes' = flashes \cup {m}

\* mutant: the first idle timeout is armed by the first answer
MutCaptured(m) ==
  /\ pc[m] = "capturing"
  /\ IF session # m THEN Finish(m) /\ UNCHANGED <<onStrip, flashes>>
     ELSE IF m \in OverLan THEN Finish(m) /\ Flash(m)
     ELSE At(m, "preparing") /\ UNCHANGED <<onStrip, flashes>>
  /\ UNCHANGED <<session, timer, mine, current, lit, present, rolledBack, disposed>>

\* The baseline is read; the session may be gone by now.
Captured(m) ==
  /\ pc[m] = "capturing"
  /\ IF session # m THEN Finish(m) /\ UNCHANGED <<timer, onStrip, flashes>>
     ELSE /\ timer' = TRUE
          /\ IF m \in OverLan THEN Finish(m) /\ Flash(m)
                    ELSE At(m, "preparing") /\ UNCHANGED <<onStrip, flashes>>
  /\ UNCHANGED <<session, mine, current, lit, present, rolledBack, disposed>>

\* A state cannot be read, which is not inside start's try: the slot stays taken.
CaptureFails(m) ==
  /\ pc[m] = "capturing"
  /\ At(m, "unread")
  /\ UNCHANGED <<session, timer, mine, current, lit, onStrip, flashes, present, rolledBack, disposed>>

\* Cloud: power on and full brightness went through, then the first flash.
Prepared(m) ==
  /\ pc[m] = "preparing"
  /\ onStrip' = "forced"
  /\ At(m, "flashing")
  /\ UNCHANGED <<session, timer, mine, current, lit, flashes, present, rolledBack, disposed>>

Flashed(m) ==
  /\ pc[m] \in {"flashing", "answering"}
  /\ onStrip' = "forced"
  /\ Finish(m)
  /\ UNCHANGED <<session, timer, mine, current, lit, flashes, present, rolledBack, disposed>>

\* A command of the start is refused, perhaps after the first one went through:
\* the slot is released, whoever holds it.
StartRefused(m) ==
  /\ pc[m] \in {"preparing", "flashing"}
  /\ Close
  /\ onStrip' \in {onStrip, "forced"}
  /\ rolledBack' = FALSE
  /\ Finish(m)
  /\ UNCHANGED <<mine, current, lit, flashes, present, disposed>>

\* A refused flash of an answer goes to the admin page, the session stays.
AnswerRefused(m) ==
  /\ pc[m] = "answering"
  /\ Finish(m)
  /\ UNCHANGED <<session, timer, mine, current, lit, onStrip, flashes, present, rolledBack, disposed>>

-----------------------------------------------------------------------------
(* abort, finalize: restore, then close *)

DropSession(h) ==
  /\ Close
  /\ rolledBack' = FALSE
  /\ Finish(h)
  /\ UNCHANGED <<onStrip, mine>>

RestoreAndClose(h) ==
  /\ Close
  /\ onStrip' = "own"
  /\ rolledBack' = TRUE
  /\ Finish(h)
  /\ UNCHANGED mine

TakeSession(h, where) ==
  /\ mine' = [mine EXCEPT ![h] = session]
  /\ At(h, where)
  /\ UNCHANGED <<session, onStrip, rolledBack>>

AbortWith(h) ==
  CASE ~present -> DropSession(h)
    [] present /\ session \in OverLan -> RestoreAndClose(h)
    [] present /\ session \notin OverLan -> TakeSession(h, "restoring") /\ UNCHANGED timer

Abort(m) ==
  /\ pc[m] = "new" /\ ~disposed
  /\ session # NoSession
  /\ AbortWith(m)
  /\ UNCHANGED <<current, lit, flashes, present, disposed>>

\* The callback aborts whatever session is open now.
IdleFires ==
  /\ timer /\ pc[Idle] = "new"
  /\ CASE session = NoSession ->
            timer' = FALSE /\ UNCHANGED <<session, pc, mine, onStrip, rolledBack>>
       [] session # NoSession /\ present /\ session \notin OverLan ->
            TakeSession(Idle, "restoring") /\ timer' = FALSE
       [] session # NoSession /\ (~present \/ session \in OverLan) -> AbortWith(Idle)
  /\ UNCHANGED <<current, lit, flashes, present, disposed>>

\* Cloud: a refused restore is logged, the session is closed all the same.
Restored(h) ==
  /\ pc[h] = "restoring"
  /\ \E worked \in BOOLEAN :
       /\ onStrip' = IF worked THEN "own" ELSE onStrip
       /\ rolledBack' = worked
  /\ Close
  /\ Finish(h)
  /\ UNCHANGED <<mine, current, lit, flashes, present, disposed>>

\* The result is applied: the tree is rebuilt and the cache written.
Applied(m) ==
  /\ pc[m] = "applying"
  /\ IF mine[m] \in OverLan THEN RestoreAndClose(m)
     ELSE At(m, "restoring") /\ UNCHANGED <<session, timer, onStrip, rolledBack, mine>>
  /\ UNCHANGED <<current, lit, flashes, present, disposed>>

ApplyFails(m) ==
  /\ pc[m] = "applying"
  /\ Finish(m)
  /\ UNCHANGED <<session, timer, mine, current, lit, onStrip, flashes, present, rolledBack, disposed>>

\* The review-corrected map; an empty one is refused and changes nothing.
Apply(m) ==
  /\ pc[m] = "new" /\ ~disposed
  /\ session # NoSession
  /\ IF present THEN TakeSession(m, "applying") /\ UNCHANGED timer ELSE DropSession(m)
  /\ UNCHANGED <<current, lit, flashes, present, disposed>>

-----------------------------------------------------------------------------
(* answer *)

\* mutant: answering stops the idle timeout for good
MutAnswer(m, seen) ==
  /\ pc[m] = "new" /\ ~disposed
  /\ session # NoSession /\ present
  /\ current' = [current EXCEPT ![session] = @ + 1]
  /\ lit' = [lit EXCEPT ![session] = @ \/ seen]
  /\ timer' = FALSE
  /\ Finish(m)
  /\ Flash(m)
  /\ UNCHANGED <<session, mine, present, rolledBack, disposed>>

\* Past the last index the session is finished with what was seen; with nothing
\* seen it stays open.
Answer(m, seen) ==
  /\ pc[m] = "new" /\ ~disposed
  /\ session # NoSession
  /\ current' = [current EXCEPT ![session] = @ + 1]
  /\ lit' = [lit EXCEPT ![session] = @ \/ seen]
  /\ CASE ~present -> DropSession(m) /\ UNCHANGED flashes
       [] present /\ current[session] >= LastIndex ->
            /\ IF lit'[session] THEN TakeSession(m, "applying")
                                ELSE Finish(m) /\ UNCHANGED <<session, mine, onStrip, rolledBack>>
            /\ timer' = TRUE
            /\ UNCHANGED flashes
       [] present /\ current[session] < LastIndex ->
            /\ timer' = TRUE
            /\ IF session \in OverLan THEN Finish(m) /\ Flash(m)
                      ELSE At(m, "answering") /\ UNCHANGED <<onStrip, flashes>>
            /\ UNCHANGED <<session, mine, rolledBack>>
  /\ UNCHANGED <<present, disposed>>

-----------------------------------------------------------------------------
\* FORCE_COLOR_MODE_SETTLE_MS after the mode switch: the segment is painted.
FlashDue(m) ==
  /\ m \in flashes
  /\ flashes' = flashes \ {m}
  /\ onStrip' = "forced"
  /\ UNCHANGED <<session, timer, pc, mine, current, lit, present, rolledBack, disposed>>

\* The device is deleted from the account.
DeviceRemoved ==
  /\ present /\ ~disposed
  /\ present' = FALSE
  /\ UNCHANGED <<session, timer, pc, mine, current, lit, onStrip, flashes, rolledBack, disposed>>

\* onUnload: one restore datagram at best, and the LAN client drops its flashes.
Dispose ==
  /\ ~disposed
  /\ disposed' = TRUE
  /\ onStrip' = IF session # NoSession /\ present /\ session \in OverLan THEN "own" ELSE onStrip
  /\ Close
  /\ flashes' = {}
  /\ rolledBack' = FALSE
  /\ UNCHANGED <<pc, mine, current, lit, present>>

WizardNext ==
  \/ \E m \in Message :
       \/ Start(m) \/ Captured(m) \/ CaptureFails(m) \/ Prepared(m) \/ Flashed(m)
       \/ StartRefused(m) \/ AnswerRefused(m)
       \/ Abort(m) \/ Apply(m) \/ Applied(m) \/ ApplyFails(m)
       \/ \E seen \in BOOLEAN : Answer(m, seen)
       \/ FlashDue(m)
  \/ \E h \in Handler : Restored(h)
  \/ IdleFires \/ DeviceRemoved \/ Dispose

WizardSpec == WizardInit /\ [][WizardNext]_wizardVars

\* Every command and read settles one way or the other, and the timeout fires.
WizardFairness ==
  /\ \A m \in Message :
       /\ WF_wizardVars(Captured(m) \/ CaptureFails(m))
       /\ WF_wizardVars(Prepared(m) \/ Flashed(m) \/ StartRefused(m) \/ AnswerRefused(m))
       /\ WF_wizardVars(Applied(m) \/ ApplyFails(m))
  /\ \A h \in Handler : WF_wizardVars(Restored(h))
  /\ WF_wizardVars(IdleFires)

WizardFairSpec == WizardSpec /\ WizardFairness

-----------------------------------------------------------------------------
\* The lock of the wizard is never left without somebody who releases it: the idle
\* timeout is armed, the start still reads its baseline, or a handler is closing it.
\* Only a start whose baseline cannot be read leaves it so.
OpenSessionIsWatched ==
  session # NoSession =>
    \/ timer
    \/ pc[session] \in {"capturing", "unread"}
    \/ \E h \in Handler : pc[h] = "restoring"

\* A timeout never outlives its session, or it would abort the next one early.
TimerNeedsSession == timer => session # NoSession

\* Every session ends, whatever is refused on the way and whoever stays away, if its
\* baseline could be read.
LockIsReleased == \A m \in Message : session = m ~> (session # m \/ pc[m] = "unread")

\* "Left in place, the lock held until the idle abort five minutes later": a start
\* that fails leaves no session behind without an idle timeout.
FailedStartReleases == \A m \in Message : pc[m] = "unread" => session # m \/ timer

\* Abort and finish "roll back to the captured baseline": after a restore that
\* worked, and until the next session, the strip shows the user's light.
RollsBack == session = NoSession /\ rolledBack => onStrip = "own"

\* "Don't stomp the newer state": a handler closes the session it took, never one
\* that was started after it.
OnlyOwnSessionClosed ==
  [][\A h \in Handler :
       /\ pc[h] \in {"preparing", "flashing", "applying", "restoring"} /\ pc'[h] # pc[h]
       /\ session # NoSession /\ session' = NoSession
       => mine[h] = session]_wizardVars

\* The wizard's session is watched while it is open, and no timeout outlives it.
SessionIsWatched == WizardTypeOK /\ OpenSessionIsWatched /\ TimerNeedsSession
=============================================================================
