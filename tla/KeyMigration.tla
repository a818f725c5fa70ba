---------------------------- MODULE KeyMigration ----------------------------
(***************************************************************************)
(* The move of a renamed settings key on the first start after an update.  *)
(* The update adds the new key with its default and leaves the old one     *)
(* with the user's value; the start moves the value, nulls the old keys    *)
(* in one merge and gives up, because a write to the own instance object   *)
(* restarts the instance.  Reads and writes may fail, the process may end  *)
(* between any two steps, and the user goes on changing settings.          *)
(*   native-key-migration.ts, main.ts (NATIVE_KEY_MIGRATIONS)              *)
(***************************************************************************)
EXTENDS Naturals, NoValue

CONSTANTS
    BindChoices,   \* listen addresses a user may enter
    Everywhere,    \* "0.0.0.0", the default of `bind`
    Empty,         \* "", what an earlier settings page stored for everywhere
    RetiredKeys,   \* keys an earlier version declared and this one does not
    EditsEarly,    \* whether the user edits `bind` while the old key is still stored
    ReadsFail,     \* whether the instance object may be unreadable at a start
    MaxEdits       \* bound: edits of the user and ends of the process

ASSUME KeysAssumption ==
    /\ MaxEdits \in Nat /\ EditsEarly \in BOOLEAN /\ ReadsFail \in BOOLEAN
    /\ Everywhere \notin BindChoices /\ Empty \notin BindChoices /\ None \notin BindChoices
    /\ Everywhere # Empty /\ Everywhere # None /\ Empty # None

Entered == BindChoices \cup {Everywhere, Empty}

VARIABLES
    updated,          \* the new version is installed
    networkInterface, \* the renamed key, as stored
    bind,             \* the key it moved to, as stored
    retired,          \* the dropped keys that still hold a value, native and common
    start,            \* "down", "read", "run"
    patch,            \* what a start found to write
    config,           \* the address the running instance uses
    edits,
    writes,           \* history: how often the migration restarted the instance
    wanted            \* history: what the user entered last

keyVars == <<updated, networkInterface, bind, retired, start, patch, config, edits, writes, wanted>>

stored == <<networkInterface, bind, retired>>

KeysTypeOK ==
    /\ updated \in BOOLEAN
    /\ networkInterface \in Entered \cup {None}
    /\ bind \in Entered \cup {None}
    /\ retired \subseteq RetiredKeys
    /\ start \in {"down", "read", "run"}
    /\ patch \in [moves : BindChoices \cup {Everywhere, None}, drops : SUBSET RetiredKeys]
    /\ config \in BindChoices \cup {Everywhere, Empty, None}
    /\ edits \in 0..MaxEdits
    /\ writes \in Nat
    /\ wanted \in Entered

-----------------------------------------------------------------------------
(* The patch                                                               *)

(* A mutation of the next: the value moves as it is.                       *)
Verbatim(v) == v

(* The conversion on the way: an empty value means everywhere.             *)
coerce(v) == IF v = Empty THEN Everywhere ELSE v

isPresent(v) == v # None

(* A mutation of the next: the old key counts where the new one is empty.  *)
DefaultWins ==
    [moves |-> IF isPresent(networkInterface) /\ bind \in {None, Empty}
               THEN coerce(networkInterface) ELSE None,
     drops |-> retired]

(* buildNativeKeyPatch, buildCommonKeyPatch: the old value wins over the   *)
(* default the update added; a dropped key is nulled while it still holds  *)
(* a value.                                                                *)
buildKeyPatch ==
    [moves |-> IF isPresent(networkInterface) THEN coerce(networkInterface) ELSE None,
     drops |-> retired]

NoPatch == [moves |-> None, drops |-> {}]

(* A mutation of the next: the old key is left.                            *)
OldKeyStays(p) == networkInterface

(* What the merge leaves of the old key and of the new one.                *)
OldKeyAfter(p) == IF p.moves # None THEN None ELSE networkInterface

BindAfter(p) == IF p.moves # None THEN p.moves ELSE bind

-----------------------------------------------------------------------------
(* A settings page of the old version writes the old key.                  *)
EditOld(v) ==
    /\ ~updated /\ edits < MaxEdits
    /\ networkInterface' = v
    /\ wanted' = v
    /\ edits' = edits + 1
    /\ UNCHANGED <<updated, bind, retired, start, patch, config, writes>>

(* js-controller adds every missing key with its default and deletes none. *)
Update ==
    /\ ~updated
    /\ updated' = TRUE
    /\ bind' = IF isPresent(bind) THEN bind ELSE Everywhere
    /\ UNCHANGED <<networkInterface, retired, start, patch, config, edits, writes, wanted>>

(* The start reads the instance object.  Unreadable: it goes on with the   *)
(* configuration it was started with.  Nothing to change: it goes on.      *)
StartReads ==
    /\ updated /\ start = "down"
    /\ \E readable \in IF ReadsFail THEN BOOLEAN ELSE {TRUE} :
          LET p == IF readable THEN buildKeyPatch ELSE NoPatch
          IN  IF p = NoPatch
              THEN /\ start' = "run"
                   /\ config' = bind
                   /\ UNCHANGED patch
              ELSE /\ start' = "read"
                   /\ patch' = p
                   /\ UNCHANGED config
    /\ UNCHANGED <<updated, stored, edits, writes, wanted>>

(* One merge of every touched key: the host restarts the instance.         *)
WriteSucceeds ==
    /\ start = "read"
    /\ networkInterface' = OldKeyAfter(patch)
    /\ bind' = BindAfter(patch)
    /\ retired' = retired \ patch.drops
    /\ start' = "down"
    /\ patch' = NoPatch
    /\ writes' = writes + 1
    /\ UNCHANGED <<updated, config, edits, wanted>>

(* The write failed: the run uses the migrated values and the next start   *)
(* tries again.                                                            *)
PatchFails ==
    /\ start = "read"
    /\ start' = "run"
    /\ config' = BindAfter(patch)
    /\ patch' = NoPatch
    /\ UNCHANGED <<updated, stored, edits, writes, wanted>>

(* The process ends, at a step of the start or later.                      *)
ProcessEnds ==
    /\ start # "down" /\ edits < MaxEdits
    /\ edits' = edits + 1
    /\ start' = "down"
    /\ patch' = NoPatch
    /\ UNCHANGED <<updated, stored, config, writes, wanted>>

(* The settings page of this version writes the new key; that restarts the *)
(* instance.                                                               *)
EditNew(v) ==
    /\ updated /\ start = "run" /\ edits < MaxEdits
    /\ EditsEarly \/ ~isPresent(networkInterface)
    /\ bind' = v
    /\ wanted' = v
    /\ edits' = edits + 1
    /\ start' = "down"
    /\ UNCHANGED <<updated, networkInterface, retired, patch, config, writes>>

-----------------------------------------------------------------------------
KeysInit ==
    /\ updated = FALSE
    /\ networkInterface \in Entered
    /\ bind = None
    /\ retired \in SUBSET RetiredKeys
    /\ start = "down" /\ patch = NoPatch
    /\ config = None
    /\ edits = 0 /\ writes = 0
    /\ wanted = networkInterface

KeysNext ==
    \/ \E v \in Entered : EditOld(v)
    \/ \E v \in BindChoices \cup {Everywhere} : EditNew(v)
    \/ Update \/ StartReads \/ WriteSucceeds \/ PatchFails \/ ProcessEnds

KeysSpec == KeysInit /\ [][KeysNext]_keyVars

-----------------------------------------------------------------------------
(* Properties                                                              *)

(* "An existing installation keeps what its user configured": a running    *)
(* instance listens where its user last said, whatever was stored under    *)
(* which key, however often a write failed or the process ended in the     *)
(* middle (migrateNativeKeys).                                             *)
RunsOnTheChoice == start = "run" => config = (IF wanted = Empty THEN Everywhere ELSE wanted)

(* "This instance restarts once": the migration of one update restarts the *)
(* instance at most once, it never settles into a restart on every start   *)
(* (migrateNativeKeys, buildNativeKeyPatch).                               *)
RestartsOnce == writes <= 1

\* The renamed setting keeps its user's choice and costs one restart.
ChoiceSurvives ==
  /\ KeysTypeOK
  /\ RunsOnTheChoice
  /\ RestartsOnce
=============================================================================
