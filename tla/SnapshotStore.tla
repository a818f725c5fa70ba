--------------------------- MODULE SnapshotStore ---------------------------
(***************************************************************************)
(* The local snapshots of one light (local-snapshots.ts, snapshot-handler.ts*)
(* and its glue): the list in memory, the JSON text on the device object,  *)
(* the writes between them, the dropdown the tree offers, and the start    *)
(* that carries the two stores of earlier versions over. Every write of the *)
(* device object may fail, and what reads and removes the old files too.    *)
(*                                                                         *)
(* A snapshot is a name and the number of the save that made it. A write to *)
(* the device object reads the object first and puts the text after that   *)
(* await; the object database answers in the order it was asked.           *)
(***************************************************************************)
EXTENDS Integers, Sequences, SequencesExt

CONSTANTS
  SnapshotName,    \* the names a user gives
  OldLists,        \* the lists the files of earlier versions may hold; <<>>: no file
  MaxSaves,        \* saves, and
  MaxStoreTurns    \* restarts and leavings of the light in a behaviour

ASSUME SnapshotAssumption ==
  /\ MaxSaves \in Nat /\ MaxStoreTurns \in Nat
  /\ \A l \in OldLists :     \* written by earlier versions, which saved like SavedIn
        /\ l \in Seq([name : SnapshotName, save : {0}])
        /\ \A i, j \in DOMAIN l : l[i].name = l[j].name => i = j

VARIABLES
  running,     \* "off", the step of init() the start is at, "on", or "broken": init() threw
  available,   \* dataAvailable
  list,        \* cache.get(key): the snapshots in memory
  emptied,     \* how often the list became empty: a new array took its place
  persists,    \* the writes under way, oldest first: [of (which array), put (read done)]
  object,      \* the device object exists
  text,        \* its native.localSnapshots, as the list it parses to
  oldFiles,    \* what the stores of earlier versions still hold: root, dataDir
  offered,     \* the names the snapshot_local dropdown lists, in order
  rebuilds,    \* the tree builds on their way to the dropdown
  wanted,      \* history: the list the user last made; kept: nothing it hangs on was
               \* lost; stored: the write asked last did not fail
  saves, storeTurns

storeVars == <<running, available, list, emptied, persists, object, text, oldFiles,
               offered, rebuilds, wanted, saves, storeTurns>>

Empty == <<>>
Stores == {"root", "dataDir"}
NamesOf(l) == [i \in DOMAIN l |-> l[i].name]
Knows(l, n) == \E i \in DOMAIN l : l[i].name = n
PlaceOf(l, n) == CHOOSE i \in DOMAIN l : l[i].name = n

\* No file of an earlier version is left to be carried over.
NothingLeft == \A s \in Stores : oldFiles[s] = Empty

\* getSnapshots
GetSnapshots == IF available THEN list ELSE Empty

-----------------------------------------------------------------------------
(* Saving and deleting. The list changes at once, the write follows.       *)

\* The text a write puts: the array it was given, as it is after the read. An
\* array that became empty was replaced and stays empty.
TextOf(p) == IF p.of = emptied THEN list ELSE Empty

Persisted(l) == Append(persists, [of |-> emptied, put |-> FALSE, was |-> l])
Wanted(l) == wanted' = [list |-> l, kept |-> object /\ NothingLeft, stored |-> TRUE]

\* A mutation: a name that is there already is appended again.
SavedTwice(l, s) == Append(l, s)

\* Overwrites the snapshot of the same name, else appends.
SavedIn(l, s) ==
  IF Knows(l, s.name) THEN [l EXCEPT ![PlaceOf(l, s.name)] = s] ELSE Append(l, s)

\* SnapshotHandler.save and saveSnapshot; the tree is built again after it.
Save(n) ==
  /\ running = "on" /\ saves < MaxSaves /\ saves' = saves + 1
  /\ rebuilds < 2 /\ rebuilds' = rebuilds + 1
  /\ IF available
       THEN LET l == SavedIn(list, [name |-> n, save |-> saves + 1]) IN
            list' = l /\ persists' = Persisted(l) /\ Wanted(l)
       ELSE UNCHANGED <<list, persists, wanted>>
  /\ UNCHANGED <<running, available, emptied, object, text, oldFiles, offered, storeTurns>>

\* SnapshotHandler.delete and deleteSnapshot.
Delete(n) ==
  /\ running = "on" /\ available /\ Knows(list, n)
  /\ rebuilds < 2 /\ rebuilds' = rebuilds + 1
  /\ LET l == RemoveAt(list, PlaceOf(list, n)) IN
       /\ list' = l /\ persists' = Persisted(l) /\ Wanted(l)
       /\ emptied' = IF l = Empty THEN emptied + 1 ELSE emptied
  /\ UNCHANGED <<running, available, object, text, oldFiles, offered, saves, storeTurns>>

\* A write ends without the object: it was not there, or the database refused it and
\* persist only warns.
Unwritten(i) ==
  /\ persists' = RemoveAt(persists, i)
  /\ wanted' = [wanted EXCEPT !.stored = @ /\ i # Len(persists)]

\* persist and writeToDevice: the object is read; without it nothing is put.
PersistRead ==
  \E i \in DOMAIN persists :
    /\ ~persists[i].put /\ \A j \in 1 .. i - 1 : persists[j].put
    /\ \/ /\ object
          /\ persists' = [persists EXCEPT ![i].put = TRUE, ![i].was = TextOf(persists[i])]
          /\ UNCHANGED wanted
       \/ Unwritten(i)
    /\ UNCHANGED <<running, available, list, emptied, object, text, oldFiles, offered,
                   rebuilds, saves, storeTurns>>

\* A mutation: the list itself is merged, a shorter one keeps the old tail.
TailStays(old, new) == new \o SubSeq(old, Len(new) + 1, Len(old))

\* JSON text replaces what was there as a whole.
StoredAs(old, new) == new

\* extendObject: an empty list is the empty string. A failure leaves memory ahead.
PersistPut ==
  /\ persists # Empty /\ Head(persists).put
  /\ \/ /\ text' = IF object THEN StoredAs(text, Head(persists).was) ELSE text
        /\ persists' = Tail(persists) /\ UNCHANGED wanted
     \/ Unwritten(1) /\ UNCHANGED text
  /\ UNCHANGED <<running, available, list, emptied, object, oldFiles, offered,
                 rebuilds, saves, storeTurns>>

\* A mutation: the dropdown is built of what the device object holds.
OffersStored == NamesOf(text)

\* The names the dropdown is built of.
Offers == NamesOf(GetSnapshots)

\* refreshDeviceStates: onCloudDataReady builds the dropdown of the list as it
\* is when the build runs.
Rebuild ==
  /\ running = "on" /\ rebuilds > 0 /\ rebuilds' = rebuilds - 1
  /\ offered' = Offers
  /\ UNCHANGED <<running, available, list, emptied, persists, object, text, oldFiles,
                 wanted, saves, storeTurns>>

\* SnapshotHandler.restore takes the index in the list of the moment.
RestoredName(i) == GetSnapshots[i].name

-----------------------------------------------------------------------------
(* init(): the root store, then the data directory, then the device object. *)

\* A mutation: the carried list is put beside what the object has.
Beside(store) == oldFiles[store] \o text

\* carryOver writes the file's list over the object's.
CarriedOver(store) == oldFiles[store]

Removing(store) == IF store = "root" THEN "rootRemove" ELSE "dataDirRemove"
Behind(store) == IF store = "root" THEN "dataDir" ELSE "load"

\* carryOverRootStore and carryOverDataDir: the list goes to the object, then
\* the file is removed.
CarryWrite(store) ==
  /\ running = store
  /\ IF oldFiles[store] # Empty /\ object
       THEN text' = CarriedOver(store)
       ELSE UNCHANGED text
  /\ running' = Removing(store)
  /\ UNCHANGED <<available, list, emptied, persists, object, oldFiles, offered,
                 rebuilds, wanted, saves, storeTurns>>

\* A file that cannot be read, or whose device is not found, is dropped.
CarryDrops(store) ==
  /\ running = store /\ oldFiles[store] # Empty
  /\ running' = Removing(store)
  /\ wanted' = [wanted EXCEPT !.kept = FALSE]
  /\ UNCHANGED <<available, list, emptied, persists, object, text, oldFiles, offered,
                 rebuilds, saves, storeTurns>>

\* The store cannot be listed, or the data directory's write is refused: the file
\* stays for the next start. A refused write of the root store ends the start.
CarryFails(store) ==
  /\ running = store /\ oldFiles[store] # Empty
  /\ running' \in {Behind(store)} \cup (IF store = "root" THEN {"broken"} ELSE {})
  /\ UNCHANGED <<available, list, emptied, persists, object, text, oldFiles, offered,
                 rebuilds, wanted, saves, storeTurns>>

\* The file goes, or resists; the start goes on either way.
CarryRemove(store) ==
  /\ running = Removing(store) /\ running' = Behind(store)
  /\ \/ oldFiles' = [oldFiles EXCEPT ![store] = Empty]
     \/ UNCHANGED oldFiles
  /\ UNCHANGED <<available, list, emptied, persists, object, text, offered, rebuilds,
                 wanted, saves, storeTurns>>

\* The device objects are read, or the read fails: then nothing is saved later.
LoadLists ==
  /\ running = "load"
  /\ running' = "on"
  /\ \/ list' = (IF object THEN text ELSE Empty) /\ available' = TRUE
     \/ list' = Empty /\ available' = FALSE
  /\ rebuilds' = 1
  /\ UNCHANGED <<emptied, persists, object, text, oldFiles, offered, wanted, saves,
                 storeTurns>>

\* The adapter stops, also between two steps: of the writes that were put the
\* database still takes those up to one; one waiting for its read is lost.
StopStore ==
  /\ running # "off" /\ storeTurns < MaxStoreTurns /\ storeTurns' = storeTurns + 1
  /\ running' = "off" /\ available' = FALSE /\ list' = Empty /\ emptied' = 0
  /\ \E last \in {0} \cup {i \in DOMAIN persists : persists[i].put} :
       /\ text' = IF last > 0 /\ object THEN persists[last].was ELSE text
       /\ wanted' = [wanted EXCEPT !.kept = @ /\ wanted.stored /\ last = Len(persists),
                                  !.stored = TRUE]
  /\ persists' = Empty /\ rebuilds' = 0
  /\ UNCHANGED <<object, oldFiles, offered, saves>>

StartStore ==
  /\ running = "off" /\ running' = "root"
  /\ UNCHANGED <<available, list, emptied, persists, object, text, oldFiles, offered,
                 rebuilds, wanted, saves, storeTurns>>

\* The light leaves the account and its object goes; or it comes back to a new
\* object.
LightLeaves ==
  /\ running = "on" /\ storeTurns < MaxStoreTurns /\ storeTurns' = storeTurns + 1
  /\ object' = ~object /\ text' = Empty
  /\ wanted' = [wanted EXCEPT !.kept = FALSE]
  /\ UNCHANGED <<running, available, list, emptied, persists, oldFiles, offered,
                 rebuilds, saves>>

StoreInit ==
  /\ running = "off" /\ available = FALSE /\ list = Empty /\ emptied = 0
  /\ persists = Empty /\ object = TRUE /\ text = Empty
  /\ oldFiles \in [Stores -> OldLists \cup {Empty}]
  /\ offered = Empty /\ rebuilds = 0 /\ saves = 0 /\ storeTurns = 0
  /\ wanted = [list |-> IF oldFiles["root"] # Empty THEN oldFiles["root"] ELSE oldFiles["dataDir"],
               kept |-> \E s \in Stores : oldFiles[s] = Empty, stored |-> TRUE]

StoreNext ==
  \/ \E n \in SnapshotName : Save(n) \/ Delete(n)
  \/ PersistRead \/ PersistPut \/ Rebuild
  \/ \E s \in Stores : CarryWrite(s) \/ CarryDrops(s) \/ CarryFails(s) \/ CarryRemove(s)
  \/ LoadLists \/ StartStore \/ StopStore \/ LightLeaves

StoreSpec == StoreInit /\ [][StoreNext]_storeVars

-----------------------------------------------------------------------------
(* Properties.                                                             *)

\* Types; a name is in the list once; a store that could not be read is empty.
StoreTypeOK ==
  /\ list \in Seq([name : SnapshotName, save : 0 .. MaxSaves])
  /\ \A i, j \in DOMAIN list : list[i].name = list[j].name => i = j
  /\ ~available => list = Empty
  /\ object \in BOOLEAN /\ rebuilds \in 0 .. 2

\* The list the user last made is what a start reads and memory holds: overlapping
\* writes, an emptied and refilled list, a failed read of the objects, old files that
\* are listed, written or removed only at a later start, with a stop at any point of
\* their carry-over, lose and revive nothing (local-snapshots.ts). Excepted (~kept) is a
\* list whose last write failed or was cut off by the stop, one made while an old file
\* was left or the light's object was away, an old file that could not be read, and two
\* old stores with a list each; and, until the next start, an old file that stayed.
StartReadsTheLast ==
  running = "on" /\ available /\ wanted.kept /\ NothingLeft => list = wanted.list

\* Once nothing is under way the device object holds what the memory holds, unless the
\* write asked last failed.
StoredOnceSettled ==
  running = "on" /\ available /\ wanted.kept /\ wanted.stored /\ NothingLeft /\ persists = Empty
    => text = list

\* Refuted: the same whatever failed; persist only warns (local-snapshots.ts:238-240).
StoredAnyhow ==
  running = "on" /\ available /\ object /\ persists = Empty => text = list

\* Refuted: no start loses a snapshot that reached the object. An old file that stayed
\* is carried over the newer list (local-snapshots.ts:340-347, 372-376).
SavedHere == {t \in Range(text) : t.save > 0}
NewerListStays == [][(running \in Stores => SavedHere \subseteq SavedHere')]_storeVars

\* Refuted: of two old stores the newer one, the root's, is kept; the data directory's
\* list is written over it (local-snapshots.ts:127-130).
RootStoreWins == [][running = "dataDir" /\ text # Empty => text' = text]_storeVars

\* Once the rebuilds ran, an entry of the dropdown restores the snapshot it names.
OfferedIsRestored ==
  running = "on" /\ rebuilds = 0
    => \A i \in DOMAIN offered : i \in DOMAIN GetSnapshots /\ RestoredName(i) = offered[i]

\* Refuted: the same before the rebuild ran; a delete moves the entries.
OfferedIsAlwaysRestored ==
  running = "on" => \A i \in DOMAIN offered :
    i \in DOMAIN GetSnapshots => RestoredName(i) = offered[i]

\* A start reads the snapshots as they were last, in one place, and each entry
\* restores what it names.
SnapshotsAreKept ==
  /\ StoreTypeOK
  /\ StartReadsTheLast
  /\ StoredOnceSettled
  /\ OfferedIsRestored
=============================================================================
