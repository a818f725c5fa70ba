------------------------------- MODULE IdMove -------------------------------
(***************************************************************************)
(* The move of every device tree to its id under the rule of 3.0.0         *)
(* (device-id-migration.ts, device-move.ts, enum-carry.ts, device-id.ts):  *)
(* ioBroker has no rename, so each tree is written again under its new id  *)
(* and the old one deleted, object by object, once per start before        *)
(* anything else touches a tree.  The start may die between any two calls  *)
(* to the database, and any call may fail; the user's recordings, values,  *)
(* aliases and rooms hang on the objects that move.                        *)
(***************************************************************************)
EXTENDS Sequences, Naturals, FiniteSets, NoValue

CONSTANTS Dev,             \* devices of one model, in the order of their ids (1, 2, ...)
          MaxStarts,       \* bound: starts of the adapter
          Mishaps          \* what may go wrong: [collide, fails : BOOLEAN]

\* A tree: its id under the rule of 2.x, the new one with the last four characters of the
\* device's id, or the new one with all of them.
Prefix == {"old", "long", "short"} \X Dev

ASSUME MoveAssumption ==
    /\ Cardinality(Dev) \in Nat /\ Dev = 1..Cardinality(Dev) /\ MaxStarts \in Nat
    /\ None \notin Dev \cup Prefix
    /\ Mishaps \subseteq [collide : BOOLEAN, fails : BOOLEAN]

VARIABLES
    mishap,      \* ids that end alike; database calls that fail
    starts,      \* bound
    root,        \* the device objects
    point,       \* the datapoint below each of them
    alias,       \* the tree the user's alias on a device's datapoint points at
    room,        \* the tree the user's room lists for a device; None: the entry is gone
    registry,    \* DeviceIdRegistry: the tree of each device
    unmoved,     \* trees a failed move left under their old id
    complete,    \* trees found whole, or moved, at this start
    pending,     \* the trees still to move
    step,        \* the next call of the move under way; "down" and "running" outside of a start
    plan         \* carryPlan: the rooms read before the delete

moveVars == <<mishap, starts, root, point, alias, room, registry, unmoved, complete, pending, step, plan>>

Old(d) == <<"old", d>>
Long(d) == <<"long", d>>
Short(d) == IF mishap.collide THEN <<"short", 1>> ELSE <<"short", d>>

NoRoot == [dev |-> None, marked |-> FALSE, movingTo |-> None]
NoPoint == [of |-> None, rec |-> FALSE, val |-> FALSE]

-----------------------------------------------------------------------------
\* DeviceIdRegistry.
\* Each operator takes and returns the registry: device -> tree.
Seeds(r, d, p) == r[d] = p \/ (r[d] = None /\ \A e \in Dev : r[e] # p)
seed(r, d, p) == IF Seeds(r, d, p) THEN [r EXCEPT ![d] = p] ELSE r

\* Wrong: the short id is handed out although another device has it.
ShortForAll(r, d) == Short(d)
\* Wrong: the id is read one digit off.
IdOfNobody(r, d) == <<"short", d - 1>>
deviceIdFor(r, d) == IF \A e \in Dev : r[e] # Short(d) THEN Short(d) ELSE Long(d)
prefixFor(r, d) == IF r[d] # None THEN r[d] ELSE deviceIdFor(r, d)

\* keepUnmoved: the id handed out for the move is free again.
keepUnmoved(r, d, p) == seed([r EXCEPT ![d] = None], d, p)

-----------------------------------------------------------------------------
\* migrateDeviceIds.
Trees == {p \in Prefix : root[p].dev # None}
IsMarked(p) == root[p].marked /\ root[p].movingTo = None

\* The trees come in the order of the object listing, which is the database's.
FirstListed(ts) == CHOOSE p \in ts : TRUE

\* Trees with the mark are recorded first, then the targets of interrupted moves.
FirstSeeds == [d \in Dev |->
    LET marked == {p \in Trees : IsMarked(p) /\ root[p].dev = d}
    IN IF marked = {} THEN None ELSE FirstListed(marked)]
Journal(d) == {p \in Trees : root[p].dev = d /\ ~root[p].marked /\ root[p].movingTo \notin {None, p}}
JournalSeeds(r) == [d \in Dev |->
    LET free == {p \in Journal(d) : /\ \A e \in Dev : r[e] # root[p].movingTo
                                    /\ \A e \in 1..(d - 1) : \A q \in Journal(e) : root[q].movingTo # root[p].movingTo}
    IN IF r[d] = None /\ free # {} THEN root[FirstListed(free)].movingTo ELSE r[d]]

Idle(at) == [at |-> at, tree |-> None, to |-> None, fill |-> FALSE, whole |-> FALSE]

Start ==
    /\ step.at = "down" /\ starts < MaxStarts
    /\ starts' = starts + 1
    /\ LET first == FirstSeeds
           known == {p \in Trees : IsMarked(p) /\ first[root[p].dev] = p}
       IN /\ registry' = JournalSeeds(first)
          /\ complete' = known
          /\ pending' = Trees \ known
    /\ unmoved' = {} /\ plan' = {}
    /\ step' = Idle("next")
    /\ UNCHANGED <<mishap, root, point, alias, room>>

\* The trees to move in the order of the device's id, then of their own: the `_` of an id of
\* 2.x sorts before the `-` of the new one.
Sorted(t, u) ==
    /\ root[t].dev <= root[u].dev
    /\ root[t].dev = root[u].dev /\ u[1] = "old" => t[1] = "old"

\* The next tree; one already under its id only gets the mark.
NextTree ==
    /\ step.at = "next"
    /\ \E t \in pending :
         /\ \A u \in pending : Sorted(t, u)
         /\ LET d == root[t].dev
                to == prefixFor(registry, d)
            IN /\ pending' = pending \ {t}
               /\ registry' = seed(registry, d, to)
               /\ IF to = t
                  THEN /\ root' = [root EXCEPT ![t].marked = TRUE]
                       /\ complete' = complete \cup {t}
                       /\ UNCHANGED step
                  ELSE /\ step' = [at |-> "journal", tree |-> t, to |-> to, fill |-> to \in complete,
                                   whole |-> FALSE]
                       /\ UNCHANGED <<root, complete>>
    /\ UNCHANGED <<mishap, starts, point, alias, room, unmoved, plan>>

At(here, next) == step.at = here /\ step' = [step EXCEPT !.at = next]
mover == root[step.tree].dev

writeJournal ==
    /\ At("journal", "read")
    /\ root' = IF step.fill THEN root ELSE [root EXCEPT ![step.tree].movingTo = step.to]
    /\ UNCHANGED <<mishap, starts, point, alias, room, registry, unmoved, complete, pending, plan>>

\* Wrong: a target that has its device object is taken for a whole copy.
HasRoot(to) == root[to].dev # None
\* copyDeviceTree: a target whose device object has the mark is a whole copy.
IsWhole(to) == root[to].marked

readObjects ==
    /\ step.at = "read"
    /\ LET whole == ~step.fill /\ IsWhole(step.to)
       IN step' = [step EXCEPT !.whole = whole, !.at = IF whole THEN "alias" ELSE "point"]
    /\ UNCHANGED <<mishap, starts, root, point, alias, room, registry, unmoved, complete, pending, plan>>

\* The objects below the root first; a leftover only fills in, and hands on its recording.
CarriedPoint(from, to) ==
    IF from.of = None THEN to
    ELSE IF step.fill /\ to.of # None THEN [to EXCEPT !.rec = @ \/ from.rec]
    ELSE [of |-> from.of, rec |-> from.rec, val |-> to.val]

copyPoint ==
    /\ At("point", "root")
    /\ point' = [point EXCEPT ![step.to] = CarriedPoint(point[step.tree], @)]
    /\ UNCHANGED <<mishap, starts, root, alias, room, registry, unmoved, complete, pending, plan>>

copyRoot ==
    /\ At("root", "values")
    /\ root' = IF step.fill /\ root[step.to].dev # None THEN root
               ELSE [root EXCEPT ![step.to] = [root[step.tree] EXCEPT !.movingTo = None]]
    /\ UNCHANGED <<mishap, starts, point, alias, room, registry, unmoved, complete, pending, plan>>

copyValues ==
    /\ At("values", "alias")
    /\ point' = [point EXCEPT ![step.to].val =
                   IF step.fill /\ @ THEN @ ELSE @ \/ point[step.tree].val]
    /\ UNCHANGED <<mishap, starts, root, alias, room, registry, unmoved, complete, pending, plan>>

\* Wrong: the aliases are left to the user.
AliasesLeft ==
    /\ At("alias", "mark")
    /\ UNCHANGED <<mishap, starts, root, point, alias, room, registry, unmoved, complete, pending, plan>>

retargetAliases ==
    /\ At("alias", "mark")
    /\ alias' = [d \in Dev |-> IF alias[d] = step.tree THEN step.to ELSE alias[d]]
    /\ UNCHANGED <<mishap, starts, root, point, room, registry, unmoved, complete, pending, plan>>

markRoot ==
    /\ At("mark", "plan")
    /\ root' = IF step.fill \/ step.whole THEN root ELSE [root EXCEPT ![step.to].marked = TRUE]
    /\ UNCHANGED <<mishap, starts, point, alias, room, registry, unmoved, complete, pending, plan>>

\* removeCarryingEnums: read the rooms, delete deepest first, write the rooms.
readRooms ==
    /\ At("plan", "deletePoint")
    /\ plan' = {d \in Dev : room[d] = step.tree}
    /\ UNCHANGED <<mishap, starts, root, point, alias, room, registry, unmoved, complete, pending>>

deletePoint ==
    /\ At("deletePoint", "deleteRoot")
    /\ point' = [point EXCEPT ![step.tree] = NoPoint]
    /\ room' = [d \in Dev |-> IF room[d] = step.tree THEN None ELSE room[d]]
    /\ UNCHANGED <<mishap, starts, root, alias, registry, unmoved, complete, pending, plan>>

deleteRoot ==
    /\ At("deleteRoot", "rooms")
    /\ root' = [root EXCEPT ![step.tree] = NoRoot]
    /\ UNCHANGED <<mishap, starts, point, alias, room, registry, unmoved, complete, pending, plan>>

writeRooms ==
    /\ step.at = "rooms"
    /\ room' = [d \in Dev |-> IF d \in plan THEN step.to ELSE room[d]]
    /\ complete' = complete \cup {step.to}
    /\ plan' = {} /\ step' = Idle("next")
    /\ UNCHANGED <<mishap, starts, root, point, alias, registry, unmoved, pending>>

\* A call fails: the device keeps its old tree for this session.
MoveFails ==
    /\ mishap.fails
    /\ step.at \in {"journal", "read", "point", "root", "values", "alias", "mark", "deletePoint", "deleteRoot"}
    /\ registry' = keepUnmoved(registry, mover, step.tree)
    /\ unmoved' = unmoved \cup {step.tree}
    /\ plan' = {} /\ step' = Idle("next")
    /\ UNCHANGED <<mishap, starts, root, point, alias, room, complete, pending>>

StartEnds ==
    /\ step.at = "next" /\ pending = {}
    /\ step' = Idle("running")
    /\ UNCHANGED <<mishap, starts, root, point, alias, room, registry, unmoved, complete, pending, plan>>

\* The session builds the tree of each device where the registry says; an
\* unmoved tree does not get the mark (createInfoStates).
MarksBuild(p) == p \notin unmoved

Build(d) ==
    /\ step.at = "running"
    /\ LET p == prefixFor(registry, d)
       IN /\ registry' = seed(registry, d, p)
          /\ root' = [root EXCEPT ![p].dev = d, ![p].marked = @ \/ MarksBuild(p)]
          /\ point' = IF point[p].of = None THEN [point EXCEPT ![p].of = d] ELSE point
    /\ UNCHANGED <<mishap, starts, alias, room, unmoved, complete, pending, step, plan>>

\* A stop in the session, or the process dies between any two calls.
Dies ==
    /\ step.at # "down" /\ step' = Idle("down")
    /\ registry' = [d \in Dev |-> None] /\ unmoved' = {} /\ complete' = {} /\ pending' = {} /\ plan' = {}
    /\ UNCHANGED <<mishap, starts, root, point, alias, room>>

-----------------------------------------------------------------------------
MoveInit ==
    /\ mishap \in Mishaps
    /\ starts = 0
    /\ root = [p \in Prefix |-> IF p[1] = "old" THEN [NoRoot EXCEPT !.dev = p[2]] ELSE NoRoot]
    /\ point = [p \in Prefix |-> IF p[1] = "old" THEN [of |-> p[2], rec |-> TRUE, val |-> TRUE] ELSE NoPoint]
    /\ alias = [d \in Dev |-> Old(d)] /\ room = [d \in Dev |-> Old(d)]
    /\ registry = [d \in Dev |-> None]
    /\ unmoved = {} /\ complete = {} /\ pending = {} /\ plan = {}
    /\ step = Idle("down")

MoveCall == \/ writeJournal \/ readObjects \/ copyPoint \/ copyRoot \/ copyValues \/ retargetAliases
            \/ markRoot \/ readRooms \/ deletePoint \/ deleteRoot \/ writeRooms

MoveNext == Start \/ NextTree \/ MoveCall \/ MoveFails \/ StartEnds \/ Dies \/ \E d \in Dev : Build(d)

MoveSpec == MoveInit /\ [][MoveNext]_moveVars

-----------------------------------------------------------------------------
Place == {"down", "next", "running", "journal", "read", "point", "root", "values", "alias", "mark", "plan",
          "deletePoint", "deleteRoot", "rooms"}
OptPrefix == Prefix \cup {None}

MoveTypeOK ==
    /\ mishap \in Mishaps /\ starts \in 0..MaxStarts
    /\ root \in [Prefix -> [dev : Dev \cup {None}, marked : BOOLEAN, movingTo : OptPrefix]]
    /\ point \in [Prefix -> [of : Dev \cup {None}, rec : BOOLEAN, val : BOOLEAN]]
    /\ alias \in [Dev -> Prefix] /\ room \in [Dev -> OptPrefix]
    /\ registry \in [Dev -> OptPrefix] /\ plan \subseteq Dev
    /\ unmoved \subseteq Prefix /\ complete \subseteq Prefix /\ pending \subseteq Prefix
    /\ step \in [at : Place, tree : OptPrefix, to : OptPrefix, fill : BOOLEAN, whole : BOOLEAN]

\* The recording and the stored value of a device's datapoint exist at every
\* moment, whenever the process dies and, as long as no two ids end alike,
\* whichever call fails (device-move.ts: an interrupted copy is done again,
\* the mark says the copy is whole, the old tree goes last).
RecordingSurvives == \A d \in Dev : \E p \in Prefix : point[p] = [of |-> d, rec |-> TRUE, val |-> TRUE]

\* No tree ever holds the datapoint of one device below the object of another,
\* and a session never builds two devices into one tree (DeviceIdRegistry).
TreesAreApart ==
    /\ \A p \in Prefix : root[p].marked => point[p].of = root[p].dev \/ point[p].of = None
    /\ \A d, e \in Dev : registry[d] = registry[e] /\ registry[d] # None => d = e

\* Once the start has moved everything, each alias, plain or carried over an
\* interrupted move, points at the tree its own device is built in.
AliasesFollow ==
    step.at = "running" /\ unmoved = {} => \A d \in Dev : alias[d] = prefixFor(registry, d)

\* Refuted: the room of a device survives the move.
RoomsSurvive == step.at = "running" /\ unmoved = {} => \A d \in Dev : room[d] # None

\* A move loses no recording, mixes up no two devices and takes the aliases
\* along.
MoveKeepsAll ==
  /\ MoveTypeOK
  /\ RecordingSurvives
  /\ TreesAreApart
  /\ AliasesFollow
=============================================================================
