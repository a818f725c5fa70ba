------------------------------ MODULE MCTrees ------------------------------
(***************************************************************************)
(* The object trees, checked side by side: what a tree holds, the values   *)
(* the adapter shows of itself, and an appliance's settings as its tree    *)
(* has them.  The three share no variable, so each behaviour runs one of   *)
(* them and the others rest in an initial state.                           *)
(***************************************************************************)
EXTENDS StateTree, ShownValues, Appliance, TLC

CONSTANTS TreeNews, ShownNews    \* bounds: how often a part hears something new

VARIABLES
    part,
    news     \* how often something new was heard (bound)

allVars == <<part, news, treeVars, shownVars, applianceVars>>

\* A part at rest begins in one state, not in every one of its initial states.
AtRest ==
  /\ part # "tree" => ~key /\ lamp = CHOOSE f \in [Lamps -> NewLamp] : TRUE
  /\ part # "shown" => built = {}
  /\ part # "appliance" => /\ shape = CHOOSE s \in Shapes : s.kind = "mode"
                           /\ dev[1] = shape.modes[1]

MCInit ==
  /\ part \in {"tree", "shown", "appliance"}
  /\ TreeInit /\ ShownInit /\ ApplianceInit
  /\ AtRest
  /\ news = 0

\* Bound: what a list says of a light - all of it, no toggle, or only the toggle.
MCLists == {{}, Capability, Capability \ {"toggle"}, {"toggle"}}
ListsAreFew == \A l \in Lamps : lamp'[l].caps \in MCLists

\* Counts the steps that bring something new: an address, a list, a library, the
\* members of the group; a device that comes, goes, answers or falls silent.
Hears(new, most) == news' = (IF new THEN news + 1 ELSE news) /\ news' <= most

MCNext ==
  /\ part' = part
  /\ \/ /\ part = "tree" /\ TreeNext /\ ListsAreFew
        /\ Hears(lamp' # lamp \/ Len(chain'[Group]) > Len(chain[Group]), TreeNews)
        /\ UNCHANGED <<shownVars, applianceVars>>
     \/ /\ part = "shown" /\ ShownNext
        /\ Hears(up' = "run" /\ <<heard, here, group>>' # <<heard, here, group>>, ShownNews)
        /\ UNCHANGED <<treeVars, applianceVars>>
     \/ part = "appliance" /\ ApplianceNext /\ UNCHANGED <<news, treeVars, shownVars>>

MCSpec == MCInit /\ [][MCNext]_allVars

-----------------------------------------------------------------------------
CONSTANTS d1, d2, lamp1     \* devices with a tree

MCLamps == {lamp1}
MCDevs == {d1, d2}
MCLightDevs == {d1}

ModeDevice(list, range, flat, named, most, turned) ==
    [kind |-> "mode", modes |-> <<1, 2>>, list |-> list, range |-> range, dflt |-> [m \in 1..2 |-> 0],
     bare |-> None, flat |-> flat, named |-> named, ops |-> most, turns |-> turned]
HeatDevice(lo, hi, inF, inField, stops, most, turned) ==
    [kind |-> "heat", inField |-> inField, lo |-> lo, hi |-> hi, fahrenheit |-> inF, stops |-> stops, ops |-> most, turns |-> turned]
NoRange == <<None, None>>
MCShapes ==
    {ModeDevice(<<<<1, 2>>, <<3>>>>, NoRange, <<>>, TRUE, 2, 0),          \* levels of two modes
     ModeDevice(<<<<1, 2>>, <<2>>>>, NoRange, <<>>, TRUE, 1, 1),          \* both count the same level
     ModeDevice(<<<<1>>, <<>>>>, <<None, <<1, 2>>>>, <<>>, TRUE, 1, 1),   \* one has a range
     ModeDevice(<<<<>>, <<>>>>, NoRange, <<2, 3>>, FALSE, 1, 1),          \* levels of every mode, no names
     ModeDevice(<<<<>>, <<>>>>, NoRange, <<>>, TRUE, 1, 1),               \* no level at all
     HeatDevice(41, 86, TRUE, TRUE, {0, 1}, 1, 0),                              \* a heater, every degree of it
     HeatDevice(41, 43, TRUE, TRUE, {0, 1}, 2, 0),
     HeatDevice(41, 43, TRUE, TRUE, {0}, 1, 1),
     HeatDevice(50, 52, FALSE, TRUE, {}, 1, 1),
     [ModeDevice(<<<<>>, <<>>>>, NoRange, <<>>, TRUE, 1, 1) EXCEPT !.bare = <<1, 3>>],   \* a slider of a bare range
     HeatDevice(41, 43, TRUE, FALSE, {0, 1}, 2, 0),                             \* its range is not clamped to
     HeatDevice(50, 52, FALSE, FALSE, {}, 1, 1)}
MCLevels == 0..3
MCWishes == {203, 340}
=============================================================================
