--------------------------- MODULE MCRateLimiter ---------------------------
(***************************************************************************)
(* Calls of a light, an appliance and the App API: two commands to the      *)
(* light (its control lane, no daily allowance of its own), a state read    *)
(* and two refreshes of the appliance (its read lane, its own allowance),   *)
(* and a library call.  A .cfg picks the calls of its run.                  *)
(***************************************************************************)
EXTENDS RateLimiter, TLC

CONSTANTS light, appliance, cmd1, cmd2, state1, refresh1, refresh2, lib1

MCLane(c) ==
  CASE c \in {cmd1, cmd2} -> DeviceControl(light)
    [] c \in {state1, refresh1, refresh2} -> DeviceRead(appliance)
    [] OTHER -> AppApi
MCPriority(c) ==
  CASE c \in {cmd1, cmd2} -> 0
    [] c = state1 -> 1
    [] c = lib1 -> 2
    [] OTHER -> 3

MCLaneOf == [c \in Call |-> MCLane(c)]
MCPriorityOf == [c \in Call |-> MCPriority(c)]
MCBudgeted == Call \cap {state1, refresh1, refresh2}
MCChargedCommands == {cmd1, cmd2}
MCTracked == Call \ {state1, refresh1, refresh2}

\* Commands differ in nothing but their names, and so do refreshes.
Alike == Permutations({cmd1, cmd2}) \cup Permutations({refresh1, refresh2})
=============================================================================
