\* Two commands to a light and three reads of an appliance: the account's day, the
\* appliance's day, the lanes and the queue are each hit while calls wait for another.
\* Calls run out and the limiter stops: the system may stop.
SPECIFICATION Spec
CONSTANTS
  light = light
  appliance = appliance
  cmd1 = cmd1
  cmd2 = cmd2
  state1 = state1
  refresh1 = refresh1
  refresh2 = refresh2
  lib1 = lib1
  Call = {cmd1, cmd2, state1, refresh1, refresh2}
  Device = {light, appliance}
  laneOf <- MCLaneOf
  priorityOf <- MCPriorityOf
  Budgeted <- MCBudgeted
  Tracked <- MCTracked
  AccountListPerMinute = 1
  AppApiPerMinute = 1
  DeviceReadPerMinute = 1
  DeviceBurst = 1
  AccountBurst = 1
  PerDay = 2
  AppliancePerDay = 1
  MaxQueueLength = 2
INVARIANTS BudgetsAddUp WithinLimits NoLostCaller
PROPERTIES LanesAreKept ImplementsAllowances
SYMMETRY Alike
CHECK_DEADLOCK FALSE
