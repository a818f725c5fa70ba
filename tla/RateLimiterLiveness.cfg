\* Two commands and a library call, over two lanes.
\* The system may stop as above.
SPECIFICATION FairSpec
CONSTANTS
  light = light
  appliance = appliance
  cmd1 = cmd1
  cmd2 = cmd2
  state1 = state1
  refresh1 = refresh1
  refresh2 = refresh2
  lib1 = lib1
  Call = {cmd1, cmd2, lib1}
  Device = {light}
  laneOf <- MCLaneOf
  priorityOf <- MCPriorityOf
  Budgeted <- MCChargedCommands
  Tracked <- MCTracked
  AccountListPerMinute = 1
  AppApiPerMinute = 1
  DeviceReadPerMinute = 1
  DeviceBurst = 1
  AccountBurst = 1
  PerDay = 2
  AppliancePerDay = 2
  MaxQueueLength = 1
PROPERTY TrackedCallsSettle
CHECK_DEADLOCK FALSE
