\* Two commands to one datapoint, each sent up to twice, through the limiter.
\* Commands run out and the router stops: the system may stop.
SPECIFICATION SendFairSpec
CONSTANTS
  Command = {w1, w2}
  w1 = w1
  w2 = w2
  s = s
  Slot = {s}
  slotOf <- MCSlotOf
  MaxAttempts = 2
  device = device
  DeviceBurst = 1
  AccountBurst = 1
  PerDay = 2
  MaxQueueLength = 1
PROPERTIES SentOnceInOrder EveryWriteEnds
CHECK_DEADLOCK FALSE
