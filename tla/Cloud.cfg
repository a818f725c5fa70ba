\* Side by side, in every order of their own events: the device list and its loop,
\* the Cloud-events channel, the libraries, one device's reachability, the question
\* after a failed command.
\* A client disposed of, an adapter unloaded and a load that ended do nothing more.
SPECIFICATION MCSpec
CONSTANTS
  MaxRefusals = 3
  ConnectWindow = 3
  MaxTroubles = 5
  Light = {l1, l2}
  LoadRun = {r1}
  MaxTurns = 1
  TTL = 3
  REFRESH = 2
  MaxHeard = 5
  MaxAsk = 3
INVARIANTS LibrariesAreAsked OnlineIsEvidence
PROPERTIES CloudIsTracked EventsFlow FailureIsFollowedUp WhatIsOwedComes
CHECK_DEADLOCK FALSE
