\* Four requests to two hosts, asked for at once, under a limit per host and one per
\* account.  All have gone out in the end: the system may stop.
SPECIFICATION FairSpec
CONSTANTS
  Call = {c1, c2, c3, c4}
  c1 = c1
  c2 = c2
  c3 = c3
  c4 = c4
  Host = {a, b}
  a = a
  b = b
  onB = {c4}
  hostOf <- MCHostOf
  Limit = {burst, minute}
  burst = burst
  minute = minute
  maxOf <- MCMaxOf
  windowOf <- MCWindowOf
  PerHost = {burst}
  HoldMs = {1, 3}
  LastAsk = 0
  MaxLateness = 1
  MaxTime = 10
PROPERTIES HostsAreSpared EveryWaiterGoesOut
CHECK_DEADLOCK FALSE
