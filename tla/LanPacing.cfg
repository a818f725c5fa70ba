\* Six datagrams to two lights, sent within two ticks.
\* Commands run out and the client stops: the system may stop.
SPECIFICATION FairSpec
CONSTANTS
  Datagram = {d1, d2, d3, d4, d5, d6}
  d1 = d1
  d2 = d2
  d3 = d3
  d4 = d4
  d5 = d5
  d6 = d6
  Light = {a, b}
  a = a
  b = b
  onB = {d6}
  lightOf <- MCLightOf
  MaxPerWindow = 2
  WindowLength = 2
  LastAsk = 2
  MaxLateness = 1
  MaxTime = 9
INVARIANT DatagramsLeaveInOrder
PROPERTY EveryDatagramLeaves
CHECK_DEADLOCK FALSE
