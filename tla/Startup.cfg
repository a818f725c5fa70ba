\* Two starts of the adapter, a light and a sensor of which only the light is on the
\* LAN, a command and a report of one of two values at any point of the start, a stop
\* or a crash in it.
\* The adapter stops for good after its last run.
SPECIFICATION StartFairSpec
CONSTANTS
  Device = {light, sensor}
  LanDevice = {light}
  Word = {on, off}
  NoWord = none
  MaxRuns = 2
  MaxSpoken = 1
PROPERTIES StartIsOrdered ReadyIsSaid
CHECK_DEADLOCK FALSE
