\* Side by side: pushes of any frames, edits and tree builds of one strip; overlapping
\* handlers of the wizard, over the cloud and over the LAN; saves, deletes, failing
\* writes, restarts and the carry-over of old stores of the local snapshots.
\* Pushes, messages and edits run out and the adapter stops: the system may stop.
SPECIFICATION MCSpec
CONSTANTS
  CountMax = 5
  MaxPushes = 2
  MaxEdits = 2
  Strips <- MCStrips
  SegmentLists <- MCLists
  Message = {m1, m2, m3}
  m1 = m1
  m2 = m2
  m3 = m3
  LastIndex = 1
  OverLan = {m1}
  SnapshotName = {"a", "b"}
  OldLists <- MCOld
  MaxSaves = 2
  MaxStoreTurns = 2
INVARIANTS SessionIsWatched SnapshotsAreKept
PROPERTIES SegmentsAgree LockIsReleased
CHECK_DEADLOCK FALSE
