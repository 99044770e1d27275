SPECIFICATION Spec
CONSTANTS
  stdafx = stdafx
  winapp = winapp
  A = A
  H = H
  v1 = v1
  v2 = v2
  None = None
  Source = {stdafx, winapp}
  Header = {A, H}
  Version = {v1, v2}
  Uses <- MCUses
  Batches <- MCBatches
  Tracked = TRUE
  MaxBuilds = 5
  MaxEdits = 4
  MaxLost = 1
INVARIANTS
  StartedOnce
  HeadersAreRecorded
  ObjectsAreCurrent
  BuildIsCached
CHECK_DEADLOCK FALSE
