SPECIFICATION Spec
CONSTANTS
  Unit = {stdafx, winapp}
  Version = {v1, v2}
  None = None
  Empty = Empty
  Torn = Torn
  OldObjects = FALSE
  MaxBuilds = 3
  MaxFaults = 1
SYMMETRY Symmetry
INVARIANTS
  LinkedIsCurrent
  EntriesAreSound
  LinkIsCached
  LinksSucceed
CHECK_DEADLOCK FALSE
