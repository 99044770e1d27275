SPECIFICATION Spec
CONSTANTS
  Unit = {stdafx, a, b, c, d, other}
  Shared = {other}
  SharedCreator = other
  User = d
  Creator = stdafx
  Plain = c
  Version = {v1, v2}
  None = None
  MaxBuilds = 3
  MaxEdits = 2
  MaxLost = 1
  Pch <- MCPch
INVARIANTS
  PchTogether
  ParentIsFound
  AllRebuilt
  NoNeedlessBuild
  AllCached
CHECK_DEADLOCK FALSE
