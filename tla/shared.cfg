SPECIFICATION Spec
CONSTANTS
  m1 = m1
  m2 = m2
  u1 = u1
  u2 = u2
  h1 = h1
  h2 = h2
  b1 = b1
  b2 = b2
  b3 = b3
  None = None
  Machine = {m1, m2}
  Unit = {u1, u2}
  Header = {h1, h2}
  Object <- MCObject
  DefaultChunk = 2
  ConfiguredChunk <- MCChunk
  MaxBuilds = 2
  MaxFaults = 1
  MaxLost = 1
INVARIANTS
  HitsAreSound
  UniqueDeps
  EntriesAreBacked
  BuildIsCached
CHECK_DEADLOCK FALSE
