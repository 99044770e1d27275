SPECIFICATION FairSpec
CONSTANTS
  winapp = winapp
  resource = resource
  d1 = d1
  d2 = d2
  None = None
  File = {winapp, resource}
  Dir = {d1, d2}
  DirOf <- OwnDirs
  MixedCase = {resource}
  Version = {v1, v2}
  Headers <- MCHeaders
  Client = {c1, c2}
  DisableWatching = FALSE
  Excluded = {}
  MaxAsks = 3
  MaxEdits = 2
  MaxStops = 1
INVARIANTS
  StaleIsPending
  AnswersAreCurrent
PROPERTIES
  RequestsEnd
CHECK_DEADLOCK FALSE
