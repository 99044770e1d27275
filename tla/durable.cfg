SPECIFICATION FairSpec
CONSTANTS
  Proc = {p1, p2}
  Unit = {u1}
  Version = {v1, v2}
  Stamp = {s1, s2}
  NSlots = 2
  Section = {1, 2}
  OldSections = {1, 2}
  Async = TRUE
  EditAnytime = TRUE
  MaxSize = 100
  MaxRuns = 2
  Commands = {"clean"}
  FaultKinds = {"crash", "delete"}
  MaxFaults = 1
  None = None
  Husk = Husk
  ManSection <- MCManSection
  ObjSection <- MCObjSection
INVARIANTS
  UniqueDeps
  EntriesAreBacked
  ObjectsAreCounted
  BuildsAreCached
PROPERTIES
  EntriesSurvive
  EveryRunEnds
CHECK_DEADLOCK FALSE
