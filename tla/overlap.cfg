SPECIFICATION Spec
CONSTANTS
  Proc = {p1, p2}
  Unit = {u1}
  Version = {v1}
  Stamp = {s1, s2}
  NSlots = 1
  Section = {1}
  OldSections = {}
  Async = TRUE
  EditAnytime = FALSE
  MaxSize = 100
  MaxRuns = 3
  Commands = {}
  FaultKinds = {}
  MaxFaults = 0
  None = None
  Husk = Husk
  ManSection <- MCManSection
  ObjSection <- MCObjSection
PROPERTIES
  RetrievedIsKey
CHECK_DEADLOCK FALSE
