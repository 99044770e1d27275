SPECIFICATION Spec
CONSTANTS
  Proc = {p1, p2}
  Unit = {u1, u2}
  Version = {v1, v2}
  Stamp = {s1}
  NSlots = 2
  Section = {1, 2}
  OldSections = {}
  Async = FALSE
  EditAnytime = FALSE
  MaxSize = 100
  MaxRuns = 3
  Commands = {"clear", "clean"}
  FaultKinds = {"crash", "rename"}
  MaxFaults = 1
  None = None
  Husk = Husk
  ManSection <- MCManSection
  ObjSection <- MCObjSection
INVARIANTS
  StoreIsSound
  MetaIsSound
  EntriesAreSound
  HitsAreSound
  MissesAreReal
CHECK_DEADLOCK FALSE
