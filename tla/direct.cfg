SPECIFICATION Spec
CONSTANTS
  A = A
  H = H
  v1 = v1
  v2 = v2
  None = None
  Job = {j1, j2}
  Source = {winapp}
  Header = {A, H}
  Version = {v1, v2}
  Uses <- MCUses
  MaxRuns = 4
  MaxEdits = 2
  MaxFaults = 1
SYMMETRY Symmetry
INVARIANTS
  ResultsAreRight
  ResultsAreCached
CHECK_DEADLOCK FALSE
