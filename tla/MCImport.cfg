SPECIFICATION Spec
CONSTANTS
  Names = {n1, n2}
  Types = {y1, y2}
  Durations = {d1, d2}
  Imports = {i1, i2}
  MaxLines = 2
  Files <- MCFiles
  Invalid = Invalid
  None = None
  Faults = {"dbError"}
SYMMETRY Symmetry
INVARIANTS TypeOK LinesAccounted ReportedIsStored TypeIsAsked ImportInv
PROPERTY SettledForGood
CHECK_DEADLOCK FALSE
