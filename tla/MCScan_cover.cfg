SPECIFICATION Spec
CONSTANTS
  Width = 4
  Height = 3
  Upper = 6
  Scans <- AllScans
INVARIANTS
  TypeOK
  Placed
  Complete
  SamplesFit
PROPERTY ShortMoves
