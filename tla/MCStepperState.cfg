SPECIFICATION FairSpec
CONSTANTS
  Positions <- MCPositions
  CounterMod = 3
  MaxLag = 2
  MaxSets = 3
  MaxFaults = 2
  Unknown = Unknown
INVARIANTS
  TypeOK
  
PROPERTY StopReported
