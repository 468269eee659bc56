SPECIFICATION FairSpec
CONSTANTS
  Width = 2
  Height = 8
  Degrees = 4
  StepsPerDegree = 2
  MaxSpeed <- MCMaxSpeed
  Wait = 2
  MaxAge = 1
  Blur = 1
  MaxGotos = 2
  MaxFaults = 1
INVARIANTS
  TypeOK
  ReadAimed
PROPERTY GotoReturns
CHECK_DEADLOCK FALSE
