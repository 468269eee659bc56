SPECIFICATION FairSpec
CONSTANTS
  horiz = horiz
  vert = vert
  d1 = d1
  d2 = d2
  Any = Any
  None = None
  Handles <- TwoHandles
  Devices <- TwoDevices
  Opens <- OpenSerial
  Closes <- TwoHandles
  QuickReplug = FALSE
  MaxEvents = 3
  MaxOpens = 3
INVARIANTS
  TypeOK
  Registered
  OneTeardown
  CentralRuns
PROPERTIES
  ErrorRecycled
  LossNoticed
CHECK_DEADLOCK FALSE
