SPECIFICATION FairSpec
CONSTANTS
  horiz = horiz
  vert = vert
  d1 = d1
  d2 = d2
  Any = Any
  None = None
  Handles <- OneHandle
  Devices <- OneDevice
  Opens <- OpenAny
  Closes <- OneHandle
  QuickReplug = FALSE
  MaxEvents = 1
  MaxOpens = 1
PROPERTIES
  LastCloseReturns
CHECK_DEADLOCK FALSE
