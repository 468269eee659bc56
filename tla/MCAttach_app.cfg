SPECIFICATION FairSpec
CONSTANTS
  horiz = horiz
  vert = vert
  d1 = d1
  d2 = d2
  Any = Any
  None = None
  Handles <- TwoHandles
  Devices <- TwoDevices
  Opens <- OpenMixed
  Closes = {}
  QuickReplug = FALSE
  MaxEvents = 4
  MaxOpens = 2
INVARIANTS
  OneOwner
PROPERTIES
  WaitingIsServed
