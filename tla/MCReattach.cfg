SPECIFICATION ReattachFairSpec
CONSTANTS
  Clients <- OneClient
  MaxSends = 2
  MaxSpurious = 0
  MaxAttachments = 2
INVARIANTS
  OneThreadEach
PROPERTIES
  SetterReturns
  CloseReturns
  DetachEnds
  AttachReturns
  QueueDrains
