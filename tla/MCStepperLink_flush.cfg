SPECIFICATION Spec
CONSTANTS
  Clients <- OneClient
  MaxSends = 2
  MaxSpurious = 0
INVARIANT CloseFlushes
