SPECIFICATION Spec
CONSTANTS
  Clients <- TwoClients
  MaxSends = 3
  MaxSpurious = 1
INVARIANTS
  TypeOK
  NoLostWakeup
  Conservation
  PhantomOnlyInDetach
  CloseQuiesces
  ClosedHandleUnused
PROPERTIES
  ImplementsChannel
