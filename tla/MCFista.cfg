SPECIFICATION Spec
CONSTANTS
  Order = 2
  Its = 2
  Cut = 1
  Samplings <- MCSamplings
  Readings <- MCReadings
INVARIANTS
  TypeOK
  Analysed
  Synthesised
PROPERTY Descent
CHECK_DEADLOCK FALSE
