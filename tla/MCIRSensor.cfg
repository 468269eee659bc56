SPECIFICATION FairSpec
CONSTANTS
  FifoSize = 2
  Configs <- MCConfigs
  Checksum <- Crc8
  MaxFailures = 1
  MaxReadings = 2
INVARIANTS
  TypeOK
  TransferSound
  Configured
PROPERTY TransferEnds
CHECK_DEADLOCK FALSE
