SPECIFICATION FairSpec
CONSTANTS
  Blocks = 3
  Transfers = 2
  InFlight = 1
  MaxResends = 1
  MaxTimeouts = 1
  QCA_OTA_MAX_TFTP_RETRY_TIMES = 1
CHECK_DEADLOCK FALSE
INVARIANTS
  BootableIsReported
  ActiveStaysBootable
  StoredInOrder
PROPERTIES
  UpgradeEnds
