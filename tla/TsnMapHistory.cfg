SPECIFICATION HSpec
CONSTANTS
  TSN_SIGN_BIT = 16
  BITS_PER_LONG = 2
  BITS_PER_BYTE = 1
  VLSTP_TSN_MAP_SIZE = 8
  VLSTP_MAX_DUP_TSNS = 2
  VLSTP_MAX_GABS = 3
  GapSpace = 16
  InitialLens = {2, 4}
  InitialTSNs = {27, 30}
  ReportedDups = {5, 6}
  ZeroedHeap = TRUE
  SSN_SIGN_BIT = 4
  MaxEpoch = 40
  MaxDupHistory = 3
INVARIANTS
  TypeOK
  WindowFits
  MapIsUpToDate
  CheckIsExact
  GapReportIsExact
  DupsAreTheFirst
  SerialsKeepTheOrder
PROPERTIES
  ImplementsTracker
CHECK_DEADLOCK FALSE
