SPECIFICATION SackSpec
CONSTANTS
  TSN_SIGN_BIT = 16
  BITS_PER_LONG = 2
  BITS_PER_BYTE = 1
  VLSTP_TSN_MAP_SIZE = 6
  VLSTP_MAX_DUP_TSNS = 1
  VLSTP_MAX_GABS = 2
  GapSpace = 16
  InitialLens = {4}
  InitialTSNs = {29}
  ReportedDups = {}
  ZeroedHeap = TRUE
INVARIANTS
  BlocksWereReceived
  IterationAdvances
CHECK_DEADLOCK FALSE
