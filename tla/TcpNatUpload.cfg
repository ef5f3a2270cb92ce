SPECIFICATION Spec
CONSTANTS
  SeqMod = 64
  NatIss = 50
  IssStride = 13
  GuestIss = 63
  HostBytes = 1
  GuestBytes = 2
  Mss = 2
  CwndFloor = 2
  CwndSegments = 2
  TxBuf = 1
  RxBuf = 1
  OutSlots = 1
  RtxMax = 1
  GuestWindow = 1
  LinkSlots = 1
  MaxSyns = 2
  MaxLoss = 0
  MaxFaults = 1
  ServerFirst = FALSE
  HostFails = TRUE
  Prompt = FALSE
INVARIANTS GuestStreamKept
PROPERTIES WindowNeverShrinks
CHECK_DEADLOCK FALSE
