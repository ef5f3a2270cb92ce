SPECIFICATION Spec
CONSTANTS
  SeqMod = 64
  NatIss = 50
  IssStride = 13
  GuestIss = 63
  HostBytes = 2
  GuestBytes = 1
  Mss = 1
  CwndFloor = 2
  CwndSegments = 2
  TxBuf = 2
  RxBuf = 1
  OutSlots = 2
  RtxMax = 1
  GuestWindow = 2
  LinkSlots = 1
  MaxSyns = 1
  MaxLoss = 0
  MaxFaults = 0
  ServerFirst = TRUE
  HostFails = FALSE
  Prompt = FALSE
INVARIANTS GuestReadsHostStream
CHECK_DEADLOCK FALSE
