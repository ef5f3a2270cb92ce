SPECIFICATION FairSpec
CONSTANTS
  SeqMod = 64
  NatIss = 50
  IssStride = 13
  GuestIss = 63
  HostBytes = 2
  GuestBytes = 1
  Mss = 1
  CwndFloor = 2
  CwndSegments = 2
  TxBuf = 2
  RxBuf = 1
  OutSlots = 2
  RtxMax = 2
  GuestWindow = 1
  LinkSlots = 1
  MaxSyns = 1
  MaxLoss = 2
  MaxFaults = 0
  ServerFirst = FALSE
  HostFails = FALSE
  Prompt = TRUE
INVARIANTS GuestReadsHostStream CursorSound
PROPERTIES StreamArrives
CHECK_DEADLOCK FALSE
