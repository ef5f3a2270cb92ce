SPECIFICATION Spec
CONSTANTS
  THREADS = 3
  SLOTS = 2
  MEDIA = 1
  MAX_TRANSFER = 2
  Zero = Zero
  Shapes <- MCShapes
  Segments = {"user32"}
  MaxCalls = 3
  MaxFaults = 1
INVARIANTS BridgeSound
PROPERTIES ImplementsDisk
CHECK_DEADLOCK FALSE
