SPECIFICATION Spec
CONSTANTS
  LastBlock = 1
  Values = {0, 1}
  MaxSnaps = 3
  MaxFaults = 2
  Fails = TRUE
  PowerLosses = FALSE
  LiveRearm = FALSE
  Transient = FALSE
INVARIANTS Restorable RestoreExact
