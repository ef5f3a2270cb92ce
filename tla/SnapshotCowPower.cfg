SPECIFICATION Spec
CONSTANTS
  LastBlock = 1
  Values = {0, 1}
  MaxSnaps = 2
  MaxFaults = 1
  Fails = FALSE
  PowerLosses = TRUE
  LiveRearm = FALSE
  Transient = FALSE
INVARIANTS Restorable
