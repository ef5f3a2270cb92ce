SPECIFICATION Spec
CONSTANTS
  LastBlock = 1
  Values = {0, 1}
  MaxSnaps = 2
  MaxFaults = 2
  Fails = TRUE
  PowerLosses = TRUE
  LiveRearm = TRUE
  Transient = TRUE
INVARIANTS TypeOK OnceRecorded
