SPECIFICATION Spec
CONSTANTS
  INSTALL = "install"
  RECOVERY = "recovery"
  Permanent = {"storage"}
  Ephemeral = {"recovery"}
  Reporting = {"storage"}
  MaintTable <- MCTable
  BuildAgain <- MCAgain
  Digests = {1}
  MaxImage = 3
  MaxFaults = 3
  KILL = TRUE
  POWER = FALSE
  IOERR = TRUE
  LOSS = FALSE
  WRITES = FALSE
INVARIANT RecoveryDecides
