SPECIFICATION Spec
CONSTANTS
  INSTALL = "install"
  RECOVERY = "recovery"
  Permanent = {"storage"}
  Ephemeral = {"recovery"}
  Reporting = {"storage"}
  MaintTable <- MCTable
  BuildAgain <- MCAgain
  Digests = {1}
  MaxImage = 2
  MaxFaults = 2
  KILL = TRUE
  POWER = TRUE
  IOERR = FALSE
  LOSS = FALSE
  WRITES = FALSE
INVARIANT JournalHasEvidence
