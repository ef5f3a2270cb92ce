SPECIFICATION FairSpec
CONSTANTS
  INSTALL = "install"
  RECOVERY = "recovery"
  Permanent = {"storage"}
  Ephemeral = {"recovery"}
  Reporting = {"storage"}
  MaintTable <- MCTable
  BuildAgain <- MCAgain
  Digests = {1}
  MaxImage = 3
  MaxFaults = 2
  KILL = TRUE
  POWER = FALSE
  IOERR = FALSE
  LOSS = FALSE
  WRITES = TRUE
INVARIANTS EvidenceIsClear ResumeMatchesDisk
PROPERTIES TransactionsSettle
