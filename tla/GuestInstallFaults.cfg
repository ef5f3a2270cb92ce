SPECIFICATION Spec
CONSTANTS
  INSTALL = "install"
  RECOVERY = "recovery"
  Permanent = {}
  Ephemeral = {"recovery", "app"}
  Reporting = {}
  MaintTable <- MCAppTable
  BuildAgain <- MCAgain
  Digests = {1}
  MaxImage = 3
  MaxFaults = 2
  KILL = FALSE
  POWER = TRUE
  IOERR = TRUE
  LOSS = TRUE
  WRITES = FALSE
INVARIANTS TypeOK DiskSurvives Undisputed CommitMeansInstalled
