SPECIFICATION FairSpec
CONSTANTS
  MaxEngines = 2
  MaxRequests = 3
  MaxScreens = 2
  PausesInBackground = TRUE
INVARIANTS DiskOwned MarkerIsHonest AnsweredOnce
PROPERTIES Answered
CHECK_DEADLOCK FALSE
