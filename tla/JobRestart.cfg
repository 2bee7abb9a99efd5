SPECIFICATION FairSpec
CONSTANTS
  retries = 1
  MaxTry = 2
  MaxSigterm = 0
  MaxEdits = 1
  MissLimit = 2
  Faults = {}
PROPERTY RestartingIsRetried
