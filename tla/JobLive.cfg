SPECIFICATION FairSpec
CONSTANTS
  retries = 0
  MaxTry = 2
  MaxSigterm = 0
  MaxEdits = 1
  MissLimit = 1
  Faults = {"late", "kill_job", "kill_task", "deaf"}
INVARIANT TypeOK
PROPERTIES
  UndeadTerminatedOrOwner
  ZombieCleaned
