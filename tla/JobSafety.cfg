SPECIFICATION Spec
CONSTANTS
  retries = 1
  MaxTry = 1
  MaxSigterm = 2
  MaxEdits = 0
  MissLimit = 1
  Faults = {"late", "kill_job", "kill_task", "deaf"}
INVARIANTS
  NoOrphanTask
  CallbacksBounded
