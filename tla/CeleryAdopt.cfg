SPECIFICATION Spec
CONSTANTS
  Schedulers = {s1, s2}
  Procs = {p1, p2}
  None = None
  MaxMsg = 2
  MaxTry = 2
  MaxBack = 1
  max_tries = 1
  task_publish_max_retries = 1
  Scenarios <- mc_adopt
INVARIANTS ExecutedOnce
