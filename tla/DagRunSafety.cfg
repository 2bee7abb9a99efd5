SPECIFICATION Spec
CONSTANTS
  s1 = s1  s2 = s2
  Scheduler = {s1, s2}
  Run = {1, 2}
  Task = {"a", "b", "c", "d"}
  Cases <- mc_safety
  None = None
INVARIANTS
  TypeOK
  MaxActiveRuns
  TimedOutFails
PROPERTY PromiseKept
