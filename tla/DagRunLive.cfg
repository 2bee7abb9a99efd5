SPECIFICATION FairSpec
CONSTANTS
  s1 = s1  s2 = s2
  Scheduler = {s1, s2}
  Run = {1}
  Task = {"a", "b", "c", "d"}
  Cases <- mc_live
  None = None
PROPERTY RunEnds
