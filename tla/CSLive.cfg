SPECIFICATION LiveSpec
CHECK_DEADLOCK FALSE
CONSTANTS
  Scheduler = {s1, s2}
  Backfill = bf
  None = None
  a = a  b = b  c = c  d1 = d1
  TI = {a, b, c}
  BackfillTI = {}
  Dag = {d1}
  Task <- mc_tasks
  Pool <- mc_pools
  dag_id <- mc_dag
  task_id <- mc_task
  pool <- mc_pool
  pool_slots <- mc_pool_slots
  priority_weight <- mc_priority
  execution_date <- mc_date
  slots <- mc_slots
  max_active_tasks <- mc_max_active
  task_concurrency <- mc_task_concurrency
  max_tis_per_query = 2
  parallelism = 2
  MaxPoolSlots = 2
  Pausable = {d1}
  MaxChecks = 2
  RowLocks = TRUE
  Outcomes = {"success"}
PROPERTY ScheduledIsQueued
INVARIANTS
  ConcurrencyNotExceeded
  NoPriorityInversion
