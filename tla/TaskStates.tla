----------------------------- MODULE TaskStates -----------------------------
(***************************************************************************)
(* Task instance, DagRun and job states, and the state sets the scheduler, *)
(* the workers and the dependency checks are written with                  *)
(* (airflow/utils/state.py, airflow/ti_deps/dependencies_states.py).       *)
(***************************************************************************)

\* TaskInstanceState; "none" is the database NULL the code calls State.NONE.
TaskInstanceState ==
  {"none", "scheduled", "queued", "running", "success", "shutdown",
   "restarting", "failed", "up_for_retry", "up_for_reschedule",
   "upstream_failed", "skipped", "sensing", "removed"}

DagRunState == {"queued", "running", "success", "failed"}

finished == {"success", "failed", "skipped", "upstream_failed"}

unfinished ==
  {"none", "scheduled", "queued", "running", "sensing", "shutdown",
   "restarting", "up_for_retry", "up_for_reschedule"}

failed_states == {"failed", "upstream_failed"}

success_states == {"success", "skipped"}

EXECUTION_STATES == {"running", "queued"}

SCHEDULEABLE_STATES == {"none", "up_for_retry", "up_for_reschedule"}

RUNNABLE_STATES == SCHEDULEABLE_STATES \cup {"queued"}

=============================================================================
