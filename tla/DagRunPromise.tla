---------------------------- MODULE DagRunPromise ----------------------------
(***************************************************************************)
(* What the runs of a DAG promise to its author, whoever schedules them    *)
(* and in however many transactions:                                       *)
(*                                                                         *)
(*  - a task instance is given to the executor only when its dependencies  *)
(*    are met: its trigger rule, and what it wants of the previous run;    *)
(*  - it is given up only when its trigger rule can never be met;          *)
(*  - its outcome is final;                                                *)
(*  - a run ends only when all its task instances have an outcome, and     *)
(*    with the outcome that its leaves decide.                             *)
(*                                                                         *)
(* A run that timed out, and what depends on it, is promised nothing.      *)
(***************************************************************************)
EXTENDS TriggerRule

CONSTANTS Run, Task

VARIABLES
  dag,           \* the DAG, which does not change
  ti,            \* "waiting", "executing", or the outcome of each task instance
  run,           \* the state of each run, "none" before it is created
  timed_out      \* runs that were ended by dagrun_timeout

vars == <<dag, ti, run, timed_out>>

downstream(d, t) == {x \in d.tasks : t \in d.upstream[x]}

leaves(d) == {t \in d.tasks : downstream(d, t) = {}}

(* depends_on_past and wait_for_downstream look at the run before, if      *)
(* there is one, as it is after the step.                                  *)
PastAllows(r, t) ==
  t \in dag.depends_on_past /\ r - 1 \in Run =>
    \/ r - 1 \in timed_out'
    \/ /\ ti'[r - 1][t] \in success_states
       /\ t \in dag.wait_for_downstream =>
            \A x \in downstream(dag, t) : ti'[r - 1][x] \in success_states

DependenciesMet(r, t) ==
  Met(dag.trigger_rule[t], dag.upstream[t], ti[r]) /\ PastAllows(r, t)

\* What may become of a task instance in one step.
TaskStep(r, t) ==
  \/ ti[r][t] = "waiting" /\ ti'[r][t] = "executing" /\ DependenciesMet(r, t)
  \/ ti[r][t] = "waiting" /\ ti'[r][t] = "success" /\ DependenciesMet(r, t) /\ t \in dag.dummy
  \/ /\ ti[r][t] = "waiting" /\ ti'[r][t] \in {"upstream_failed", "skipped"}
     /\ Hopeless(dag.trigger_rule[t], dag.upstream[t], ti[r])
  \/ ti[r][t] = "executing" /\ ti'[r][t] \in {"success", "failed", "skipped", "waiting"}

Done(r) == \A t \in dag.tasks : ti[r][t] \in finished

\* What may become of a run in one step.
RunStep(r) ==
  \/ run[r] = "none" /\ run'[r] = "queued"
  \/ run[r] = "queued" /\ run'[r] = "running"
  \/ /\ run[r] = "running" /\ run'[r] = "success"
     /\ Done(r) /\ \A t \in leaves(dag) : ti[r][t] \in success_states
  \/ /\ run[r] = "running" /\ run'[r] = "failed"
     /\ Done(r) /\ \E t \in leaves(dag) : ti[r][t] \in failed_states

Init ==
  /\ ti = [r \in Run |-> [t \in Task |-> "waiting"]]
  /\ run = [r \in Run |-> "none"]
  /\ timed_out = {}

\* A transaction may move many task instances and runs at once.
Next ==
  /\ dag' = dag
  /\ timed_out \subseteq timed_out'
  /\ \A r \in timed_out' \ timed_out :
       dag.dagrun_timeout /\ run[r] = "running" /\ run'[r] = "failed"
  /\ \A r \in Run : r \in timed_out' \/ run'[r] = run[r] \/ RunStep(r)
  /\ \A r \in Run, t \in Task : r \in timed_out' \/ ti'[r][t] = ti[r][t] \/ TaskStep(r, t)

Spec == Init /\ [][Next]_vars

=============================================================================
