----------------------------- MODULE TriggerRule -----------------------------
(***************************************************************************)
(* Trigger rules: what airflow/ti_deps/deps/trigger_rule_dep.py decides    *)
(* about a task instance from the states of its upstream task instances,   *)
(* by counting, and what docs/apache-airflow/concepts/dags.rst promises.   *)
(*                                                                         *)
(* U is the set of upstream tasks and st their states.                     *)
(***************************************************************************)
EXTENDS Integers, FiniteSets, TaskStates

\* The valid rules; "dummy" is accepted as well, and has no strategy.
Rules ==
  {"all_success", "all_failed", "all_done", "one_success", "one_failed", "none_failed",
   "none_failed_or_skipped", "none_skipped", "always"}

In(U, st, S) == {u \in U : st[u] \in S}

\* _get_states_count_upstream_ti, and the number of upstream tasks.
Counts(U, st) ==
  [upstream |-> Cardinality(U),
   successes |-> Cardinality(In(U, st, {"success"})),
   skipped |-> Cardinality(In(U, st, {"skipped"})),
   failed |-> Cardinality(In(U, st, {"failed"})),
   upstream_failed |-> Cardinality(In(U, st, {"upstream_failed"})),
   done |-> Cardinality(In(U, st, finished))]

(* The state that _evaluate_trigger_rule assigns at once when it is asked  *)
(* to (flag_upstream_failed), or "none".                                   *)
Assigned(rule, n) ==
  LET upstream_done == n.done >= n.upstream
      failure == n.failed > 0 \/ n.upstream_failed > 0
  IN  CASE /\ rule \in {"all_success", "none_failed", "none_failed_or_skipped"}
           /\ failure -> "upstream_failed"
        [] rule = "all_success" /\ ~failure /\ n.skipped > 0 -> "skipped"
        [] rule = "all_failed" /\ (n.successes > 0 \/ n.skipped > 0) -> "skipped"
        [] rule = "one_success" /\ upstream_done /\ n.done = n.skipped -> "skipped"
        [] /\ rule = "one_success"
           /\ upstream_done /\ n.done # n.skipped /\ n.successes <= 0 -> "upstream_failed"
        [] rule = "one_failed" /\ upstream_done /\ ~failure -> "skipped"
        [] /\ rule = "none_failed_or_skipped"
           /\ ~failure /\ n.skipped = n.upstream -> "skipped"
        [] rule = "none_skipped" /\ n.skipped > 0 -> "skipped"
        [] OTHER -> "none"

\* Whether _evaluate_trigger_rule yields no failing status.
Passes(rule, n) ==
  CASE rule = "one_success" -> n.successes > 0
    [] rule = "one_failed" -> n.failed > 0 \/ n.upstream_failed > 0
    [] rule = "all_success" -> n.upstream - n.successes <= 0
    [] rule = "all_failed" -> n.upstream - n.failed - n.upstream_failed <= 0
    [] rule = "all_done" -> n.done >= n.upstream
    [] rule \in {"none_failed", "none_failed_or_skipped"} ->
         n.upstream - n.successes - n.skipped <= 0
    [] rule = "none_skipped" -> n.done >= n.upstream /\ n.skipped <= 0
    [] OTHER -> FALSE

\* _get_dep_statuses: without upstream tasks, or with "always", nothing is evaluated.
Evaluated(rule, U) == U # {} /\ rule # "always"

TriggerRuleDep(rule, U, st) == Evaluated(rule, U) => Passes(rule, Counts(U, st))

AssignedState(rule, U, st) ==
  IF Evaluated(rule, U) THEN Assigned(rule, Counts(U, st)) ELSE "none"

-----------------------------------------------------------------------------
(* The documented meaning of the rules (dags.rst, "Trigger Rules").        *)
Met(rule, U, st) ==
  \/ U = {}
  \/ rule = "always"
  \/ rule = "all_success" /\ \A u \in U : st[u] = "success"
  \/ rule = "all_failed" /\ \A u \in U : st[u] \in failed_states
  \/ rule = "all_done" /\ \A u \in U : st[u] \in finished
  \/ rule = "one_failed" /\ \E u \in U : st[u] \in failed_states
  \/ rule = "one_success" /\ \E u \in U : st[u] = "success"
  \/ rule = "none_failed" /\ \A u \in U : st[u] \in success_states
  \/ /\ rule = "none_failed_or_skipped"
     /\ \A u \in U : st[u] \in success_states
     /\ \E u \in U : st[u] = "success"
  \/ rule = "none_skipped" /\ \A u \in U : st[u] \in {"success"} \cup failed_states

\* The ways in which the upstream tasks may yet finish.
Outcomes(U, st) ==
  {f \in [U -> finished] : \A u \in U : st[u] \in finished => f[u] = st[u]}

\* However they do, the rule will not be met.
Hopeless(rule, U, st) == \A f \in Outcomes(U, st) : ~Met(rule, U, f)

=============================================================================
