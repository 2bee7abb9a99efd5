------------------------------ MODULE MCDagRun ------------------------------
(***************************************************************************)
(* Small DAGs for DagRunScheduling, each with what happens to it.          *)
(***************************************************************************)
EXTENDS DagRunMapping

CONSTANTS s1, s2

\* A DAG with these edges from upstream to downstream tasks.
Plain(edges) ==
  [tasks |-> {e[1] : e \in edges} \cup {e[2] : e \in edges},
   upstream |-> [t \in Task |-> {e[1] : e \in {f \in edges : f[2] = t}}],
   trigger_rule |-> [t \in Task |-> "all_success"],
   depends_on_past |-> {}, wait_for_downstream |-> {}, task_concurrency |-> {}, dummy |-> {},
   retries |-> {}, outcomes |-> {"success", "failed", "skipped"},
   max_active_runs |-> 0, dagrun_timeout |-> FALSE, schedule_after_task_execution |-> TRUE]

Join == Plain({<<"a", "c">>, <<"b", "c">>})
Chain == Plain({<<"a", "b">>})

\* c depends on a in two ways, and d only on c.
Deep == Plain({<<"a", "b">>, <<"a", "c">>, <<"b", "c">>, <<"c", "d">>})

Calm == [schedulers |-> {s1}, runs |-> {1}, rollbacks |-> 0, toggles |-> 0]
TwoRuns == [Calm EXCEPT !.runs = {1, 2}]
Paused == [Calm EXCEPT !.toggles = 2]

Case(d, b) == [dag |-> d, bounds |-> b]

\* A join with every trigger rule.
joins == {Case([Join EXCEPT !.trigger_rule["c"] = rule], Calm) : rule \in Rules}

\* Tasks that are given up because others are.
deep ==
  Case([Deep EXCEPT !.trigger_rule["c"] = "one_success", !.trigger_rule["d"] = "all_done",
                    !.outcomes = {"success", "failed"}],
       Calm)

\* Two schedulers, a rollback, a retry.
retry ==
  Case([Chain EXCEPT !.retries = {"b"}], [Calm EXCEPT !.schedulers = {s1, s2}, !.rollbacks = 1])

\* Runs that look at the one before, the mini scheduler on and off.
past == Case([Chain EXCEPT !.depends_on_past = {"a", "b"}, !.outcomes = {"success", "failed"}], TwoRuns)

waits ==
  {Case([Chain EXCEPT !.depends_on_past = {"a"}, !.wait_for_downstream = {"a"}, !.dummy = dummies,
                      !.outcomes = {"success", "failed"}, !.schedule_after_task_execution = FALSE],
        TwoRuns) : dummies \in {{}, {"b"}}}

dummy == Case([Chain EXCEPT !.dummy = {"a"}, !.depends_on_past = {"a"}], TwoRuns)

\* A DAG that is paused and resumed, and one with a dagrun_timeout as well.
pause == Case(Chain, Paused)

timeout == Case([Chain EXCEPT !.dagrun_timeout = TRUE, !.retries = {"a"}], Paused)

\* Runs that wait for each other, of a DAG that is paused and resumed.
active ==
  Case([Chain EXCEPT !.max_active_runs = 1, !.outcomes = {"success"}], [TwoRuns EXCEPT !.toggles = 2])

mc_safety == joins \cup waits \cup {deep, retry, past, dummy, pause, timeout, active}

mc_live == joins \cup {deep, retry, pause}

=============================================================================
