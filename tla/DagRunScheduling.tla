-------------------------- MODULE DagRunScheduling --------------------------
(***************************************************************************)
(* The runs of one DAG: several schedulers start them, look at them in     *)
(* transactions of their own (SchedulerJob._do_scheduling), and decide     *)
(* with DagRun.update_state which task instances are scheduled, given up,  *)
(* and when a run ends.  Beside them every task that ends runs the mini    *)
(* scheduler of its LocalTaskJob, and updates the run of a paused DAG.     *)
(*                                                                         *)
(* A transaction reads the task instances of a run when it comes to it,    *)
(* decides on what it read, and writes when it commits.                    *)
(***************************************************************************)
EXTENDS TriggerRule

CONSTANTS
  Scheduler,
  Run,           \* execution dates, consecutive numbers
  Task,
  Cases,         \* the DAGs that are looked at, each with bounds on what happens
  None

VARIABLES
  dag,           \* the DAG and its settings
  bounds,        \* its schedulers, and how many runs, rollbacks and changes of paused
  ti,            \* the state of each task instance
  run,           \* the state of each run, "none" before it is created
  timed_out,     \* runs that were ended by dagrun_timeout
  lock,          \* who holds the row lock on each run
  pc,            \* where each scheduler and each LocalTaskJob is
  tx,            \* their transactions
  executing,     \* task instances with a process
  delayed,       \* task instances whose retry_delay has not elapsed
  retried,       \* task instances that have used their retry
  paused, toggles, rollbacks

given == <<dag, bounds>>
database == <<ti, run, timed_out>>
workers == <<executing, delayed, retried>>
disturbances == <<toggles, rollbacks>>
vars == <<given, database, lock, pc, tx, workers, paused, disturbances>>

Job == Run \X Task
Proc == Scheduler \cup Job

(* A DAG refers only to tasks of its own and has no cycle: every set of    *)
(* tasks has one that is downstream of none of the others.                 *)
WellFormed(d) ==
  /\ d.tasks \subseteq Task
  /\ d.upstream \in [Task -> SUBSET d.tasks]
  /\ d.trigger_rule \in [Task -> Rules]
  /\ d.outcomes \subseteq {"success", "failed", "skipped"} /\ d.max_active_runs \in Nat
  /\ \A S \in SUBSET d.tasks : S # {} => \E t \in S : d.upstream[t] \cap S = {}

ASSUME DagRunAssumption ==
  /\ Run \subseteq Nat /\ IsFiniteSet(Run) /\ IsFiniteSet(Task) /\ IsFiniteSet(Scheduler)
  /\ None \notin Proc
  /\ \A c \in Cases : WellFormed(c.dag) /\ c.bounds.schedulers \subseteq Scheduler

\* What a transaction writes to a run and to its task instances; "none" where it writes nothing.
Plan(write, state) == [write |-> write, state |-> state]

NoPlan == Plan([t \in Task |-> "none"], "none")

(* A transaction: the runs it has locked and those it still has to look    *)
(* at, how many runs it counted, and what it has decided to write.         *)
NoTx == [locked |-> {}, todo |-> {}, active |-> 0, plan |-> [r \in Run |-> NoPlan]]

downstream(t) == {x \in dag.tasks : t \in dag.upstream[x]}

leaves == {t \in dag.tasks : downstream(t) = {}}

InState(T, view, S) == {t \in T : view[t] \in S}

-----------------------------------------------------------------------------
(* DagRun.update_state and what it calls, for the tasks T of a DAG or of a *)
(* partial DAG, whose references to other tasks are cut.                   *)

(* PrevDagrunDep; prev is what the session has for the task instances of   *)
(* the previous run.  Those downstream are counted by the database.        *)
PrevDagrunDep(r, t, T, prev) ==
  t \in dag.depends_on_past /\ r - 1 \in Run =>
    /\ prev.objects[t] \in success_states
    /\ t \in dag.wait_for_downstream =>
         \A x \in downstream(t) \cap T : prev.rows[x] \in success_states

DependenciesMet(r, t, T, prev) ==
  /\ TriggerRuleDep(dag.trigger_rule[t], dag.upstream[t] \cap T, ti[r])
  /\ PrevDagrunDep(r, t, T, prev)

\* mutant: a task instance that is up for retry is forgotten
ReadyTIs_no_retry(r, T, prev) ==
  {t \in InState(T, ti[r], {"none"}) : DependenciesMet(r, t, T, prev) /\ <<r, t>> \notin delayed}

ReadyTIs(r, T, prev) ==
  {t \in InState(T, ti[r], SCHEDULEABLE_STATES) :
     DependenciesMet(r, t, T, prev) /\ <<r, t>> \notin delayed}

\* The states that checking the dependencies of the tasks X assigns at once.
Assignments(r, X, T) ==
  [t \in Task |->
     IF t \in X THEN AssignedState(dag.trigger_rule[t], dag.upstream[t] \cap T, ti[r]) ELSE "none"]

ArePrematureTIs(r, prev) ==
  \E t \in InState(dag.tasks, ti[r], unfinished) : DependenciesMet(r, t, dag.tasks, prev)

RunnableTIs(r, prev) ==
  \/ ReadyTIs(r, dag.tasks, prev) # {}
  \/ ArePrematureTIs(r, prev)
  \/ \E t \in dag.tasks :
       Assignments(r, InState(dag.tasks, ti[r], SCHEDULEABLE_STATES), dag.tasks)[t] # "none"

\* The state that update_state gives to the run.
NewState(r, prev) ==
  LET todo == InState(dag.tasks, ti[r], unfinished)
  IN  CASE todo = {} /\ \E t \in leaves : ti[r][t] \in failed_states -> "failed"
        [] todo = {} /\ \A t \in leaves : ti[r][t] \in success_states -> "success"
        [] /\ todo # {} /\ todo \cap (dag.depends_on_past \cup dag.task_concurrency) = {}
           /\ ~RunnableTIs(r, prev) -> "failed"
        [] OTHER -> "running"

\* mutant: the session is flushed before the UPDATE
Writes_flush_first(ready, assigned) ==
  [t \in Task |->
     IF t \in ready THEN IF t \in dag.dummy THEN "success" ELSE "scheduled" ELSE assigned[t]]

(* What is written when the transaction commits: schedule_tis executes an  *)
(* UPDATE, and the assigned states follow, because the session does not    *)
(* flush by itself before.                                                 *)
Writes(ready, assigned) ==
  [t \in Task |->
     IF assigned[t] # "none" THEN assigned[t]
     ELSE IF t \notin ready THEN "none"
     ELSE IF t \in dag.dummy THEN "success" ELSE "scheduled"]

Overridden(states, write) ==
  [t \in Task |-> IF write[t] = "none" THEN states[t] ELSE write[t]]

\* What has reached the database before the commit.
Flushed(plan) ==
  [t \in Task |->
     IF plan.state = "timed_out" \/ plan.write[t] \in {"scheduled", "success"}
     THEN plan.write[t] ELSE "none"]

(* The task instances of the previous run, if there is one, as the         *)
(* transaction x sees them.                                                *)
PreviousTIs(x, r) ==
  LET q == IF r - 1 \in Run THEN r - 1 ELSE r
  IN  [objects |-> Overridden(ti[q], x.plan[q].write),
       rows |-> Overridden(ti[q], Flushed(x.plan[q]))]

(* The task instances whose dependencies _are_premature_tis checks, which  *)
(* may assign states as well: all, unless it comes across one that is fine.*)
CheckedAsPremature(r, prev) ==
  LET todo == InState(dag.tasks, ti[r], unfinished)
  IN  IF \/ ReadyTIs(r, dag.tasks, prev) # {}
         \/ todo \cap (dag.depends_on_past \cup dag.task_concurrency) # {}
      THEN {{}}
      ELSE {X \in SUBSET todo : X = todo \/ ArePrematureTIs(r, prev)}

Planned(x, r, plan) == [x EXCEPT !.todo = @ \ {r}, !.plan[r] = plan]

(* x with what update_state decides for the run r, when its ready task     *)
(* instances in T are then scheduled.                                      *)
Updated(x, r, premature, T) ==
  LET prev == PreviousTIs(x, r)
      asked == InState(dag.tasks, ti[r], SCHEDULEABLE_STATES) \cup premature
      write == Writes(ReadyTIs(r, dag.tasks, prev) \cap T, Assignments(r, asked, dag.tasks))
      state == NewState(r, prev)
  IN  Planned(x, r, Plan(write, IF state = run[r] THEN "none" ELSE state))

\* x with what _schedule_dag_run does to a run that has been up for too long.
TimedOut(x, r) ==
  LET write == [t \in Task |->
                  IF t \in InState(dag.tasks, ti[r], unfinished) THEN "skipped" ELSE "none"]
  IN  Planned(x, r, Plan(write, "timed_out"))

-----------------------------------------------------------------------------
Goto(p, from, to) == pc[p] = from /\ pc' = [pc EXCEPT ![p] = to]

Begin(p, x) == tx' = [tx EXCEPT ![p] = x]

LockRuns(p, R) == lock' = [r \in Run |-> IF r \in R THEN p ELSE lock[r]]

Unlock(p) == lock' = [r \in Run |-> IF lock[r] = p THEN None ELSE lock[r]]

\* The database after the commit of p.
Commit(p) ==
  LET plan == tx[p].plan
  IN  /\ ti' = [r \in Run |-> Overridden(ti[r], plan[r].write)]
      /\ run' = [r \in Run |->
                   CASE plan[r].state = "none" -> run[r]
                     [] plan[r].state = "timed_out" -> "failed"
                     [] OTHER -> plan[r].state]
      /\ timed_out' = timed_out \cup {r \in Run : plan[r].state = "timed_out"}
      /\ Begin(p, NoTx)
      /\ Unlock(p)

-----------------------------------------------------------------------------
(* The loop of a scheduler: create a run, start queued runs, look at the   *)
(* running ones.                                                           *)

\* _create_dag_runs, or a user's trigger: the next run, with its task instances.
CreateDagRun ==
  /\ \E r \in Run :
       /\ r \in bounds.runs
       /\ run[r] = "none" /\ \A q \in Run : q < r => run[q] # "none"
       /\ run' = [run EXCEPT ![r] = "queued"]
  /\ UNCHANGED <<given, ti, timed_out, lock, pc, tx, workers, paused, disturbances>>

\* next_dagruns_to_examine: locked rows are skipped, and all runs are within its limit.
Unlocked(state) == {r \in Run : ~paused /\ run[r] = state /\ lock[r] = None}

RunningRuns == {r \in Run : run[r] = "running"}

\* _start_queued_dagruns: lock the queued runs and count the running ones,
LockQueued(s) ==
  /\ Goto(s, "loop", "start")
  /\ LockRuns(s, Unlocked("queued"))
  /\ Begin(s, [NoTx EXCEPT !.locked = Unlocked("queued"), !.active = Cardinality(RunningRuns)])
  /\ UNCHANGED <<given, database, workers, paused, disturbances>>

\* mutant: one run too many
Startable_off_by_one(x) ==
  {r \in x.locked :
     dag.max_active_runs # 0 =>
       x.active + Cardinality({q \in x.locked : q < r}) <= dag.max_active_runs}

\* The oldest ones, up to max_active_runs.
Startable(x) ==
  {r \in x.locked :
     dag.max_active_runs # 0 =>
       x.active + Cardinality({q \in x.locked : q < r}) < dag.max_active_runs}

\* ... and start them.
StartQueued(s) ==
  /\ Goto(s, "start", "examine")
  /\ run' = [r \in Run |-> IF r \in Startable(tx[s]) THEN "running" ELSE run[r]]
  /\ Begin(s, NoTx)
  /\ Unlock(s)
  /\ UNCHANGED <<given, ti, timed_out, workers, paused, disturbances>>

LockRunning(s) ==
  /\ Goto(s, "examine", "schedule")
  /\ LockRuns(s, Unlocked("running"))
  /\ Begin(s, [NoTx EXCEPT !.locked = Unlocked("running"), !.todo = Unlocked("running")])
  /\ UNCHANGED <<given, database, workers, paused, disturbances>>

\* _schedule_dag_run for one of the locked runs.
ScheduleDagRun(s) ==
  /\ pc[s] = "schedule"
  /\ \E r \in tx[s].todo :
       \/ \E premature \in CheckedAsPremature(r, PreviousTIs(tx[s], r)) :
            Begin(s, Updated(tx[s], r, premature, dag.tasks))
       \/ dag.dagrun_timeout /\ Begin(s, TimedOut(tx[s], r))
  /\ UNCHANGED <<given, database, lock, pc, workers, paused, disturbances>>

CommitSchedule(s) ==
  /\ Goto(s, "schedule", "loop")
  /\ tx[s].todo = {}
  /\ Commit(s)
  /\ UNCHANGED <<given, workers, paused, disturbances>>

\* The scheduler dies or its database connection fails: nothing is written.
Rollback(s) ==
  /\ rollbacks < bounds.rollbacks
  /\ rollbacks' = rollbacks + 1
  /\ pc' = [pc EXCEPT ![s] = "loop"]
  /\ Begin(s, NoTx)
  /\ Unlock(s)
  /\ UNCHANGED <<given, database, workers, paused, toggles>>

-----------------------------------------------------------------------------
(* Task instances are executed; see CriticalSection, CeleryScheduling and  *)
(* LocalTaskJob for how.                                                   *)

Execute(r, t) ==
  /\ ~paused /\ ti[r][t] = "scheduled"
  /\ ti' = [ti EXCEPT ![r][t] = "running"]
  /\ executing' = executing \cup {<<r, t>>}
  /\ UNCHANGED <<given, run, timed_out, lock, pc, tx, delayed, retried, paused, disturbances>>

\* mutant: the attempt is not counted
TaskEnds_not_counted(r, t) ==
  /\ <<r, t>> \in executing /\ pc[<<r, t>>] = "none"
  /\ executing' = executing \ {<<r, t>>}
  /\ \/ /\ \E st \in dag.outcomes : ti' = [ti EXCEPT ![r][t] = st]
        /\ UNCHANGED <<delayed, retried>>
     \/ /\ t \in dag.retries
        /\ ti' = [ti EXCEPT ![r][t] = "up_for_retry"]
        /\ delayed' = delayed \cup {<<r, t>>}
        /\ UNCHANGED retried
  /\ pc' = [pc EXCEPT ![<<r, t>>] = IF dag.schedule_after_task_execution THEN "mini" ELSE "exit"]
  /\ UNCHANGED <<given, run, timed_out, lock, tx, paused, disturbances>>

\* The task ends and its job goes on; whatever the row says meanwhile.
TaskEnds(r, t) ==
  /\ <<r, t>> \in executing /\ pc[<<r, t>>] = "none"
  /\ executing' = executing \ {<<r, t>>}
  /\ \/ /\ \E st \in dag.outcomes : ti' = [ti EXCEPT ![r][t] = st]
        /\ UNCHANGED <<delayed, retried>>
     \/ /\ t \in dag.retries /\ <<r, t>> \notin retried
        /\ ti' = [ti EXCEPT ![r][t] = "up_for_retry"]
        /\ delayed' = delayed \cup {<<r, t>>}
        /\ retried' = retried \cup {<<r, t>>}
  /\ pc' = [pc EXCEPT ![<<r, t>>] = IF dag.schedule_after_task_execution THEN "mini" ELSE "exit"]
  /\ UNCHANGED <<given, run, timed_out, lock, tx, paused, disturbances>>

RetryDelayElapses(r, t) ==
  /\ <<r, t>> \in delayed
  /\ delayed' = delayed \ {<<r, t>>}
  /\ UNCHANGED <<given, database, lock, pc, tx, executing, retried, paused, disturbances>>

\* The partial DAG: the downstream tasks, and the direct upstream tasks of those.
PartialSubset(t) == downstream(t) \cup UNION {dag.upstream[x] : x \in downstream(t)}

\* mutant: the mini scheduler calls update_state
MiniSchedule_update_state(r, t) ==
  /\ Goto(<<r, t>>, "mini", "mini_commit")
  /\ lock[r] = None
  /\ LockRuns(<<r, t>>, {r})
  /\ \E premature \in CheckedAsPremature(r, PreviousTIs(NoTx, r)) :
       Begin(<<r, t>>, Updated(NoTx, r, premature, downstream(t)))
  /\ UNCHANGED <<given, database, workers, paused, disturbances>>

(* _run_mini_scheduler_on_child_tasks: lock the run, decide on the         *)
(* downstream tasks, but check the dependencies of all in the partial DAG. *)
MiniSchedule(r, t) ==
  /\ Goto(<<r, t>>, "mini", "mini_commit")
  /\ lock[r] = None
  /\ LockRuns(<<r, t>>, {r})
  /\ LET T == PartialSubset(t)
         ready == ReadyTIs(r, T, PreviousTIs(NoTx, r)) \cap downstream(t)
         assigned == Assignments(r, InState(T, ti[r], SCHEDULEABLE_STATES), T)
     IN  Begin(<<r, t>>, Planned(NoTx, r, Plan(Writes(ready, assigned), "none")))
  /\ UNCHANGED <<given, database, workers, paused, disturbances>>

MiniCommit(r, t) ==
  /\ Goto(<<r, t>>, "mini_commit", "exit")
  /\ Commit(<<r, t>>)
  /\ UNCHANGED <<given, workers, paused, disturbances>>

\* A database error, which is not fatal.
MiniFails(r, t) ==
  /\ Goto(<<r, t>>, "mini", "exit")
  /\ UNCHANGED <<given, database, lock, tx, workers, paused, disturbances>>

\* _update_dagrun_state_for_paused_dag: decide, without a lock on the run, ...
UpdatePaused(r, t) ==
  /\ paused
  /\ Goto(<<r, t>>, "exit", "exit_commit")
  /\ \E premature \in CheckedAsPremature(r, PreviousTIs(NoTx, r)) :
       Begin(<<r, t>>, Updated(NoTx, r, premature, {}))
  /\ UNCHANGED <<given, database, lock, workers, paused, disturbances>>

\* ... but wait for the lock of whoever has it: the UPDATE always touches the run.
CommitPaused(r, t) ==
  /\ Goto(<<r, t>>, "exit_commit", "none")
  /\ lock[r] = None
  /\ Commit(<<r, t>>)
  /\ UNCHANGED <<given, workers, paused, disturbances>>

\* ... or do nothing, because the DAG is not paused.
Exit(r, t) ==
  /\ ~paused
  /\ Goto(<<r, t>>, "exit", "none")
  /\ UNCHANGED <<given, database, lock, tx, workers, paused, disturbances>>

TogglePaused ==
  /\ toggles < bounds.toggles
  /\ toggles' = toggles + 1
  /\ paused' = ~paused
  /\ UNCHANGED <<given, database, lock, pc, tx, workers, rollbacks>>

-----------------------------------------------------------------------------
Init ==
  /\ \E c \in Cases : dag = c.dag /\ bounds = c.bounds
  /\ ti = [r \in Run |-> [t \in Task |-> "none"]]
  /\ run = [r \in Run |-> "none"] /\ timed_out = {}
  /\ lock = [r \in Run |-> None]
  /\ pc = [p \in Proc |-> IF p \in Scheduler THEN "loop" ELSE "none"]
  /\ tx = [p \in Proc |-> NoTx]
  /\ executing = {} /\ delayed = {} /\ retried = {}
  /\ paused = FALSE /\ toggles = 0 /\ rollbacks = 0

Loop(s) ==
  LockQueued(s) \/ StartQueued(s) \/ LockRunning(s) \/ ScheduleDagRun(s) \/ CommitSchedule(s)

Attempt(r, t) ==
  \/ Execute(r, t) \/ TaskEnds(r, t) \/ RetryDelayElapses(r, t)
  \/ MiniSchedule(r, t) \/ MiniCommit(r, t) \/ MiniFails(r, t)
  \/ UpdatePaused(r, t) \/ CommitPaused(r, t) \/ Exit(r, t)

Next ==
  \/ CreateDagRun \/ TogglePaused
  \/ \E s \in bounds.schedulers : Loop(s) \/ Rollback(s)
  \/ \E r \in Run, t \in dag.tasks : Attempt(r, t)

Spec == Init /\ [][Next]_vars

(* Every scheduler goes on with its loop; scheduled tasks are executed,    *)
(* tasks and retry delays end, and so do jobs.  A job that waits for a row *)
(* lock gets it in the end: schedulers skip a row that is waited for.      *)
FairSpec ==
  /\ Spec
  /\ \A s \in Scheduler : WF_vars(s \in bounds.schedulers /\ Loop(s))
  /\ \A r \in Run, t \in Task : WF_vars(Attempt(r, t)) /\ SF_vars(CommitPaused(r, t))

-----------------------------------------------------------------------------
Written == {"none", "scheduled"} \cup finished

Transaction ==
  [locked : SUBSET Run, todo : SUBSET Run, active : Nat,
   plan : [Run -> [write : [Task -> Written],
                   state : {"none", "running", "success", "failed", "timed_out"}]]]

(* Every variable has its type, and whoever waits for a retry has been     *)
(* retried.                                                                *)
TypeOK ==
  /\ \E c \in Cases : dag = c.dag /\ bounds = c.bounds
  /\ ti \in [Run -> [Task -> TaskInstanceState]]
  /\ run \in [Run -> DagRunState \cup {"none"}]
  /\ timed_out \subseteq Run
  /\ lock \in [Run -> Proc \cup {None}]
  /\ pc \in [Proc -> {"loop", "start", "examine", "schedule",
                      "none", "mini", "mini_commit", "exit", "exit_commit"}]
  /\ tx \in [Proc -> Transaction]
  /\ executing \subseteq Job /\ retried \subseteq Job /\ delayed \subseteq retried
  /\ paused \in BOOLEAN /\ toggles \in Nat /\ rollbacks \in Nat

(* A run that is running ends, unless its DAG is paused: no combination of *)
(* trigger rules leaves it with task instances that nobody schedules or    *)
(* gives up.  With depends_on_past it may wait for the previous run.       *)
RunEnds ==
  \A r \in Run :
    run[r] = "running" /\ dag.depends_on_past = {} ~> run[r] \in {"success", "failed"} \/ paused

(* A run that dagrun_timeout has ended stays FAILED, although its tasks go *)
(* on and end later, and their jobs run the mini scheduler.  Only the job  *)
(* of a DAG that is paused meanwhile may decide on the run once more.      *)
TimedOutFails == toggles = 0 => \A r \in timed_out : run[r] = "failed"

(* _start_queued_dagruns never has more runs running than max_active_runs. *)
(* A single scheduler, that is: two may each count without the other.  And *)
(* the last job of a run that has timed out makes it running again if the  *)
(* DAG is paused just then.                                                *)
MaxActiveRuns ==
  /\ Cardinality(bounds.schedulers) = 1 /\ dag.max_active_runs # 0
  /\ toggles = 0 \/ ~dag.dagrun_timeout
  => Cardinality(RunningRuns) <= dag.max_active_runs

=============================================================================
