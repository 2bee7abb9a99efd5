--------------------------- MODULE CriticalSection ---------------------------
(***************************************************************************)
(* The scheduler's critical section: several schedulers move task          *)
(* instances (TIs) from SCHEDULED to QUEUED under the pool, DAG and task   *)
(* concurrency limits (airflow/jobs/scheduler_job.py), while workers start *)
(* and finish queued TIs (airflow/models/taskinstance.py), users clear     *)
(* them, and a backfill queues its own TIs without taking the pool lock    *)
(* (airflow/jobs/backfill_job.py).                                         *)
(*                                                                         *)
(* One database transaction of the critical section is four steps, one per *)
(* statement other processes may run between:                              *)
(*   SlotsStats        lock the pool rows, read the open slots             *)
(*   Examine           select and lock the SCHEDULED rows to look at       *)
(*   QueueExecutable   read the running counts, choose, UPDATE             *)
(*   Commit            make the UPDATE visible and release the locks       *)
(* A statement sees only committed rows, so nobody sees the UPDATE before  *)
(* Commit.                                                                 *)
(***************************************************************************)
EXTENDS Integers, FiniteSets, TaskStates

CONSTANTS
  Scheduler,         \* the SchedulerJobs
  Backfill,          \* a BackfillJob, not a scheduler
  TI,                \* task instance rows
  BackfillTI,        \* the TIs that belong to a backfill DagRun
  Dag, Task, Pool,   \* DAGs, (dag_id, task_id) pairs, rows of slot_pool
  dag_id, task_id, pool, pool_slots, priority_weight, execution_date,
                     \* columns of a TI, as functions on TI
  slots,             \* Pool.slots; -1 is an infinite pool
  max_active_tasks,  \* DagModel.max_active_tasks
  task_concurrency,  \* of a task; NoLimit is Python's None
  max_tis_per_query, \* 0 is unlimited
  parallelism,       \* slots of a scheduler's executor
  MaxPoolSlots,      \* a bound on pool_slots
  Pausable,          \* the DAGs that users pause and unpause
  MaxChecks,         \* a bound on the workers that check at the same time
  RowLocks,          \* with_row_locks emits SELECT ... FOR UPDATE
  Outcomes,          \* the states in which a started task may leave its row
  None

NoLimit == -1

Job == Scheduler \cup {Backfill}

ASSUME CSAssumption ==
  /\ IsFiniteSet(TI) /\ IsFiniteSet(Pool) /\ BackfillTI \subseteq TI
  /\ Backfill \notin Scheduler /\ None \notin Scheduler
  /\ dag_id \in [TI -> Dag] /\ task_id \in [TI -> Task]
  /\ MaxPoolSlots \in Nat /\ pool_slots \in [TI -> 1..MaxPoolSlots]
  /\ priority_weight \in [TI -> Int] /\ execution_date \in [TI -> Int]
  /\ DOMAIN pool = TI
  /\ slots \in [Pool -> Nat \cup {-1}]
  /\ max_active_tasks \in [Dag -> Nat]
  /\ task_concurrency \in [Task -> Nat \cup {NoLimit}]
  /\ max_tis_per_query \in Nat /\ parallelism \in Nat
  /\ Pausable \subseteq Dag /\ MaxChecks \in Nat /\ RowLocks \in BOOLEAN
  /\ Outcomes \subseteq TaskInstanceState \ EXECUTION_STATES

VARIABLES
  state,     \* committed TI.state
  outside,   \* history: TIs in EXECUTION_STATES that no critical section put there
  paused,    \* DagModel.is_paused
  lock,      \* the scheduler that holds the slot_pool row locks, or None
  phase,     \* where each scheduler is in its critical section
  open,      \* the "open" column of the PoolStats a scheduler read
  max_tis,   \* the LIMIT of its query
  examined,  \* the rows it selected (task_instances_to_examine)
  chosen,    \* executable_tis: the rows of its uncommitted UPDATE
  cmd,       \* <<job, ti>>: commands handed to an executor, not yet started
  check      \* <<job, ti, outcome>>: workers between their checks and their commit

vars == <<state, outside, paused, lock, phase, open, max_tis, examined,
          chosen, cmd, check>>
csVars == <<lock, phase, open, max_tis, examined, chosen>>

-----------------------------------------------------------------------------
(* Pool slots.  A set of slot units has one element for every slot its TIs *)
(* occupy, so that its cardinality is the sum of their pool_slots.         *)

SlotUnits(S) == {u \in S \X (1..MaxPoolSlots) : u[2] <= pool_slots[u[1]]}

\* func.sum(TaskInstance.pool_slots) over the TIs of S.
SumSlots(S) == Cardinality(SlotUnits(S))

InPool(S, p) == {t \in S : pool[t] = p}
OfDag(S, d) == {t \in S : dag_id[t] = d}
OfTask(S, k) == {t \in S : task_id[t] = k}

Executing == {t \in TI : state[t] \in EXECUTION_STATES}
Running == {t \in TI : state[t] = "running"}

Infinite(p) == slots[p] = -1

\* mutant: queued TIs do not count
open_slots_running(p) == slots[p] - SumSlots(InPool(Running, p))

\* Pool.open_slots of a finite pool: its slots less the occupied ones.
open_slots(p) == slots[p] - SumSlots(InPool(Executing, p))

\* sum(pool['open'] for pool in pools.values()) when no pool is infinite.
SumOpen ==
  LET total == UNION {{p} \X (1..slots[p]) : p \in Pool}
  IN  Cardinality(total) - SumSlots({t \in Executing : pool[t] \in Pool})

pool_slots_free_signed == SumOpen \* mutant: an overfull pool makes the LIMIT negative

pool_slots_free == IF SumOpen > 0 THEN SumOpen ELSE 0

\* sys.maxsize and float('inf'): a LIMIT no smaller than the table limits nothing.
maxsize == Cardinality(TI)

Lesser(a, b) == IF a <= b THEN a ELSE b

-----------------------------------------------------------------------------
(* Order of the rows: priority first, then the older execution date.  The  *)
(* database may return ties in any order.                                  *)

Higher(u, t) ==
  \/ priority_weight[u] > priority_weight[t]
  \/ /\ priority_weight[u] = priority_weight[t]
     /\ execution_date[u] < execution_date[t]

\* The results of ORDER BY ... LIMIT n over the rows of S.
Limited(S, n) ==
  {E \in SUBSET S : /\ Cardinality(E) = Lesser(n, Cardinality(S))
                    /\ \A u \in S \ E, t \in E : ~Higher(u, t)}

\* mutant: within a pool the rows keep the order of their primary keys
ProcessingOrders_unsorted(E) ==
  {ord \in [E -> 1..Cardinality(E)] : \A u, t \in E : u # t => ord[u] # ord[t]}

(* The order in which the two nested loops visit the rows of E: pool by    *)
(* pool, the pool of the best row first, by priority within a pool.        *)
ProcessingOrders(E) ==
  {ord \in [E -> 1..Cardinality(E)] :
     \A u, t \in E : u # t =>
       /\ ord[u] # ord[t]
       /\ pool[u] = pool[t] =>
            /\ Higher(u, t) => ord[u] < ord[t]
            /\ \A v \in E : ord[u] < ord[v] /\ ord[v] < ord[t] => pool[v] = pool[u]
       /\ pool[u] # pool[t] /\ ord[u] < ord[t] =>
            \E v \in InPool(E, pool[u]) : \A w \in InPool(E, pool[t]) : ~Higher(w, v)}

\* mutant: the loop forgets to count what it has just chosen of a DAG and a task
Fits_no_increment(s, t, before) ==
  LET p == pool[t]
      left == open[s][p] - SumSlots(InPool(before, p))
      limit == task_concurrency[task_id[t]]
  IN  /\ p \in Pool
      /\ Infinite(p) \/ (left > 0 /\ pool_slots[t] <= left)
      /\ Cardinality(OfDag(Executing, dag_id[t])) < max_active_tasks[dag_id[t]]
      /\ limit = NoLimit \/ Cardinality(OfTask(Executing, task_id[t])) < limit

\* One turn of the loop: may scheduler s queue t after the TIs of `before`?
Fits(s, t, before) ==
  LET p == pool[t]
      used == SumSlots(InPool(before, p))
      dag_count == Cardinality(OfDag(Executing, dag_id[t]))
                     + Cardinality(OfDag(before, dag_id[t]))
      task_count == Cardinality(OfTask(Executing, task_id[t]))
                     + Cardinality(OfTask(before, task_id[t]))
      limit == task_concurrency[task_id[t]]
  IN  /\ p \in Pool
      /\ Infinite(p) \/ open[s][p] - used > 0
      /\ dag_count < max_active_tasks[dag_id[t]]
      /\ limit = NoLimit \/ task_count < limit
      /\ Infinite(p) \/ pool_slots[t] <= open[s][p] - used

\* The executable_tis the loop builds: a row is in C exactly when it fits
\* after the rows of C that come before it.
IsExecutable(s, E, ord, C) ==
  \A t \in E : t \in C <=> Fits(s, t, {u \in C : ord[u] < ord[t]})

-----------------------------------------------------------------------------
(* Row locks on TIs: the SELECT ... FOR UPDATE of Examine and the UPDATE   *)
(* of QueueExecutable.  A worker locks the row too, with                   *)
(* refresh_from_db(lock_for_update=True), but PoolSlotsAvailableDep asks   *)
(* for the open slots with a session of its own, which is the same one     *)
(* (settings.Session is a scoped_session) and is committed: the lock does  *)
(* not outlive the check.                                                  *)

\* mutant: with_row_locks(of=TI) left out
LockedByScheduler_none(t) == FALSE

LockedByScheduler(t) ==
  \E s \in Scheduler :
    \/ RowLocks /\ phase[s] \in {"examined", "updated"} /\ t \in examined[s]
    \/ phase[s] = "updated" /\ t \in chosen[s]

\* mutant: the transaction is left open, with its lock on the pool rows
EndTransaction_keep_lock(s, next) ==
  /\ phase' = [phase EXCEPT ![s] = next]
  /\ open' = [open EXCEPT ![s] = [p \in Pool |-> 0]]
  /\ max_tis' = [max_tis EXCEPT ![s] = 0]
  /\ examined' = [examined EXCEPT ![s] = {}]
  /\ chosen' = [chosen EXCEPT ![s] = {}]
  /\ UNCHANGED lock

\* Back to the scheduler loop: the transaction is over and its locks are gone.
EndTransaction(s, next) ==
  /\ phase' = [phase EXCEPT ![s] = next]
  /\ lock' = IF lock = s THEN None ELSE lock
  /\ open' = [open EXCEPT ![s] = [p \in Pool |-> 0]]
  /\ max_tis' = [max_tis EXCEPT ![s] = 0]
  /\ examined' = [examined EXCEPT ![s] = {}]
  /\ chosen' = [chosen EXCEPT ![s] = {}]

(* Pool.slots_stats(lock_rows=True) and the LIMIT.  When another scheduler *)
(* holds the pool rows, NOWAIT makes the code roll back and return, which  *)
(* changes nothing, as does a full executor or full pools.  The executor's *)
(* free slots are any number in 1..parallelism (any number at all for      *)
(* parallelism 0).                                                         *)
SlotsStats(s) ==
  /\ phase[s] = "idle"
  /\ RowLocks => lock = None
  /\ LET unlimited == \E p \in Pool : Infinite(p)
     IN  /\ unlimited \/ pool_slots_free # 0
         /\ \E slots_available \in 1..(IF parallelism = 0 THEN maxsize ELSE parallelism) :
              LET wanted == IF max_tis_per_query = 0 THEN slots_available
                            ELSE Lesser(max_tis_per_query, slots_available)
              IN  max_tis' = [max_tis EXCEPT ![s] =
                                IF unlimited THEN wanted ELSE Lesser(wanted, pool_slots_free)]
  /\ open' = [open EXCEPT ![s] =
                [p \in Pool |-> IF Infinite(p) THEN 0 ELSE open_slots(p)]]
  /\ lock' = IF RowLocks THEN s ELSE lock
  /\ phase' = [phase EXCEPT ![s] = "stats"]
  /\ UNCHANGED <<state, outside, paused, examined, chosen, cmd, check>>

\* The rows the SELECT may return: scheduled, of no backfill and no paused
\* DAG, in no starved pool, and (SKIP LOCKED) not locked by anybody.
Selectable(s) ==
  {t \in TI \ BackfillTI :
     /\ state[t] = "scheduled"
     /\ dag_id[t] \notin paused
     /\ pool[t] \in Pool => Infinite(pool[t]) \/ open[s][pool[t]] > 0
     /\ RowLocks => ~LockedByScheduler(t)}

\* SELECT ... LIMIT max_tis FOR UPDATE SKIP LOCKED; no row ends the transaction.
Examine(s) ==
  /\ phase[s] = "stats"
  /\ \E E \in Limited(Selectable(s), max_tis[s]) :
       \/ /\ E # {}
          /\ examined' = [examined EXCEPT ![s] = E]
          /\ phase' = [phase EXCEPT ![s] = "examined"]
          /\ UNCHANGED <<lock, open, max_tis, chosen>>
       \/ /\ E = {}
          /\ EndTransaction(s, "idle")
  /\ UNCHANGED <<state, outside, paused, cmd, check>>

\* Read the concurrency maps, run the loop, UPDATE the chosen rows.
QueueExecutable(s) ==
  /\ phase[s] = "examined"
  /\ \E ord \in ProcessingOrders(examined[s]), C \in SUBSET examined[s] :
       /\ IsExecutable(s, examined[s], ord, C)
       /\ \A t \in C : ~RowLocks => ~LockedByScheduler(t)
       /\ chosen' = [chosen EXCEPT ![s] = C]
  /\ phase' = [phase EXCEPT ![s] = "updated"]
  /\ UNCHANGED <<state, outside, paused, lock, open, max_tis, examined, cmd, check>>

(* guard.commit(), and queue_command for every chosen TI: an executor      *)
(* refuses a command it already has.                                       *)
Commit(s) ==
  /\ phase[s] = "updated"
  /\ state' = [t \in TI |-> IF t \in chosen[s] THEN "queued" ELSE state[t]]
  /\ cmd' = cmd \cup ({s} \X chosen[s])
  /\ outside' = outside \ chosen[s]
  /\ EndTransaction(s, "idle")
  /\ UNCHANGED <<paused, check>>

\* The scheduler process dies: its transaction is rolled back, and the
\* commands its executor had not sent yet are lost.
Crash(s) ==
  /\ phase[s] # "dead"
  /\ \E lost \in SUBSET {c \in cmd : c[1] = s} : cmd' = cmd \ lost
  /\ EndTransaction(s, "dead")
  /\ UNCHANGED <<state, outside, paused, check>>

-----------------------------------------------------------------------------
(* Workers: TaskInstance.check_and_change_state_before_execution.          *)

\* PoolSlotsAvailableDep: the TI's own slots do not count against it.
PoolSlotsAvailable(t) ==
  /\ pool[t] \in Pool
  /\ \/ Infinite(pool[t])
     \/ LET own == IF t \in Executing THEN pool_slots[t] ELSE 0
        IN  open_slots(pool[t]) + own > pool_slots[t] - 1

\* REQUEUEABLE_DEPS: DagTISlotsAvailableDep, TaskConcurrencyDep, PoolSlotsAvailableDep.
RequeueableDepsMet(t) ==
  /\ Cardinality(OfDag(Running, dag_id[t])) < max_active_tasks[dag_id[t]]
  /\ \/ task_concurrency[task_id[t]] = NoLimit
     \/ Cardinality(OfTask(Running, task_id[t])) < task_concurrency[task_id[t]]
  /\ PoolSlotsAvailable(t)

\* Lock the row, check the dependencies: all met, or only a limit is reached.
WorkerCheck(j, t) ==
  /\ <<j, t>> \in cmd
  /\ ~LockedByScheduler(t)
  /\ state[t] \in RUNNABLE_STATES
  /\ Cardinality(check) < MaxChecks
  /\ check' = check \cup {<<j, t, IF RequeueableDepsMet(t) THEN "pass" ELSE "requeue">>}
  /\ cmd' = cmd \ {<<j, t>>}
  /\ UNCHANGED <<state, outside, paused, csVars>>

\* Another dependency fails (the state is not runnable, the task runs
\* already, an upstream was cleared): the command ends without a change.
WorkerRefuse(j, t) ==
  /\ <<j, t>> \in cmd
  /\ ~LockedByScheduler(t)
  /\ cmd' = cmd \ {<<j, t>>}
  /\ UNCHANGED <<state, outside, paused, csVars, check>>

\* The commit that ends the check, whatever the row is by now: RUNNING, or
\* back to NONE when a limit is reached.
WorkerCommit(t) ==
  /\ ~LockedByScheduler(t)
  /\ \E w \in check :
       /\ w[2] = t
       /\ check' = check \ {w}
       /\ \/ /\ w[3] = "pass"
             /\ state' = [state EXCEPT ![t] = "running"]
             /\ outside' = IF t \in Executing THEN outside ELSE outside \cup {t}
          \/ /\ w[3] = "requeue"
             /\ state' = [state EXCEPT ![t] = "none"]
             /\ outside' = outside \ {t}
  /\ UNCHANGED <<paused, cmd, csVars>>

\* _run_raw_task and the LocalTaskJob record how the task ended.
Finish(t) ==
  /\ state[t] \in {"running", "restarting"}
  /\ ~LockedByScheduler(t)
  /\ \E r \in Outcomes : state' = [state EXCEPT ![t] = r]
  /\ outside' = outside \ {t}
  /\ UNCHANGED <<paused, cmd, check, csVars>>

-----------------------------------------------------------------------------
(* Everybody else.                                                         *)

\* DagRun.schedule_tis
ScheduleTIs(t) ==
  /\ state[t] \in SCHEDULEABLE_STATES
  /\ ~LockedByScheduler(t)
  /\ state' = [state EXCEPT ![t] = "scheduled"]
  /\ UNCHANGED <<outside, paused, cmd, check, csVars>>

(* clear_task_instances: RESTARTING for a running TI, NONE for any other,  *)
(* and also for one that a worker started after the clear had read the     *)
(* row.  A command already handed to an executor stays there.              *)
Clear(t) ==
  /\ ~LockedByScheduler(t)
  /\ \E r \in {"none"} \cup (IF state[t] = "running" THEN {"restarting"} ELSE {}) :
       state' = [state EXCEPT ![t] = r]
  /\ outside' = outside \ {t}
  /\ UNCHANGED <<paused, cmd, check, csVars>>

TogglePaused(d) ==
  /\ paused' = IF d \in paused THEN paused \ {d} ELSE paused \cup {d}
  /\ UNCHANGED <<state, outside, cmd, check, csVars>>

BACKFILL_QUEUEABLE_STATES == SCHEDULEABLE_STATES \cup {"scheduled"}

(* BackfillJob: one slot must be open, whatever the task's pool_slots, and *)
(* no lock is taken on the pool.  A task_concurrency of 0 counts as unset. *)
BackfillQueue(t) ==
  /\ t \in BackfillTI
  /\ state[t] \in BACKFILL_QUEUEABLE_STATES
  /\ ~LockedByScheduler(t)
  /\ <<Backfill, t>> \notin cmd
  /\ pool[t] \in Pool
  /\ Infinite(pool[t]) \/ open_slots(pool[t]) > 0
  /\ Cardinality(OfDag(Executing, dag_id[t])) < max_active_tasks[dag_id[t]]
  /\ \/ task_concurrency[task_id[t]] \in {NoLimit, 0}
     \/ Cardinality(OfTask(Executing, task_id[t])) < task_concurrency[task_id[t]]
  /\ state' = [state EXCEPT ![t] = "queued"]
  /\ outside' = outside \cup {t}
  /\ cmd' = cmd \cup {<<Backfill, t>>}
  /\ UNCHANGED <<paused, check, csVars>>

-----------------------------------------------------------------------------
Init ==
  /\ state = [t \in TI |-> "none"]
  /\ outside = {}
  /\ paused = {}
  /\ lock = None
  /\ phase = [s \in Scheduler |-> "idle"]
  /\ open = [s \in Scheduler |-> [p \in Pool |-> 0]]
  /\ max_tis = [s \in Scheduler |-> 0]
  /\ examined = [s \in Scheduler |-> {}]
  /\ chosen = [s \in Scheduler |-> {}]
  /\ cmd = {}
  /\ check = {}

\* Nothing but schedulers, workers and the DagRun scheduling.
Undisturbed ==
  \/ \E s \in Scheduler : SlotsStats(s) \/ Examine(s) \/ QueueExecutable(s) \/ Commit(s)
  \/ \E t \in TI : WorkerCommit(t) \/ Finish(t) \/ ScheduleTIs(t)
  \/ \E j \in Job, t \in TI : WorkerCheck(j, t)

Next ==
  \/ Undisturbed
  \/ \E s \in Scheduler : Crash(s)
  \/ \E j \in Job, t \in TI : WorkerRefuse(j, t)
  \/ \E t \in TI : Clear(t) \/ BackfillQueue(t)
  \/ \E d \in Pausable : TogglePaused(d)

Spec == Init /\ [][Next]_vars

(* The scheduler loop, the workers and the DagRun scheduling go on as long *)
(* as there is work.  No fairness is needed on any single scheduler's lock *)
(* attempt: one of them gets the lock.                                     *)
Fairness ==
  /\ WF_vars(\E s \in Scheduler : SlotsStats(s))
  /\ \A s \in Scheduler : WF_vars(Examine(s) \/ QueueExecutable(s) \/ Commit(s))
  /\ \A t \in TI : /\ WF_vars(WorkerCommit(t) \/ Finish(t))
                   /\ WF_vars(ScheduleTIs(t))
  /\ \A j \in Job, t \in TI : WF_vars(WorkerCheck(j, t))

LiveSpec == Init /\ [][Undisturbed]_vars /\ Fairness

-----------------------------------------------------------------------------
(* Properties.                                                             *)

Phases == {"idle", "stats", "examined", "updated", "dead"}

\* Every variable has its type; the pool lock is held by a scheduler or by nobody.
TypeOK ==
  /\ state \in [TI -> TaskInstanceState]
  /\ outside \subseteq TI
  /\ paused \subseteq Dag
  /\ lock \in Scheduler \cup {None}
  /\ phase \in [Scheduler -> Phases]
  /\ open \in [Scheduler -> [Pool -> Int]]
  /\ max_tis \in [Scheduler -> Nat]
  /\ examined \in [Scheduler -> SUBSET TI]
  /\ chosen \in [Scheduler -> SUBSET TI]
  /\ cmd \subseteq Job \X TI
  /\ check \subseteq Job \X TI \X {"pass", "requeue"}

\* The TIs that occupy slots because a critical section queued them.
Booked == Executing \ outside

(* No pool is overbooked by the schedulers: whatever the interleaving of   *)
(* two critical sections, of workers and of users, the slots of the queued *)
(* and running TIs that _executable_task_instances_to_queued let through   *)
(* never exceed the pool's slots, although each critical section decides   *)
(* on numbers it read three statements earlier.                            *)
PoolNotOverbooked ==
  \A p \in Pool : ~Infinite(p) => SumSlots(InPool(Booked, p)) <= slots[p]

(* Nor does a DAG exceed max_active_tasks, or a task its task_concurrency, *)
(* through what the schedulers queued.                                     *)
ConcurrencyNotExceeded ==
  /\ \A d \in Dag : Cardinality(OfDag(Booked, d)) <= max_active_tasks[d]
  /\ \A k \in Task : \/ task_concurrency[k] = NoLimit
                     \/ Cardinality(OfTask(Booked, k)) <= task_concurrency[k]

(* The UPDATE of the critical section overwrites nobody: a TI that it sets *)
(* to QUEUED is still SCHEDULED when the UPDATE commits, although it was   *)
(* selected two statements before.                                         *)
QueuedFromScheduled ==
  [][\A s \in Scheduler : Commit(s) => \A t \in chosen[s] : state[t] = "scheduled"]_vars

(* Priority: a TI that was looked at and left behind is not passed over    *)
(* for one of the same task and pool that is less urgent and needs as many *)
(* slots or more.                                                          *)
NoPriorityInversion ==
  \A s \in Scheduler : phase[s] = "updated" =>
    \A u \in examined[s] \ chosen[s], t \in chosen[s] :
      ~ /\ Higher(u, t)
        /\ pool[u] = pool[t] /\ task_id[u] = task_id[t] /\ dag_id[u] = dag_id[t]
        /\ pool_slots[u] <= pool_slots[t]

(* The TIs of B and, beside them, those of C stay within every pool, DAG   *)
(* and task limit.                                                         *)
WithinLimits(B, C) ==
  /\ \A p \in Pool : ~Infinite(p) =>
       SumSlots(InPool(B, p)) + SumSlots(InPool(C, p)) <= slots[p]
  /\ \A d \in Dag :
       Cardinality(OfDag(B, d)) + Cardinality(OfDag(C, d)) <= max_active_tasks[d]
  /\ \A k \in Task :
       \/ task_concurrency[k] = NoLimit
       \/ Cardinality(OfTask(B, k)) + Cardinality(OfTask(C, k)) <= task_concurrency[k]

\* The open slots o of a snapshot are still free beside the TIs of B.
StillOpen(o, B) ==
  \A p \in Pool : ~Infinite(p) => o[p] + SumSlots(InPool(B, p)) <= slots[p]

(* The inductive strengthening, for a database with row locks: whoever is  *)
(* in the critical section holds the pool lock; the open slots it read are *)
(* still free, since only the lock holder books any; its rows stay         *)
(* SCHEDULED, since everybody else waits for the lock on them; and what it  *)
(* has chosen fits.                                                        *)
CSInv ==
  /\ TypeOK
  /\ PoolNotOverbooked
  /\ ConcurrencyNotExceeded
  /\ \A s \in Scheduler :
       /\ phase[s] \in {"stats", "examined", "updated"} => lock = s
       /\ phase[s] \in {"stats", "examined"} => StillOpen(open[s], Booked)
       /\ phase[s] \in {"examined", "updated"} =>
            \A t \in examined[s] : state[t] = "scheduled"
       /\ phase[s] = "updated" => /\ chosen[s] \subseteq examined[s]
                                  /\ WithinLimits(Booked, chosen[s])

(* A SCHEDULED TI is eventually queued when every TI fits its pool and the *)
(* limits of its DAG and task are positive.                                *)
ScheduledIsQueued ==
  \A t \in TI \ BackfillTI : state[t] = "scheduled" ~> state[t] # "scheduled"

=============================================================================
