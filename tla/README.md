# A TLA+ verification of Airflow's task scheduling

These modules specify the parts of the `airflow` package that decide which task
instance runs, when, and how often. TLC checks them on small instances; TLAPS
proves the central safety properties for every instance. `PROJECT.json` lists
the components, the runs, the mutants, the source lines of every definition,
the hazards, the findings and the theorems.

## The system

A *DAG* has tasks. A *run* (`DagRun`) is one execution of a DAG for one
execution date. A *task instance* (TI) is one task of one run: a row of
`task_instance`. No process talks to another directly, except through signals
and Celery; they meet in the database:

- several **schedulers** (`SchedulerJob`) create and start runs, decide which
  TIs of a run may be scheduled (`DagRun.update_state`), and move SCHEDULED TIs
  to QUEUED in a *critical section* under pool, DAG and task limits;
- the **executor** inside each scheduler sends the command of a queued TI to
  Celery and reports back; a scheduler adopts or resets the TIs of a dead one;
- a **worker** runs the command in a **LocalTaskJob**, which claims the TI,
  forks the process of the task, watches the row and its heartbeat, and at the
  end runs a *mini scheduler* for the downstream tasks;
- the **DAG file processor** looks for zombies and runs delayed callbacks;
- **users** clear, mark, pause; a **backfill** queues TIs by itself.

A transaction reads without locking what it reads, except where the code asks
for `FOR UPDATE`, and writes at its commit. Nearly everything that can go wrong
goes wrong between a read and the write that rests on it, so an action of these
modules is one statement, or a group of statements between which nobody else's
commit matters.

## Modules

| Module | What it models |
| --- | --- |
| `TaskStates` | the state enumerations and sets (`utils/state.py`, `ti_deps/dependencies_states.py`) |
| `CriticalSection` | SCHEDULED to QUEUED: `_executable_task_instances_to_queued`, `Pool.slots_stats`, the checks of a worker, a backfill's queueing, clears, pauses, crashes |
| `TriggerRule` | `TriggerRuleDep`, which counts, beside the documented meaning of the rules |
| `DagRunPromise` | abstract: what the runs of a DAG promise to its author |
| `DagRunScheduling` | `_start_queued_dagruns`, `_schedule_dag_run`, `DagRun.update_state`, `schedule_tis`, the mini scheduler, the update of a paused DAG's run |
| `LocalTaskJob` | one attempt: job, forked process, SIGTERM, heartbeat, zombie finder, edits, another worker |
| `CeleryScheduling` | one TI through the loops of several schedulers, their Celery executors, the broker and the workers |
| `MCCriticalSection`, `MCDagRun`, `MCCeleryScheduling` | the instances that TLC checks |
| `DagRunMapping` | `DagRunScheduling` as an implementation of `DagRunPromise`: the refinement mapping |
| `CriticalSectionProofs` | theorems about `CriticalSection` |
| `DagRunLockProofs`, `DagRunDecisionProofs`, `DagRunProofs`, `DagRunTheorems` | theorems about `TriggerRule` and `DagRunScheduling`: types, trigger rules and locks; decisions; the invariant; the refinement, timeouts and `max_active_runs` |
| `LocalTaskJobProofs` | theorems about `LocalTaskJob` |
| `CeleryStepProofs`, `CeleryProofs` | theorems about `CeleryScheduling`: the invariant and the steps that leave the executors alone, then the executors and the theorems |

The modules meet at the TI's state. What `DagRunScheduling` calls `Execute` is
`CriticalSection` (to QUEUED), then `CeleryScheduling` (to a worker), then
`LocalTaskJob` (the attempt). Each abstracts its neighbours to the changes they
make to the row.

### CriticalSection

State: the committed `state` of each TI, the `slot_pool` lock, and for each
scheduler where it is in the transaction and what it has read (`open`,
`max_tis`, `examined`, `chosen`). The transaction is four actions: `SlotsStats`
(lock the pools, read open slots), `Examine` (SELECT ... FOR UPDATE with its
ORDER BY and LIMIT), `QueueExecutable` (the loop over pools and TIs, the
UPDATE) and `Commit`. A worker's `check_and_change_state_before_execution` is
`WorkerCheck` and `WorkerCommit` (or `WorkerRefuse`), because the row lock is
lost between them (see the findings). `Crash` ends a transaction anywhere.

`outside` is a history variable: the TIs in `EXECUTION_STATES` that no critical
section put there, namely those of a backfill, and those started by a command
that had been cleared since. The code does not reserve slots for them, so the
limits are stated for the rest (`Booked`). `RowLocks` says whether
`with_row_locks` emits `FOR UPDATE`; it is TRUE in the runs. With
`RowLocks = FALSE`, the setting `use_row_level_locking = False`,
`PoolNotOverbooked` is violated by two schedulers, as the configuration's
documentation warns.

### TriggerRule, DagRunPromise, DagRunScheduling

`TriggerRule` has the counting of `_evaluate_trigger_rule` (`Passes`,
`Assigned`) and, independently, `Met` (the documented rule) and `Hopeless` (no
outcome of the unfinished upstream tasks can meet it).

`DagRunPromise` has three variables beside the DAG: each TI is "waiting",
"executing" or has an outcome. A TI starts only when its dependencies are met,
is given up only when its rule is hopeless, its outcome is final, and a run
ends only when all TIs have outcomes, with what its leaves decide. A run that
timed out is promised nothing.

`DagRunScheduling` has the processes. A scheduler's loop is `LockQueued`,
`StartQueued`, `LockRunning`, `ScheduleDagRun` (once per run), and
`CommitSchedule`; `Rollback` loses the transaction. The job of a finished task
goes through `MiniSchedule`, `MiniCommit` (or `MiniFails`), and, when its DAG
is paused, `UpdatePaused` and `CommitPaused`. A transaction is a record of the
runs it locked and a *plan* of what it writes. Details of the code that matter
and are modelled: the session does not autoflush, so the UPDATE of
`schedule_tis` precedes the assigned states (`Writes`); TIs of the previous run
come from the session's objects while those downstream are counted in the
database (`PreviousTIs`); `_are_premature_tis` assigns states as a side effect
and stops at the first TI that is fine (`CheckedAsPremature`); and the partial
DAG of the mini scheduler has forgotten the tasks outside it (`PartialSubset`).

The refinement maps NONE, UP_FOR_RETRY and UP_FOR_RESCHEDULE to "waiting",
SCHEDULED, QUEUED and RUNNING to "executing", and each outcome to itself.

### LocalTaskJob

The job is single-threaded, and a SIGTERM runs its handler on top of whatever
it interrupts: the control state is a stack of what is still to be done. `TI`
objects are copies of the row (`job_ti`, `child_ti`), and a merge writes the
whole copy back. "Other worker" stands for any number of workers with this TI.

The job sends SIGTERM to the process group of its task, and three details of that
are modelled. The child has a group only after its `setpgid` (`ChildSetpgid`);
before that `terminate()` finds no such group and takes the task for gone. The
job assigns `self.process` only after the fork (`JobFork`, `JobStarted`); before
that `terminate()` returns at once, and the loop or `on_kill` ends the task later.
And after SIGTERM the job waits, sends SIGKILL, waits again and then gives up
(`JobReap`; the fault "deaf" is a task that outlasts a wait). The history variable
`forgotten` says that `terminate()` gave up a process that had not ended. A
SIGTERM that interrupts `reap_process_group` runs another `terminate()` to its
end; the first then asks `None` for its pid, and the AttributeError leaves
`_execute` by its `finally` (`Raise`). The death of a process group is the death
of the task: grandchildren are not modelled.

### CeleryScheduling

Each scheduler has a `pc` and an `executor` record (queued, running, tasks,
event buffer, adopted), which dies with it. The broker may deliver a command
again; a publication may time out and still arrive. A *scenario* fixes which
faults may happen, so that each is checked in full without all of them at once.

A key is a try number, the only part of a `TaskInstanceKey` that varies here.
`tasks` and `event_buffer` are Python dicts, and their order matters: of several
events of one TI, `_process_executor_events` looks only at the last one. Such a
dict gives every key its place (`at`, 0 for a key that is absent) and its value,
and a key that is assigned again keeps its place. A reschedule takes back a try,
so try numbers may fall below zero when a stale row is written (`MaxBack`).

The TI's run is RUNNING and not a backfill's, as the query for orphans asks
(`Orphaned`), and `parallelism` is 0, no limit, so that `open_slots` never holds a
command back: with one TI it would only delay.

## Runs

| Run | Setting | Shows |
| --- | --- | --- |
| `cs_safety` | all faults | no pool is overbooked by the schedulers; the UPDATE by primary key overwrites nobody |
| `cs_live` | no faults, fair | a SCHEDULED TI is queued, within DAG and task limits, and by priority |
| `dagrun_safety` | 18 cases | `DagRunScheduling` implements `DagRunPromise`; one scheduler respects `max_active_runs`; a run that timed out stays failed |
| `dagrun_live` | 12 cases, fair | a running run ends |
| `job_safety` | 2 SIGTERMs, deaths, deaf task | a job ends before its task only where `terminate()` gave it up; callbacks at most 1 + SIGTERMs |
| `job_live` | edit, takeover, deaths, deaf task, fair | undead tasks are terminated, given up or own the row again; zombies are failed |
| `celery_safety` | 5 scenarios | an executor leaks no slot; with retries and failed publications only, one execution at a time |
| `celery_live` | 3 scenarios, fair | a TI does not stay QUEUED, unless its result was overtaken in a batch |
| `job_restart`, `celery_requeue`, `celery_adopt`, `celery_redeliver` | | violations, see the findings |

Each property of a passing run has a mutant in `PROJECT.json`: the model with
one plausible bug in one definition, for which TLC reports a violation.

### Bounds, and why they are enough

- **CriticalSection**: two schedulers, three TIs, one pool of two slots; two TIs
  are of one task limited to one at a time, the third is more urgent and needs
  both slots. The LIMIT is two rows, so every limit refuses somebody, and the
  window is smaller than the queue. The theorems cover the other sizes.
- **DagRunScheduling**: a join with each of the nine trigger rules and all
  outcomes; a DAG with two ways to a task and a task behind it; a retry with two
  schedulers and a rollback; two runs with `depends_on_past`,
  `wait_for_downstream` and dummies; pausing twice; a timeout; and
  `max_active_runs = 1`. Each case is one initial state. `KeepsPromise` covers
  other DAGs.
- **LocalTaskJob**: `MaxSigterm = 2` interrupts a handler with a handler;
  with `MaxTry = 1` in `job_safety` the attempt may end in UP_FOR_RETRY, and
  another worker takes over when it gave its try back (TLC also checked
  `MaxTry = 2`, with 9.6 million states); `job_live` has a second try;
  `MissLimit` is how many failed heartbeats reach the limit; one edit, since
  a second one meets the same states. The theorems have no such bounds.
- **CeleryScheduling**: one TI (keys of different TIs never meet in an executor;
  "batch" stands for the others in a buffer), two schedulers, two worker
  processes, two commands: enough for the commands of two attempts, or two of
  one, to overlap. A scenario with retries has three commands, so that the
  result of the first may come while the second is done and the third is on its
  way. `MaxTry` and `MaxBack` bound the try number; the theorems hold for any.
  `OneExecution` speaks of one of the five scenarios of `celery_safety`, that of
  retries and failed publications. `celery_live` has crashes with each of
  "batch" and "retry", and "retry", "publish_error" and "batch" together; TLC has
  also checked `QueuedResolved` with all four in one scenario.

### Fairness

Weak fairness is on the steps of loops that the code never leaves voluntarily:
the scheduler's loop, the job's loop, workers with a command, the DAG processor,
and on the forked process up to the task and after it, signals included.
It is never on users, crashes or faults. `LocalTaskJob` and `CeleryScheduling`
do not assume that a task ends. `CriticalSection` and `DagRunScheduling` do,
since a slot that is never freed, or a run with an endless task, waits for ever.
Strong fairness is used twice: for `AdoptOrReset`, whose timer becomes due again and again but only between other
steps of the loop; and for `CommitPaused`, an UPDATE that waits for a row lock
and gets it, as the schedulers skip rows that are locked. `cs_live` assumes that executors have
slots. `ScheduledIsQueued` needs every TI to fit its pool: one that never fits
keeps its place in the LIMIT window and can starve others.

## What is proved

All theorems hold for any number of schedulers, TIs, pools, DAGs, runs, signals
and tries, under the `ASSUME` of each module (finite sets, natural numbers,
well-formed acyclic DAGs).

**CriticalSection.** `TypeCorrect`, `NoInversion`, and with `RowLocks`
`PoolsHold`, `ConcurrencyHolds` and `QueuesOnlyScheduled`. The limits are not
inductive: a commit adds TIs chosen from numbers read three statements ago. The
invariant `CSInv` adds that whoever is inside holds the pool lock; that the
slots it read as open are still free beside what is booked, because only the
lock holder books any; that its rows are still SCHEDULED; and that what it chose
fits. Sums of slots are cardinalities of sets of slot units, so that the finite
set theorems apply. The loop of the critical section is a constraint on the
chosen set and an order, and `ChoiceFits` looks at the last TI it visited.

**TriggerRule** (in `DagRunLockProofs`)**.** `PassesIffMet`: for any set of upstream tasks in any
states, the counting lets a TI pass without giving it up exactly when the
documented rule is met. (With `none_failed_or_skipped` and all upstream tasks
skipped, one check does both, and the order of the writes decides.) `AssignedIsHopeless`: nobody is given up while there is hope.
`FinishedDecides`: once the upstream tasks are finished, a task may run or is
given up, so no rule leaves it waiting.

**DagRunScheduling.** `DagRunTypeCorrect`; `DagRunInvariant`; `KeepsPromise`, the
refinement of `DagRunPromise`; `KeepsTimedOut`; and `KeepsMaxActiveRuns`. The invariant says that
whoever has plans for a run holds its lock, and that every plan is still right,
although workers have written outcomes since: outcomes are final, and a rule that
is met or hopeless stays so. `DagRunInvariant` and `KeepsPromise` assume two
things about the behaviour, each of which excludes a real deviation (below): the
DAG is not paused, and `NothingCut`, that the mini scheduler's partial DAG does
not lose a task that matters.

`KeepsTimedOut` and `KeepsMaxActiveRuns` assume only that the DAG is not paused.
The first rests on `Locks` and `Runs`: a plan that changes the state of a run
exists only while the run is RUNNING, under its lock, so that nobody has one left
when the timeout ends it. The invariant of the second
(`Counted`) adds to the locks that what a scheduler has counted, before it starts
runs, is within the limit and still not less than what is running: everybody else
only ends runs. What it then starts are the oldest of the runs it has locked, as
many as fit (`OldestFit`).

**LocalTaskJob.** `JobInvariant`, `JobTypeCorrect`, `NoOrphan`,
`CallbackBound`. `JobInv` describes the stack: only its bottom is `_execute`;
`_execute` has ended only below a `terminate()`; and the callbacks that were run
plus those that frames on the stack will still run are within 1 + SIGTERMs. For
`NoOrphan` it says where the task is: a forked process that lives is the one in
`self.process`, or was given up (`InReach`), except between the fork and the
assignment; before the fork the runner is `Fresh`; and a return code for a
process that lives is the guess of a `terminate()` that gave it up. The theorem
has the same exception, `forgotten`, as the property.

**CeleryScheduling.** `CeleryTypeCorrect`, `KeepsSlots` and `KeepsOneExecution`,
for any number of schedulers, worker processes, commands and tries. The first two
hold in every scenario; the third is about the scenarios without "crash", "stall",
"redeliver", "publish_timeout", "requeue" and "reschedule", that is with retries,
failed publications and batches.

`TypeOK` and `SlotsNotLeaked` are inductive only together: `sync` gives up on
commands in `adopted_task_timeouts`, and what it writes to the event buffer has a
place only if `tasks` has the key. Each operation of an executor has a lemma that
says what it does to its five collections (`Reported`, `Sent` and so on), and
these follow from lemmas about dicts.

`OneExecution` needs to know where a queued TI is. The invariant `OneInv` says
that it is in one hand at most (`Token`): a command that an executor is to send,
a command in the broker, a worker process that has not claimed it yet, or the
event that its publication failed, in a buffer or just read. Every step passes
the TI from one hand to the next. It also says that nobody has a reason to adopt
it (`Settled`), that whoever will write a row it has read knows the current try
number (`Rows`), and that a result which has come, or will come, for a command
that was executed has the key of an earlier try, so it is not taken for the
result of this one (`Places`). TLC checked `OneInv` for three commands and three
worker processes before it was proved.

**Only model-checked:** the liveness properties (`ScheduledIsQueued`, `RunEnds`,
`UndeadTerminatedOrOwner`, `ZombieCleaned`, `QueuedResolved`), which are out of
the prover's reach; and the refinement, `MaxActiveRuns` and `TimedOutFails` when
a DAG is paused.

## Findings

- `job_restart`: a TI cleared while its process boots is killed before its
  SIGTERM handler exists, and stays RESTARTING. The property starts from a booting
  process and is also satisfied once the task begins, so that only this can
  violate it.
- `celery_requeue`: a TI sent back to NONE by a worker keeps its try number; the
  SUCCESS of the command that did nothing is taken for the next one's.
- `celery_adopt`: a TI without `external_executor_id` is reset although it
  is RUNNING, and the next attempt runs beside the first. `ExecutedOnce` asks for
  two different attempts, so that a command delivered twice is not enough.
- `celery_redeliver`: `PoolSlotsAvailableDep` uses the thread's session, commits
  it, and so releases the row lock that the worker's check relies on.

`OneExecution` leaves out the scenarios of these findings, and reschedules: an
attempt that was sent back or rescheduled leaves its key to the next one. With
three commands TLC then finds that the result of one is taken for the other's,
which is retried while it runs.

Deviations of `DagRunScheduling`, listed as hazards with the circumstances under
which TLC finds them, and excluded from the passing runs:

1. two schedulers that lock different queued runs of a DAG together exceed
   `max_active_runs`; `MaxActiveRuns` is stated for one scheduler. Even with one,
   the last job of a run that timed out makes it running again if the DAG is
   paused just then, and `MaxActiveRuns` leaves that out;
2. the mini scheduler's partial DAG forgets downstream tasks, so
   `wait_for_downstream` of a child is checked against fewer tasks;
3. it forgets some upstream tasks of a sibling, which may be given up too early;
4. the update of a paused DAG's run takes no lock, so for a join that is resumed
   in between it overwrites TIs a scheduler has scheduled (the runs pause a chain);
5. a user's clear between the read of `update_state` and its UPDATE is lost.

The fifth is read from the code only: edits of whole runs are not modelled.

Deviations that other properties name in their statement, because the passing
runs reach them:

6. a task can outlive its job: a SIGTERM to the job just after the fork comes to
   `reap_process_group` before the child has its group, where the comment "No such
   process, which means there is no such process group - our job is done"
   (`airflow/utils/process_utils.py:104`) does not hold. The task then runs, while
   the job reports it as failed and ends. `NoOrphanTask` allows this, and a
   process that survives SIGKILL, by `forgotten`, and nothing else;
7. of two events of one TI in a batch only the later one is looked at. If the
   result of the current attempt, or the failure to publish it, comes first and an
   event of another attempt second, the row stays QUEUED, although `task_publish_max_retries` promises "giving up and
   marking Task as failed" (`airflow/config_templates/config.yml:1630`).
   `QueuedResolved` is stated for behaviours without such a batch (`Overtaken`).

## Not modelled

`PROJECT.json` names every part with its status. In the modelled parts, left out
are: in runs, `verify_integrity` and REMOVED tasks, skipping by branch operators
(`NotPreviouslySkippedDep`), edits by users, the LIMIT on examined runs, catchup,
start and future dates; in attempts, sensors that reschedule (except in
`CeleryScheduling`), `run_as_user`, XCom, emails; in Celery, an orderly shutdown
and the kinds of result backend; in backfills, all but the effect on pools.

Not modelled at all: sensors and smart sensors (deadlines around user code), the
other executors (libraries and cluster APIs that the repository only calls),
timetables and serialization (pure conversions of dates and data), the web
server, REST API, command line, configuration, migrations, logging.

The map covers about 3,300 source lines, a small share of the package's 227,000
lines of Python. 138,000 of those are providers, clients of other systems
without scheduling state, and most of the rest is web, command line, migrations,
vendored code and operators. The scheduling core, `jobs`, `models`, `ti_deps`,
`executors` and `dag_processing`, has 20,000 lines, many of them documentation,
column definitions and accessors.
