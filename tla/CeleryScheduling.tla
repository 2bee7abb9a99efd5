-------------------------- MODULE CeleryScheduling --------------------------
(***************************************************************************)
(* The way of one task instance through several schedulers, their Celery   *)
(* executors, the Celery broker and the workers.                           *)
(*                                                                         *)
(* Every scheduler runs the loop of SchedulerJob._run_scheduler_loop; its  *)
(* executor (airflow/executors/base_executor.py, celery_executor.py) is a  *)
(* record in its memory and dies with it.  Celery delivers a command at    *)
(* least once and keeps its state in a result backend.  The attempt itself *)
(* is specified in LocalTaskJob; here it claims the row, ends and exits.   *)
(*                                                                         *)
(* The executors have no parallelism of their own (0, no limit), so that   *)
(* trigger_tasks sends whatever is queued: the limit is the subject of     *)
(* CriticalSection.  The task instance's run is RUNNING all the time, and  *)
(* no backfill, so that adopt_or_reset_orphaned_tasks does not pass it by. *)
(***************************************************************************)
EXTENDS Integers, FiniteSetsExt, TaskStates

CONSTANTS
  Schedulers,    \* SchedulerJobs
  Procs,         \* worker processes that may execute a command at once
  MaxMsg,        \* bound on the commands sent to Celery
  MaxTry, MaxBack,  \* bounds on _try_number, above and below zero
  max_tries,
  task_publish_max_retries,
  Scenarios,     \* what may happen, and how many commands are sent
  None

(* An exception of the task, a reschedule request of a sensor, a limit     *)
(* reached at the worker; a command delivered again, a publication that    *)
(* times out or fails; a scheduler that dies or is slow; and events of     *)
(* other task instances in the same buffer.                                *)
Events ==
  {"retry", "reschedule", "requeue", "redeliver", "publish_timeout", "publish_error",
   "crash", "stall", "batch"}

ASSUME CeleryAssumption ==
  /\ MaxMsg \in Nat /\ MaxTry \in Nat /\ MaxBack \in Nat
  /\ max_tries \in Nat /\ task_publish_max_retries \in Nat
  /\ \A c \in Scenarios : c.may \subseteq Events /\ c.commands \in 0..MaxMsg
  /\ None \notin Schedulers \cup Procs \cup 1..MaxMsg

VARIABLES
  scenario,      \* one of Scenarios, all the time
  ti,            \* the task_instance row
  pc,            \* where each scheduler is in its loop
  executor,      \* each scheduler's executor
  read,          \* what _process_executor_events has read: the row and an event
  job_state,     \* the state of each scheduler's job row
  late,          \* schedulers with an old latest_heartbeat
  celery,        \* the state of each command in the result backend
  copies,        \* the commands that the broker will deliver
  proc,          \* the worker processes
  callback,      \* a TaskCallbackRequest is queued
  handling,      \* the row as the DAG file processor that handles one has read it
  executions,    \* how often a worker process claimed the task instance
  succeeded      \* whether a worker process ended the task with success

scheduler == <<pc, executor, read>>
broker == <<celery, copies>>
callbacks == <<callback, handling>>
history == <<executions, succeeded>>
vars == <<scenario, ti, scheduler, job_state, late, broker, proc, callbacks, history>>

Messages == 1..MaxMsg

\* A reschedule takes back a try, a stale write may have taken it back before.
TryNumbers == (-MaxBack)..MaxTry
Keys == (-MaxBack)..(MaxTry + 1)

\* The key of the task instance is its try number: the other parts are fixed.
try_number(t) == IF t.state \in {"running", "sensing"} THEN t.try_number ELSE t.try_number + 1

set_state(t, st) == [t EXCEPT !.state = st]

handle_failure(t) == set_state(t, IF try_number(t) <= max_tries THEN "up_for_retry" ELSE "failed")

-----------------------------------------------------------------------------
(* The executor.  Every entry of a dict has its place in the order of      *)
(* insertion.                                                              *)

Absent == [at |-> 0, value |-> None]

Dict(V) == [Keys -> [at : Nat \ {0}, value : V] \cup {Absent}]

EmptyDict == [k \in Keys |-> Absent]

KeysOf(dict) == {k \in Keys : dict[k].at > 0}

End(dict) == Max({dict[k].at : k \in Keys})

\* dict[k] = values[k] for the keys k in K, one after the other.
PutAll(dict, K, values, order) ==
  [k \in Keys |->
     IF k \notin K THEN dict[k]
     ELSE [at |-> IF dict[k].at > 0 THEN dict[k].at ELSE End(dict) + order[k], value |-> values[k]]]

Put(dict, k, value) == PutAll(dict, {k}, [x \in {k} |-> value], [x \in {k} |-> 1])

Pop(dict, K) == [k \in Keys |-> IF k \in K THEN Absent ELSE dict[k]]

NewExecutor ==
  [queued_tasks |-> {}, sending |-> {}, running |-> {}, event_buffer |-> EmptyDict, tasks |-> EmptyDict,
   adopted |-> {}, publish |-> [k \in Keys |-> 1]]

queue_command(e, k) ==
  IF k \in e.queued_tasks \cup e.running THEN e ELSE [e EXCEPT !.queued_tasks = @ \cup {k}]

Event(st, info) == [state |-> st, info |-> info]

\* mutant: the slots are not given back
change_state_keep_running(e, K, state) ==
  [e EXCEPT !.event_buffer = PutAll(@, K, [k \in K |-> Event(state[k], None)],
                                          [k \in K |-> e.tasks[k].at]),
            !.tasks = Pop(@, K), !.adopted = @ \ K]

\* For the keys in K, in the order of e.tasks.
change_state(e, K, state) ==
  [e EXCEPT !.running = @ \ K,
            !.event_buffer = PutAll(@, K, [k \in K |-> Event(state[k], None)],
                                          [k \in K |-> e.tasks[k].at]),
            !.tasks = Pop(@, K), !.adopted = @ \ K]

\* For the keys in K, which are keys of e.tasks.
update_task_state(e, K) ==
  LET result == [k \in K |-> celery[e.tasks[k].value]]
      done == {k \in K : result[k] \in {"success", "failure"}}
      state == [k \in done |-> IF result[k] = "success" THEN "success" ELSE "failed"]
  IN  [change_state(e, done, state) EXCEPT !.adopted = @ \ {k \in K : result[k] = "started"}]

update_all_task_states(e) == update_task_state(e, KeysOf(e.tasks))

(* The command is published; the event with its id is written first and    *)
(* overwritten by a result, at the latest by the sync that follows.  A key *)
(* that is not in task_publish_retries counts as its first attempt.        *)
Published(e, k, m) ==
  [e EXCEPT !.queued_tasks = @ \ {k}, !.sending = @ \ {k}, !.publish[k] = 1,
            !.running = @ \cup {k}, !.tasks = Put(@, k, m),
            !.event_buffer = Put(@, k, Event("queued", m))]

\* mutant: the command stays among those to be sent
PublishFailed_keep_sending(e, k) ==
  [e EXCEPT !.queued_tasks = @ \ {k}, !.publish[k] = 1,
            !.event_buffer = Put(@, k, Event("failed", None))]

\* The command is not published; the task instance is to be failed.
PublishFailed(e, k) ==
  [e EXCEPT !.queued_tasks = @ \ {k}, !.sending = @ \ {k}, !.publish[k] = 1,
            !.event_buffer = Put(@, k, Event("failed", None))]

\* The operation timed out: try again with the next heartbeat, a few times.
PublishTimedOut(e, k) ==
  IF e.publish[k] <= task_publish_max_retries
  THEN [e EXCEPT !.publish[k] = @ + 1, !.sending = @ \ {k}]
  ELSE PublishFailed(e, k)

\* try_adopt_task_instances for a row with an external_executor_id.
Adopted(e, t) ==
  LET k == try_number(t)
      e1 == [e EXCEPT !.adopted = @ \cup {k}, !.running = @ \cup {k},
                      !.tasks = Put(@, k, t.external_id)]
  IN  update_task_state(e1, {k})

-----------------------------------------------------------------------------
(* The scheduler loop.                                                     *)

Alive(s) == pc[s] # "dead"

Step(s, from, to) == pc[s] = from /\ pc' = [pc EXCEPT ![s] = to]

\* _do_scheduling up to the critical section: the task instance may become SCHEDULED.
Schedule(s) ==
  /\ Step(s, "schedule", "queue")
  /\ \/ /\ ti.state \in SCHEDULEABLE_STATES
        /\ ti.try_number < MaxTry
        /\ ti' = set_state(ti, "scheduled")
     \/ UNCHANGED ti
  /\ UNCHANGED <<scenario, executor, read, job_state, late, broker, proc, callbacks, history>>

Unused == {m \in 1..scenario.commands : celery[m] = "none"}

\* The commands that the schedulers still have to publish.
Backlog == UNION {{<<s, k>> : k \in executor[s].queued_tasks} : s \in Schedulers}

(* The critical section: QUEUED, by this scheduler, and to its executor.   *)
(* The external_executor_id of an earlier attempt stays in the row.        *)
Queue(s) ==
  /\ Step(s, "queue", "trigger")
  /\ \/ /\ ti.state = "scheduled"
        /\ Cardinality(Backlog) < Cardinality(Unused)
        /\ ti' = [ti EXCEPT !.state = "queued", !.queued_by = s]
        /\ LET e == queue_command(executor[s], try_number(ti))
           IN  executor' = [executor EXCEPT ![s] = [e EXCEPT !.sending = e.queued_tasks]]
     \/ /\ executor' = [executor EXCEPT ![s].sending = executor[s].queued_tasks]
        /\ UNCHANGED ti
  /\ UNCHANGED <<scenario, read, job_state, late, broker, proc, callbacks, history>>

Publish(m) ==
  /\ \A n \in Unused : m <= n
  /\ celery' = [celery EXCEPT ![m] = "pending"]
  /\ copies' = copies \cup {m}

\* trigger_tasks for one of the queued commands.
TriggerTask(s) ==
  /\ pc[s] = "trigger"
  /\ \E k \in executor[s].sending :
       \/ \E m \in Unused :
            /\ Publish(m)
            /\ executor' = [executor EXCEPT ![s] = Published(@, k, m)]
       \/ /\ "publish_timeout" \in scenario.may
          /\ \/ Cardinality(Backlog) < Cardinality(Unused) /\ \E m \in Unused : Publish(m)
             \/ UNCHANGED broker
          /\ executor' = [executor EXCEPT ![s] = PublishTimedOut(@, k)]
       \/ /\ "publish_error" \in scenario.may
          /\ UNCHANGED broker
          /\ executor' = [executor EXCEPT ![s] = PublishFailed(@, k)]
  /\ UNCHANGED <<scenario, ti, pc, read, job_state, late, proc, callbacks, history>>

\* ... and when there is none left.
TriggerDone(s) ==
  /\ Step(s, "trigger", "sync")
  /\ executor[s].sending = {}
  /\ UNCHANGED <<scenario, ti, executor, read, job_state, late, broker, proc, callbacks, history>>

(* sync: the results of all commands, if there are any, then the adopted   *)
(* commands that have not been started in time.                            *)
Sync(s) ==
  /\ Step(s, "sync", "events")
  /\ LET e == update_all_task_states(executor[s])
     IN  \E K \in SUBSET e.adopted :
           executor' = [executor EXCEPT ![s] = change_state(e, K, [k \in K |-> "failed"])]
  /\ UNCHANGED <<scenario, ti, read, job_state, late, broker, proc, callbacks, history>>

(* _process_executor_events: take the events and read the row.  Of several *)
(* events of one task instance only the last is looked at.                 *)
ReadEvents(s) ==
  /\ LET buf == executor[s].event_buffer
     IN  \/ /\ KeysOf(buf) = {}
            /\ Step(s, "events", "timers")
            /\ UNCHANGED <<executor, read>>
         \/ /\ \E k \in KeysOf(buf) :
                 /\ \A x \in Keys : buf[x].at <= buf[k].at
                 /\ read' = [read EXCEPT ![s] = [row |-> ti, key |-> k, event |-> buf[k].value]]
            /\ Step(s, "events", "apply")
            /\ executor' = [executor EXCEPT ![s].event_buffer = EmptyDict]
  /\ UNCHANGED <<scenario, ti, job_state, late, broker, proc, callbacks, history>>

\* The event is for the attempt that the row is queued for.
KilledExternally(row, key) == try_number(row) = key /\ row.state = "queued"

(* ... and act on what was read: record the id, or the state that the      *)
(* executor reports, and ask for a callback.  Only what changed is written *)
(* over the row, unless the set_state of another task instance in the same *)
(* batch has closed the session: then the id is not recorded at all, and   *)
(* the state is written with the rest of the row as it was read.           *)
ApplyEvents(s) ==
  /\ Step(s, "apply", "timers")
  /\ LET row == read[s].row
         key == read[s].key
         event == read[s].event
     IN  \/ /\ event.state = "queued"
            /\ \/ ti' = [ti EXCEPT !.external_id = event.info]
               \/ "batch" \in scenario.may /\ UNCHANGED ti
            /\ UNCHANGED callback
         \/ /\ event.state # "queued"
            /\ KilledExternally(row, key)
            /\ \/ ti' = set_state(ti, event.state)
               \/ "batch" \in scenario.may /\ ti' = set_state(row, event.state)
            /\ callback' = TRUE
         \/ /\ event.state # "queued"
            /\ ~KilledExternally(row, key)
            /\ UNCHANGED <<ti, callback>>
  /\ read' = [read EXCEPT ![s] = None]
  /\ UNCHANGED <<scenario, executor, job_state, late, broker, proc, handling, history>>

\* heartbeat() merges the job over its row, which says RUNNING again.
Heartbeat(s) == late' = late \ {s}

\* The loop ends without a timer being due.
EndLoop(s) ==
  /\ Step(s, "timers", "schedule")
  /\ Heartbeat(s)
  /\ job_state' = [job_state EXCEPT ![s] = "running"]
  /\ UNCHANGED <<scenario, ti, executor, read, broker, proc, callbacks, history>>

\* mutant: looks for SCHEDULED task instances, as the docstring may be read
Orphaned_scheduled(jobs) ==
  /\ ti.state = "scheduled"
  /\ IF ti.queued_by = None THEN TRUE ELSE jobs[ti.queued_by] # "running"

\* mutant: the job that queued the task instance is not looked at
Orphaned_any(jobs) == ti.state \in {"queued", "running"}

Orphaned(jobs) ==
  /\ ti.state \in {"queued", "running"}
  /\ IF ti.queued_by = None THEN TRUE ELSE jobs[ti.queued_by] # "running"

(* adopt_or_reset_orphaned_tasks: fail the schedulers that are late, and   *)
(* adopt or reset what they had queued.                                    *)
AdoptOrReset(s) ==
  /\ Step(s, "timers", "schedule")
  /\ Heartbeat(s)
  /\ LET jobs == [t \in Schedulers |->
                    IF t = s THEN "running" ELSE IF t \in late THEN "failed" ELSE job_state[t]]
     IN  /\ job_state' = jobs
         /\ \/ ~Orphaned(jobs) /\ UNCHANGED <<ti, executor>>
            \/ /\ Orphaned(jobs) /\ ti.external_id = None
               /\ ti' = [ti EXCEPT !.state = "none", !.queued_by = None]
               /\ UNCHANGED executor
            \/ /\ Orphaned(jobs) /\ ti.external_id # None
               /\ ti' = [ti EXCEPT !.queued_by = s]
               /\ executor' = [executor EXCEPT ![s] = Adopted(@, ti)]
  /\ UNCHANGED <<scenario, read, broker, proc, callbacks, history>>

\* A scheduler dies, and its executor with it; another one lives.
Crash(s) ==
  /\ "crash" \in scenario.may
  /\ Alive(s)
  /\ \E t \in Schedulers \ {s} : Alive(t)
  /\ pc' = [pc EXCEPT ![s] = "dead"]
  /\ executor' = [executor EXCEPT ![s] = NewExecutor]
  /\ read' = [read EXCEPT ![s] = None]
  /\ late' = late \cup {s}
  /\ UNCHANGED <<scenario, ti, job_state, broker, proc, callbacks, history>>

\* A scheduler makes no progress for longer than scheduler_health_check_threshold.
Stall(s) ==
  /\ "stall" \in scenario.may
  /\ Alive(s)
  /\ late' = late \cup {s}
  /\ UNCHANGED <<scenario, ti, scheduler, job_state, broker, proc, callbacks, history>>

Loop(s) ==
  \/ Schedule(s) \/ Queue(s) \/ TriggerTask(s) \/ TriggerDone(s) \/ Sync(s)
  \/ ReadEvents(s) \/ ApplyEvents(s) \/ EndLoop(s)

-----------------------------------------------------------------------------
(* Celery and the workers.                                                 *)

\* A worker process takes a command.
Deliver(p) ==
  /\ proc[p].pc = "idle"
  /\ \E m \in copies :
       /\ copies' = copies \ {m}
       /\ celery' = [celery EXCEPT ![m] = "started"]
       /\ proc' = [proc EXCEPT ![p] = [pc |-> "check", id |-> m, row |-> None]]
  /\ UNCHANGED <<scenario, ti, scheduler, job_state, late, callbacks, history>>

\* With task_acks_late a command is delivered again if it takes too long.
Redeliver(p) ==
  /\ "redeliver" \in scenario.may
  /\ proc[p].pc # "idle"
  /\ copies' = copies \cup {proc[p].id}
  /\ UNCHANGED <<scenario, ti, scheduler, job_state, late, celery, proc, callbacks, history>>

ProcTo(p, to, row) == proc' = [proc EXCEPT ![p].pc = to, ![p].row = row]

(* check_and_change_state_before_execution: read the row and decide to     *)
(* claim the task instance, to send it back, or to leave it alone.  The    *)
(* lock on the row is gone before the decision is written, because         *)
(* Pool.open_slots commits and closes the session that both use.           *)
WorkerCheck(p) ==
  /\ proc[p].pc = "check"
  /\ \/ /\ ti.state \in RUNNABLE_STATES /\ ti.try_number < MaxTry
        /\ ProcTo(p, "claim", ti)
     \/ /\ ti.state \in RUNNABLE_STATES /\ "requeue" \in scenario.may
        /\ ProcTo(p, "send_back", ti)
     \/ /\ ti.state \notin RUNNABLE_STATES
        /\ ProcTo(p, "exit_success", None)
  /\ UNCHANGED <<scenario, ti, scheduler, job_state, late, broker, callbacks, history>>

\* ... and write the whole row as it was read, RUNNING for the next attempt,
WorkerClaim(p) ==
  /\ proc[p].pc = "claim"
  /\ ti' = [proc[p].row EXCEPT !.state = "running", !.try_number = @ + 1, !.owner = p]
  /\ executions' = executions + 1
  /\ ProcTo(p, "run", ti')
  /\ UNCHANGED <<scenario, scheduler, job_state, late, broker, callbacks, succeeded>>

\* ... or NONE.
WorkerSendBack(p) ==
  /\ proc[p].pc = "send_back"
  /\ ti' = [proc[p].row EXCEPT !.state = "none", !.owner = p]
  /\ ProcTo(p, "exit_success", None)
  /\ UNCHANGED <<scenario, scheduler, job_state, late, broker, callbacks, history>>

\* What an AirflowException does to the row: a mark of success or failed is left alone.
TaskFails == IF ti.state \in {"success", "failed"} THEN ti ELSE handle_failure(ti)

(* The task ends by itself; whatever its outcome, the command succeeds.    *)
(* Another exception than an AirflowException fails the row as it was when *)
(* the task began.                                                         *)
TaskEnds(p) ==
  /\ proc[p].pc = "run"
  /\ \/ /\ ti' = set_state(ti, "success")
        /\ succeeded' = TRUE
     \/ /\ "retry" \in scenario.may
        /\ ti' \in {TaskFails, handle_failure(proc[p].row)}
        /\ UNCHANGED succeeded
     \/ /\ "reschedule" \in scenario.may /\ ti.try_number > -MaxBack
        /\ ti' = [ti EXCEPT !.state = "up_for_reschedule", !.try_number = @ - 1]
        /\ UNCHANGED succeeded
  /\ ProcTo(p, "exit_success", None)
  /\ UNCHANGED <<scenario, scheduler, job_state, late, broker, callbacks, executions>>

\* The job terminates a task whose row is not its own, or not RUNNING, any more.
Undead(p) ==
  /\ proc[p].pc = "run"
  /\ ti.state # "running" \/ ti.owner # p
  /\ ti' \in {ti, TaskFails}
  /\ ProcTo(p, IF ti.state = "running" THEN "exit_failure" ELSE "exit_success", None)
  /\ UNCHANGED <<scenario, scheduler, job_state, late, broker, callbacks, history>>

\* The worker process exits and Celery stores the result of the command.
WorkerExit(p) ==
  /\ proc[p].pc \in {"exit_success", "exit_failure"}
  /\ celery' = [celery EXCEPT ![proc[p].id] =
                  IF proc[p].pc = "exit_success" THEN "success" ELSE "failure"]
  /\ proc' = [proc EXCEPT ![p] = [pc |-> "idle", id |-> None, row |-> None]]
  /\ UNCHANGED <<scenario, ti, scheduler, job_state, late, copies, callbacks, history>>

\* _execute_task_callbacks in a DAG file processor: refresh_from_db,
ReadCallback ==
  /\ callback /\ handling = None
  /\ callback' = FALSE
  /\ handling' = ti
  /\ UNCHANGED <<scenario, ti, scheduler, job_state, late, broker, proc, history>>

\* ... and handle_failure of what was read.
HandleCallback ==
  /\ handling # None
  /\ handling' = None
  /\ ti' = handle_failure(handling)
  /\ UNCHANGED <<scenario, scheduler, job_state, late, broker, proc, callback, history>>

-----------------------------------------------------------------------------
Init ==
  /\ scenario \in Scenarios
  /\ ti = [state |-> "none", try_number |-> 0, queued_by |-> None, external_id |-> None,
           owner |-> None]
  /\ pc = [s \in Schedulers |-> "schedule"]
  /\ executor = [s \in Schedulers |-> NewExecutor]
  /\ read = [s \in Schedulers |-> None]
  /\ job_state = [s \in Schedulers |-> "running"] /\ late = {}
  /\ celery = [m \in Messages |-> "none"] /\ copies = {}
  /\ proc = [p \in Procs |-> [pc |-> "idle", id |-> None, row |-> None]]
  /\ callback = FALSE /\ handling = None /\ executions = 0 /\ succeeded = FALSE

Next ==
  \/ \E s \in Schedulers : Loop(s) \/ AdoptOrReset(s) \/ Crash(s) \/ Stall(s)
  \/ \E p \in Procs :
       \/ Deliver(p) \/ Redeliver(p) \/ WorkerCheck(p) \/ WorkerClaim(p) \/ WorkerSendBack(p)
       \/ TaskEnds(p) \/ Undead(p) \/ WorkerExit(p)
  \/ ReadCallback \/ HandleCallback

Spec == Init /\ [][Next]_vars

(* A scheduler that lives goes on with its loop, and the timer for         *)
(* orphaned tasks is due again and again.  Workers take commands, and jobs *)
(* look at their rows.  A task need not end.                               *)
FairSpec ==
  /\ Spec
  /\ \A s \in Schedulers : WF_vars(Loop(s)) /\ SF_vars(AdoptOrReset(s))
  /\ \A p \in Procs :
       WF_vars(\/ Deliver(p) \/ WorkerCheck(p) \/ WorkerClaim(p) \/ WorkerSendBack(p)
               \/ Undead(p) \/ WorkerExit(p))
  /\ WF_vars(ReadCallback \/ HandleCallback)

-----------------------------------------------------------------------------
Row ==
  [state : TaskInstanceState, try_number : TryNumbers, queued_by : Schedulers \cup {None},
   external_id : Messages \cup {None}, owner : Procs \cup {None}]

ExecutorEvent ==
  [state : {"queued"}, info : Messages] \cup [state : {"success", "failed"}, info : {None}]

Executor ==
  [queued_tasks : SUBSET Keys, sending : SUBSET Keys, running : SUBSET Keys,
   event_buffer : Dict(ExecutorEvent), tasks : Dict(Messages), adopted : SUBSET Keys,
   publish : [Keys -> Nat]]

(* Every variable has its type, a scheduler holds a row that it read only  *)
(* between the two halves of _process_executor_events, and a command that  *)
(* is being sent is still among queued_tasks.                              *)
TypeOK ==
  /\ scenario \in Scenarios /\ ti \in Row
  /\ pc \in [Schedulers -> {"schedule", "queue", "trigger", "sync", "events", "apply", "timers", "dead"}]
  /\ executor \in [Schedulers -> Executor]
  /\ \A s \in Schedulers : executor[s].sending \subseteq executor[s].queued_tasks
  /\ DOMAIN read = Schedulers
  /\ \A s \in Schedulers :
       read[s] \in IF pc[s] = "apply" THEN [row : Row, key : Keys, event : ExecutorEvent] ELSE {None}
  /\ job_state \in [Schedulers -> {"running", "failed"}] /\ late \subseteq Schedulers
  /\ celery \in [Messages -> {"none", "pending", "started", "success", "failure"}]
  /\ copies \subseteq {m \in Messages : celery[m] # "none"}
  /\ proc \in [Procs -> [pc : {"idle", "check", "claim", "send_back", "run", "exit_success", "exit_failure"},
                         id : Messages \cup {None}, row : Row \cup {None}]]
  /\ \A p \in Procs :
       /\ proc[p].pc # "idle" => proc[p].id \in Messages /\ celery[proc[p].id] # "none"
       /\ proc[p].pc \in {"claim", "send_back", "run"} => proc[p].row \in Row
       /\ proc[p].pc = "claim" => proc[p].row.try_number < MaxTry
  /\ callback \in BOOLEAN /\ handling \in Row \cup {None}
  /\ executions \in Nat /\ succeeded \in BOOLEAN

(* The slots an executor counts as taken are those of the commands it      *)
(* waits for, and it gives up waiting only for such a command: no event,   *)
(* adoption or failed publication leaks one.                               *)
SlotsNotLeaked ==
  \A s \in Schedulers :
    executor[s].running = KeysOf(executor[s].tasks) /\ executor[s].adopted \subseteq executor[s].running

(* No two worker processes execute the task instance at the same time, as  *)
(* long as Celery has one command per attempt: an attempt is published     *)
(* while the process of the previous one may not have exited, and          *)
(* check_and_change_state_before_execution decides who executes it.  An    *)
(* attempt that is sent back or rescheduled leaves its try number to the   *)
(* next, and the result of one is taken for the result of the other.       *)
OneExecution ==
  scenario.may \cap {"crash", "stall", "redeliver", "publish_timeout", "requeue", "reschedule"} = {} =>
    Cardinality({p \in Procs : proc[p].pc = "run"}) <= 1

(* No worker claims a task instance that runs: TaskNotRunningDep of        *)
(* check_and_change_state_before_execution refuses it, for instance when   *)
(* Celery delivers a command twice.                                        *)
NotClaimedTwice == [][\A p \in Procs : WorkerClaim(p) => ti.state # "running"]_vars

(* A result for the attempt that the task instance is queued for is        *)
(* followed by an event of another attempt, the only one of the two that   *)
(* _process_executor_events will look at.                                  *)
Overtaken ==
  \E s \in Schedulers :
    LET buf == executor[s].event_buffer
        k == try_number(ti)
    IN  /\ buf[k].at > 0
        /\ buf[k].value.state # "queued"
        /\ \E x \in Keys : buf[x].at > buf[k].at

(* A task instance does not stay QUEUED, even if the scheduler that queued *)
(* it dies or its command could not be published: an event of the executor *)
(* or adopt_or_reset_orphaned_tasks moves it on.  This is so unless the    *)
(* result of the attempt, or the failure to publish it, is followed in the *)
(* buffer by an event of another attempt: then it is lost, and the row may *)
(* stay QUEUED.                                                            *)
QueuedResolved == []~Overtaken => (ti.state = "queued" ~> ti.state # "queued")

(* A task instance is SUCCESS only if its task was executed with success:  *)
(* the state that an executor reports for a command is never taken for the *)
(* outcome of an attempt that did not run.                                 *)
SuccessMeansRan == ti.state = "success" => succeeded

(* A task that does not fail is executed once, although its scheduler may  *)
(* die before the id of the command is recorded: try_adopt_task_instances  *)
(* relies on it when it leaves such a task instance to be reset.  So no    *)
(* worker process executes an attempt while another one still executes the *)
(* attempt before it.                                                      *)
ExecutedOnce ==
  ~\E p, q \in Procs :
     /\ proc[p].pc = "run" /\ proc[q].pc = "run"
     /\ proc[p].row.try_number < proc[q].row.try_number

=============================================================================
