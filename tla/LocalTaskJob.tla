---------------------------- MODULE LocalTaskJob ----------------------------
(***************************************************************************)
(* One attempt of one task instance on a worker.                           *)
(*                                                                         *)
(* The LocalTaskJob process (airflow/jobs/local_task_job.py) claims the    *)
(* task instance, forks the process that runs the task                     *)
(* (StandardTaskRunner, TaskInstance._run_raw_task), watches it and the    *)
(* task instance's row, and runs the finished callback.  Concurrently a    *)
(* user marks or clears the task instance, another worker takes it over,   *)
(* the job receives SIGTERM, the zombie finder of the DAG processor        *)
(* manager gives up on it, and processes die.                              *)
(*                                                                         *)
(* The job is single-threaded; a SIGTERM runs its handler on top of        *)
(* whatever it interrupts, so the control state is a stack of what is      *)
(* still to be done, the innermost first.                                  *)
(***************************************************************************)
EXTENDS Integers, Sequences, FiniteSets, TaskStates

CONSTANTS
  retries,       \* task.retries
  MaxTry,        \* bound on the try number
  MaxSigterm,    \* bound on the SIGTERMs the job receives
  MaxEdits,      \* bound on the marks and clears by users
  MissLimit,     \* failed heartbeats in a row that reach the time limit
  Faults         \* what may go wrong

(* Heartbeats that are late or fail, the death of the job and of the task, *)
(* and a task that does not end in KILLED_TASK_CLEANUP_TIME after SIGTERM. *)
FaultNames == {"late", "kill_job", "kill_task", "deaf"}

ASSUME JobAssumption ==
  /\ retries \in Nat /\ MaxTry \in Nat
  /\ MaxSigterm \in Nat /\ MaxEdits \in Nat /\ MissLimit \in Nat \ {0}
  /\ Faults \subseteq FaultNames

VARIABLES
  row,           \* the task_instance row
  \* the job: what is left to do, self.terminating, its TaskInstance object,
  \* and whether its own row was set to RESTARTING
  stack, terminating, job_ti, restarting,
  \* the runner: self.process, whether self._rc is known, and the SIGTERM it sent
  process, rc, sig,
  forgotten,     \* terminate() gave up a process that had not ended (history)
  \* the forked process and its TaskInstance object
  child, child_ti,
  rival,         \* another worker has an attempt in progress
  missed,        \* the age of the job's latest_heartbeat, in heartbeats
  \* a TaskCallbackRequest of the zombie finder: none, <<"queued">>, or
  \* <<"read", ti>> while it is handled
  zombie,
  callbacks,     \* finished callbacks that the job ran
  sigterms, edits

\* A task_instance row, or the TaskInstance object that refresh_from_db copies
\* it to and session.merge writes back whole: state, _try_number, max_tries,
\* and whose job_id, hostname and pid it has.
TI == [state : TaskInstanceState, try_number : Int, max_tries : Int,
       owner : {"none", "self", "other"}]

\* latest_heartbeat is older than scheduler_zombie_task_threshold.
late == missed = MissLimit

job == <<stack, terminating, job_ti>>
runner == <<process, rc, sig, forgotten>>
task == <<child, child_ti>>
env == <<missed, zombie, sigterms, edits, rival, restarting>>
vars == <<row, job, runner, task, env, callbacks>>

-----------------------------------------------------------------------------
set_state(ti, st) == [ti EXCEPT !.state = st]

\* The property try_number: the attempt that runs, or else the next one.
try_number(ti) == IF ti.state \in {"running", "sensing"} THEN ti.try_number ELSE ti.try_number + 1

is_eligible_to_retry(ti) ==
  ti.state = "restarting" \/ (retries > 0 /\ try_number(ti) <= ti.max_tries)

\* handle_failure, up to the merge of the TaskInstance object it is called on.
handle_failure(ti) == set_state(ti, IF is_eligible_to_retry(ti) THEN "up_for_retry" ELSE "failed")

\* The states _run_finished_callback has a callback for.
CallbackStates == {"failed", "success", "up_for_retry"}

Top == Head(stack)

Goto(pcs) == stack' = pcs \o Tail(stack)

Return == stack' = Tail(stack)

\* Where _execute is; the rest of the stack is what it or a handler called.
Bottom == stack[Len(stack)]

(* An exception in a call of terminate() passes through whatever handlers  *)
(* it interrupted and leaves _execute by its finally.                      *)
Raise == stack' = <<IF Bottom = "done" THEN "done" ELSE "kill">>

Ended == Top \in {"done", "dead"}

\* There is a forked process.
Alive == child \notin {"none", "dead"}

-----------------------------------------------------------------------------
(* The job.                                                                *)

(* check_and_change_state_before_execution: read the row and decide to     *)
(* claim the task instance, to send it back because of a limit, or to give *)
(* up because of another dependency.  The lock on the row does not last    *)
(* until the decision is written: PoolSlotsAvailableDep commits.           *)
JobCheck ==
  /\ Top = "check"
  /\ job_ti' = row
  /\ \/ /\ row.state \in RUNNABLE_STATES /\ row.try_number < MaxTry
        /\ Goto(<<"claim">>)
     \/ /\ row.state \in RUNNABLE_STATES
        /\ Goto(<<"send_back">>)
     \/ Goto(<<"done">>)
  /\ UNCHANGED <<row, terminating, runner, task, env, callbacks>>

\* session.merge(self) with the decision, whatever the row is by now.
JobClaim ==
  /\ Top = "claim"
  /\ job_ti' = [job_ti EXCEPT !.state = "running", !.try_number = @ + 1, !.owner = "self"]
  /\ row' = job_ti'
  /\ Goto(<<"start">>)
  /\ UNCHANGED <<terminating, runner, task, env, callbacks>>

JobSendBack ==
  /\ Top = "send_back"
  /\ job_ti' = [job_ti EXCEPT !.state = "none", !.owner = "self"]
  /\ row' = job_ti'
  /\ Goto(<<"done">>)
  /\ UNCHANGED <<terminating, runner, task, env, callbacks>>

\* task_runner.start(): fork,
JobFork ==
  /\ Top = "start"
  /\ child' = "forked"
  /\ Goto(<<"started">>)
  /\ UNCHANGED <<row, terminating, job_ti, runner, child_ti, env, callbacks>>

\* ... and assign self.process, which terminate() looks at.
JobStarted ==
  /\ Top = "started"
  /\ process' = "set"
  /\ Goto(<<"loop">>)
  /\ UNCHANGED <<row, terminating, job_ti, rc, sig, forgotten, task, env, callbacks>>

\* while not self.terminating
JobLoop ==
  /\ Top = "loop"
  /\ Goto(IF terminating THEN <<"kill">> ELSE <<"rc">>)
  /\ UNCHANGED <<row, terminating, job_ti, runner, task, env, callbacks>>

\* The start of return_code(): the process is waited for once only.
JobReturnCode ==
  /\ Top = "rc"
  /\ Goto(IF rc THEN <<"exit", "kill">>
          ELSE IF process = "set" THEN <<"wait">> ELSE <<"heartbeat">>)
  /\ UNCHANGED <<row, terminating, job_ti, runner, task, env, callbacks>>

(* process.wait(timeout): the task ends, or the wait times out.  If a      *)
(* signal handler reaped the process meanwhile, psutil answers None; if it *)
(* gave the process up, return_code() has its guess or the real code.      *)
JobWait ==
  /\ Top = "wait"
  /\ \/ /\ process # "set" /\ ~forgotten
        /\ rc' = FALSE
        /\ Goto(<<"heartbeat">>)
        /\ UNCHANGED process
     \/ /\ process # "set" /\ forgotten
        /\ Goto(<<"exit", "kill">>)
        /\ UNCHANGED <<process, rc>>
     \/ /\ process = "set" /\ child = "dead"
        /\ rc' = TRUE
        /\ process' = "none"
        /\ Goto(<<"exit", "kill">>)
     \/ /\ process = "set" /\ child # "dead"
        /\ Goto(<<"heartbeat">>)
        /\ UNCHANGED <<process, rc>>
  /\ UNCHANGED <<row, terminating, job_ti, sig, forgotten, task, env, callbacks>>

\* mutant: heartbeat_callback looks at the state and not at hostname and pid
JobHeartbeat_any_owner ==
  /\ Top = "heartbeat"
  /\ missed' = 0 /\ restarting' = FALSE
  /\ IF terminating
     THEN Goto(<<"term", "loop">>) /\ UNCHANGED job_ti
     ELSE /\ job_ti' = row
          /\ Goto(IF row.state = "running" THEN <<"loop">> ELSE <<"decide">>)
  /\ UNCHANGED <<row, terminating, runner, task, zombie, sigterms, edits, rival, callbacks>>

(* heartbeat() and the first part of heartbeat_callback: terminate what    *)
(* was started late, or compare the row with this job.  The merge of the   *)
(* job sets its own row back to RUNNING and does not load it, so that the  *)
(* job never sees a request to restart.                                    *)
JobHeartbeat ==
  /\ Top = "heartbeat"
  /\ missed' = 0 /\ restarting' = FALSE
  /\ IF terminating
     THEN Goto(<<"term", "loop">>) /\ UNCHANGED job_ti
     ELSE /\ job_ti' = row
          /\ Goto(IF row.state # "running" THEN <<"decide">>
                  ELSE IF row.owner = "self" THEN <<"loop">> ELSE <<"kill">>)
  /\ UNCHANGED <<row, terminating, runner, task, zombie, sigterms, edits, rival, callbacks>>

\* mutant: the time limit is never reached
JobHeartbeatFails_no_limit ==
  /\ "late" \in Faults
  /\ Top = "heartbeat"
  /\ missed' = missed + 1
  /\ Goto(<<"loop">>)
  /\ UNCHANGED <<row, terminating, job_ti, runner, task, zombie, sigterms, edits, rival, restarting,
                 callbacks>>

\* heartbeat() cannot reach the database; the job gives up at the time limit.
JobHeartbeatFails ==
  /\ "late" \in Faults
  /\ Top = "heartbeat"
  /\ missed' = IF late THEN missed ELSE missed + 1
  /\ Goto(IF late' THEN <<"kill">> ELSE <<"loop">>)
  /\ UNCHANGED <<row, terminating, job_ti, runner, task, zombie, sigterms, edits, rival, restarting,
                 callbacks>>

\* The row is no longer RUNNING: return_code() tells whether the task ended by itself.
JobDecide ==
  /\ Top = "decide"
  /\ IF rc \/ (process = "set" /\ child = "dead")
     THEN rc' = TRUE /\ process' = "none" /\ Goto(<<"loop">>)
     ELSE Goto(<<"term", "hb_callback">>) /\ UNCHANGED <<rc, process>>
  /\ UNCHANGED <<row, terminating, job_ti, sig, forgotten, task, env, callbacks>>

\* _run_finished_callback
RunFinishedCallback ==
  callbacks' = IF job_ti.state \in CallbackStates THEN callbacks + 1 ELSE callbacks

\* mutant: the callback of an external change does not end the loop
JobHbCallback_keep_looping ==
  /\ Top = "hb_callback"
  /\ RunFinishedCallback
  /\ Goto(<<"loop">>)
  /\ UNCHANGED <<row, terminating, job_ti, runner, task, env>>

\* The last part of heartbeat_callback.
JobHbCallback ==
  /\ Top = "hb_callback"
  /\ RunFinishedCallback
  /\ terminating' = TRUE
  /\ Goto(<<"loop">>)
  /\ UNCHANGED <<row, job_ti, runner, task, env>>

\* The end of terminate(): self._rc is known, or guessed.
Reaped == rc' = TRUE /\ process' = "none" /\ Return

(* task_runner.terminate(): reap the task if it has ended, otherwise send  *)
(* SIGTERM to its process group.  A process that has not called setpgid    *)
(* yet has no group: reap_process_group finds no such process and takes    *)
(* its job for done.                                                       *)
JobTerm ==
  /\ Top = "term"
  /\ \/ /\ process # "set"
        /\ Return
        /\ UNCHANGED runner
     \/ /\ process = "set" /\ child = "dead"
        /\ Reaped
        /\ UNCHANGED <<sig, forgotten>>
     \/ /\ process = "set" /\ child = "forked"
        /\ Reaped
        /\ forgotten' = TRUE
        /\ UNCHANGED sig
     \/ /\ process = "set" /\ child \notin {"dead", "forked"}
        /\ sig' = "sent"
        /\ Goto(<<"reap">>)
        /\ UNCHANGED <<process, rc, forgotten>>
  /\ UNCHANGED <<row, terminating, job_ti, task, env, callbacks>>

(* The rest of reap_process_group: wait for the task; send SIGKILL if it   *)
(* does not end in time; give up if even that does not end it.  If another *)
(* SIGTERM has run terminate() to its end meanwhile, self.process is None, *)
(* and so is what its pid is asked of.                                     *)
JobReap ==
  /\ Top = "reap"
  /\ \/ /\ process # "set"
        /\ Raise
        /\ UNCHANGED <<runner, child>>
     \/ /\ process = "set" /\ child = "dead"
        /\ Reaped
        /\ UNCHANGED <<sig, forgotten, child>>
     \/ /\ process = "set" /\ Alive /\ child # "killed" /\ "deaf" \in Faults
        /\ child' = "killed"
        /\ UNCHANGED <<stack, runner>>
     \/ /\ process = "set" /\ child = "killed"
        /\ Reaped
        /\ forgotten' = TRUE
        /\ UNCHANGED <<sig, child>>
  /\ UNCHANGED <<row, terminating, job_ti, child_ti, env, callbacks>>

\* handle_task_exit up to the refresh of the task instance.
JobExit ==
  /\ Top = "exit"
  /\ terminating' = TRUE
  /\ job_ti' = row
  /\ Goto(<<IF row.state = "running" THEN "exit_fail" ELSE "exit_callback">>)
  /\ UNCHANGED <<row, runner, task, env, callbacks>>

\* handle_failure of a task instance that was still RUNNING when refreshed.
JobExitFail ==
  /\ Top = "exit_fail"
  /\ job_ti' = handle_failure(job_ti)
  /\ row' = job_ti'
  /\ Goto(<<"exit_callback">>)
  /\ UNCHANGED <<terminating, runner, task, env, callbacks>>

JobExitCallback ==
  /\ Top = "exit_callback"
  /\ RunFinishedCallback
  /\ Goto(<<"mini">>)
  /\ UNCHANGED <<row, terminating, job_ti, runner, task, env>>

\* The mini scheduler and the paused-DAG check: they leave this row alone.
JobMiniScheduler ==
  /\ Top = "mini"
  /\ Return
  /\ UNCHANGED <<row, terminating, job_ti, runner, task, env, callbacks>>

\* mutant: the job ends without on_kill()
JobKill_no_on_kill ==
  /\ Top = "kill"
  /\ Goto(<<"done">>)
  /\ UNCHANGED <<row, terminating, job_ti, runner, task, env, callbacks>>

\* finally: self.on_kill()
JobKill ==
  /\ Top = "kill"
  /\ Goto(<<"term", "done">>)
  /\ UNCHANGED <<row, terminating, job_ti, runner, task, env, callbacks>>

\* signal_handler: terminate() and handle_task_exit() on top of what it interrupts.
Sigterm ==
  /\ ~Ended
  /\ sigterms < MaxSigterm
  /\ sigterms' = sigterms + 1
  /\ stack' = <<"term", "exit">> \o stack
  /\ UNCHANGED <<row, terminating, job_ti, runner, task, missed, zombie, edits, rival, restarting,
                 callbacks>>

JobStep ==
  \/ JobCheck \/ JobClaim \/ JobSendBack \/ JobFork \/ JobStarted \/ JobLoop \/ JobReturnCode
  \/ JobWait \/ JobHeartbeat \/ JobDecide \/ JobHbCallback \/ JobTerm \/ JobReap
  \/ JobExit \/ JobExitFail \/ JobExitCallback \/ JobMiniScheduler \/ JobKill

-----------------------------------------------------------------------------
(* The forked process.                                                     *)

\* Default signal handlers, and a process group of its own.
ChildSetpgid ==
  /\ child = "forked"
  /\ child' = "boot"
  /\ UNCHANGED <<row, job, runner, child_ti, env, callbacks>>

\* _run_raw_task refreshes, records its pid and goes on to the task.
ChildStart ==
  /\ child = "boot"
  /\ child' = "exec"
  /\ row' = [row EXCEPT !.owner = "self"]
  /\ child_ti' = row'
  /\ UNCHANGED <<job, runner, env, callbacks>>

\* An AirflowException refreshes the row, and respects a mark as success or failed.
ChildAirflowException ==
  IF row.state \in {"success", "failed"}
  THEN child' = "leaving" /\ child_ti' = row
  ELSE child' = "writing" /\ child_ti' = handle_failure(row)

(* The task ends: success, skip, or a failure that must not be retried,    *)
(* all after a refresh; a reschedule request, which gives the try back;    *)
(* any other exception, or the registration of a smart sensor, which do    *)
(* not look at the row; or an AirflowException.                            *)
ChildOutcome ==
  /\ child = "exec"
  /\ \/ /\ child_ti' \in {set_state(row, st) : st \in {"success", "skipped", "failed"}}
        /\ child' = "writing"
     \/ /\ child_ti' = [row EXCEPT !.state = "up_for_reschedule", !.try_number = @ - 1]
        /\ child' = "writing"
     \/ /\ child_ti' \in {handle_failure(child_ti), set_state(child_ti, "sensing")}
        /\ child' = "writing"
     \/ ChildAirflowException
  /\ UNCHANGED <<row, job, runner, env, callbacks>>

\* The merge and commit that end _run_raw_task.
ChildWrite ==
  /\ child = "writing"
  /\ row' = child_ti
  /\ child' = "leaving"
  /\ UNCHANGED <<job, runner, child_ti, env, callbacks>>

ChildExit ==
  /\ child = "leaving"
  /\ child' = "dead"
  /\ UNCHANGED <<row, job, runner, child_ti, env, callbacks>>

(* SIGTERM: the default action until the task runs; the handler's          *)
(* AirflowException while it runs, which nothing catches afterwards.       *)
ChildSigterm ==
  /\ Alive /\ child # "killed" /\ sig = "sent"
  /\ sig' = "handled"
  /\ IF child = "exec" THEN ChildAirflowException
     ELSE child' = "dead" /\ UNCHANGED child_ti
  /\ UNCHANGED <<row, job, process, rc, forgotten, env, callbacks>>

\* SIGKILL takes effect, at last.
ChildEnds ==
  /\ child = "killed"
  /\ child' = "dead"
  /\ UNCHANGED <<row, job, runner, child_ti, env, callbacks>>

\* The operating system kills the task, for instance for its memory.
ChildKilled ==
  /\ "kill_task" \in Faults
  /\ Alive
  /\ child' = "dead"
  /\ UNCHANGED <<row, job, runner, child_ti, env, callbacks>>

-----------------------------------------------------------------------------
(* Everybody else.                                                         *)

\* A user marks the task instance as success or failed.
Mark ==
  /\ edits < MaxEdits
  /\ edits' = edits + 1
  /\ row' \in {set_state(row, st) : st \in {"success", "failed"} \ {row.state}}
  /\ UNCHANGED <<job, runner, task, missed, zombie, sigterms, rival, restarting, callbacks>>

\* max_tries of a cleared task instance: as many retries again if its DAG is
\* known, or at least the attempts it has had.
ClearedMaxTries(ti) ==
  {try_number(ti) + retries - 1,
   IF ti.max_tries >= ti.try_number THEN ti.max_tries ELSE ti.try_number}

\* clear_task_instances: a running task instance and its job are asked to restart.
Clear ==
  /\ edits < MaxEdits
  /\ edits' = edits + 1
  /\ IF row.state = "running"
     THEN /\ row' = set_state(row, "restarting")
          /\ restarting' = (restarting \/ row.owner = "self")
     ELSE /\ \E n \in ClearedMaxTries(row) :
               row' = [row EXCEPT !.state = "none", !.max_tries = n]
          /\ UNCHANGED restarting
  /\ UNCHANGED <<job, runner, task, missed, zombie, sigterms, rival, callbacks>>

\* The task instance is queued again and another worker claims it.
TakeOver ==
  /\ row.owner # "none" /\ ~rival
  /\ row.state \in SCHEDULEABLE_STATES
  /\ row.try_number < MaxTry
  /\ row' = [row EXCEPT !.state = "running", !.try_number = @ + 1, !.owner = "other"]
  /\ rival' = TRUE
  /\ UNCHANGED <<job, runner, task, missed, zombie, sigterms, edits, restarting, callbacks>>

\* ... and finishes it, or terminates it because the row is not its own any more.
OtherFinishes ==
  /\ rival
  /\ rival' = FALSE
  /\ \/ row' \in {set_state(row, "success"), handle_failure(row)}
     \/ (row.owner # "other" \/ row.state # "running") /\ UNCHANGED row
  /\ UNCHANGED <<job, runner, task, missed, zombie, sigterms, edits, restarting, callbacks>>

\* The job is stalled for longer than scheduler_zombie_task_threshold.
Stall ==
  /\ "late" \in Faults
  /\ ~Ended
  /\ missed' = MissLimit
  /\ UNCHANGED <<row, job, runner, task, zombie, sigterms, edits, rival, restarting, callbacks>>

\* The job dies without any handler: no heartbeat follows, the task lives on.
JobKilled ==
  /\ "kill_job" \in Faults
  /\ ~Ended
  /\ stack' = <<"dead">>
  /\ missed' = MissLimit
  /\ UNCHANGED <<row, terminating, job_ti, runner, task, zombie, sigterms, edits, rival, restarting,
                 callbacks>>

\* mutant: both a job that is over and a late heartbeat are asked for
FindZombie_and ==
  /\ zombie = <<>>
  /\ row.state = "running" /\ row.owner = "self"
  /\ (Top = "done" \/ restarting) /\ late
  /\ zombie' = <<"queued">>
  /\ UNCHANGED <<row, job, runner, task, missed, sigterms, edits, rival, restarting, callbacks>>

\* _find_zombies: RUNNING with a job that is over or has a late heartbeat.
FindZombie ==
  /\ zombie = <<>>
  /\ row.state = "running" /\ row.owner = "self"
  /\ Top = "done" \/ restarting \/ late
  /\ zombie' = <<"queued">>
  /\ UNCHANGED <<row, job, runner, task, missed, sigterms, edits, rival, restarting, callbacks>>

\* _execute_task_callbacks, when the DAG's file is next processed: refresh_from_db,
ReadZombie ==
  /\ zombie = <<"queued">>
  /\ zombie' = <<"read", row>>
  /\ UNCHANGED <<row, job, runner, task, missed, sigterms, edits, rival, restarting, callbacks>>

\* ... and handle_failure of what was read.
HandleZombie ==
  /\ zombie \notin {<<>>, <<"queued">>}
  /\ zombie' = <<>>
  /\ row' = handle_failure(zombie[2])
  /\ UNCHANGED <<job, runner, task, missed, sigterms, edits, rival, restarting, callbacks>>

-----------------------------------------------------------------------------
Init ==
  /\ row = [state |-> "queued", try_number |-> 0, max_tries |-> retries, owner |-> "none"]
  /\ stack = <<"check">> /\ terminating = FALSE /\ job_ti = row
  /\ process = "none" /\ rc = FALSE /\ sig = "no" /\ forgotten = FALSE
  /\ child = "none" /\ child_ti = row
  /\ missed = 0 /\ zombie = <<>> /\ rival = FALSE /\ restarting = FALSE
  /\ callbacks = 0 /\ sigterms = 0 /\ edits = 0

Terminated == Ended /\ ~Alive /\ UNCHANGED vars

Next ==
  \/ JobStep \/ JobHeartbeatFails \/ Sigterm
  \/ ChildSetpgid \/ ChildStart \/ ChildOutcome \/ ChildWrite \/ ChildExit
  \/ ChildSigterm \/ ChildEnds \/ ChildKilled
  \/ Mark \/ Clear \/ TakeOver \/ OtherFinishes
  \/ Stall \/ JobKilled \/ FindZombie \/ ReadZombie \/ HandleZombie
  \/ Terminated

Spec == Init /\ [][Next]_vars

(* The job takes its next step; the forked process starts, receives its    *)
(* signals, writes what it has decided and exits; and the DAG processor    *)
(* manager goes on looking for zombies.  The task itself need not end, nor *)
(* a user do anything.                                                     *)
FairSpec ==
  /\ Spec
  /\ WF_vars(JobStep)
  /\ WF_vars(ChildSetpgid \/ ChildStart \/ ChildWrite \/ ChildExit \/ ChildSigterm)
  /\ WF_vars(FindZombie) /\ WF_vars(ReadZombie \/ HandleZombie)

-----------------------------------------------------------------------------
Pcs ==
  {"check", "claim", "send_back", "start", "started", "loop", "rc", "wait", "heartbeat", "decide",
   "hb_callback", "term", "reap", "exit", "exit_fail", "exit_callback", "mini", "kill", "done",
   "dead"}

(* Every variable has its type, and the age of the heartbeat never passes  *)
(* the limit at which _execute gives up.                                   *)
TypeOK ==
  /\ row \in TI /\ job_ti \in TI /\ child_ti \in TI
  /\ stack \in Seq(Pcs) /\ stack # <<>>
  /\ terminating \in BOOLEAN /\ rc \in BOOLEAN /\ missed \in 0..MissLimit
  /\ zombie \in {<<>>, <<"queued">>} \cup ({"read"} \X TI)
  /\ rival \in BOOLEAN /\ restarting \in BOOLEAN
  /\ process \in {"none", "set"} /\ sig \in {"no", "sent", "handled"} /\ forgotten \in BOOLEAN
  /\ child \in {"none", "forked", "boot", "exec", "writing", "leaving", "killed", "dead"}
  /\ callbacks \in Nat /\ sigterms \in Nat /\ edits \in Nat

(* The job ends before its task only if terminate() gave the task up,      *)
(* which it does before the process has its own group and after a SIGKILL  *)
(* without effect.  On every other path out of _execute, and wherever      *)
(* SIGTERMs interrupted it and each other, on_kill has ended the process.  *)
NoOrphanTask == Top = "done" /\ Alive => forgotten

(* The finished callback runs at most once, plus once for every SIGTERM    *)
(* the job received.                                                       *)
CallbacksBounded == callbacks <= 1 + sigterms

-----------------------------------------------------------------------------
(* The inductive invariant behind the two properties above.                *)

\* Where _execute may be.
MainPcs ==
  {"check", "claim", "send_back", "start", "started", "loop", "rc", "wait", "heartbeat", "decide",
   "hb_callback", "kill", "done", "dead"}

\* The calls of handle_task_exit that have not run their callback, by their
\* distance from the bottom of the stack.
ExitFrames ==
  {d \in 0..(Len(stack) - 1) :
     stack[Len(stack) - d] \in {"exit", "exit_fail", "exit_callback"}}

\* Whether _execute may still come to run a callback of its own.
MainMayCall ==
  \/ Bottom \in {"check", "claim", "send_back", "start", "started", "rc", "wait", "decide",
                 "hb_callback"}
  \/ Bottom \in {"loop", "heartbeat"} /\ ~terminating

\* The runner has not been started.
Fresh == child = "none" /\ process = "none" /\ sig = "no" /\ ~rc

\* A forked process that lives is one that terminate() will find, or has given up.
InReach == Alive => process = "set" \/ forgotten

(* It is out of reach only until self.process is assigned, or once the job *)
(* is dead, and SIGTERM goes only to a process within reach.               *)
RunnerInv ==
  /\ InReach \/ Bottom \in {"started", "dead"}
  /\ sig # "no" => InReach
  /\ rc /\ Alive => forgotten

(* The bottom of the stack, and nothing else, is _execute.  It has ended   *)
(* only below a terminate(), which finds the forked process if it lives.   *)
(* Every callback, run or still to come, is that of _execute or of a       *)
(* SIGTERM.                                                                *)
JobInv ==
  /\ TypeOK
  /\ \A i \in 1..Len(stack) : stack[i] \in MainPcs <=> i = Len(stack)
  /\ \A i \in 1..Len(stack) : stack[i] = "reap" => sig # "no"
  /\ Bottom = "done" /\ Len(stack) > 1 => stack[Len(stack) - 1] \in {"term", "reap"}
  /\ Bottom \in {"check", "claim", "send_back", "start"} => Fresh
  /\ RunnerInv
  /\ NoOrphanTask
  /\ callbacks + Cardinality(ExitFrames) + (IF MainMayCall THEN 1 ELSE 0) <= 1 + sigterms

-----------------------------------------------------------------------------
(* The row is not RUNNING, or another worker's.                            *)
Disowned == row.state # "running" \/ row.owner # "self"

(* Undead tasks: a task that runs although its row says otherwise, or says *)
(* that another worker runs it, is terminated, unless its job is killed or *)
(* terminate() gives it up; or, as it starts, it writes its own hostname   *)
(* and pid over the other worker's.                                        *)
UndeadTerminatedOrOwner ==
  Disowned /\ Alive ~> ~Alive \/ forgotten \/ Top = "dead" \/ ~Disowned

(* Zombie tasks: a row that says RUNNING after the task is gone is failed  *)
(* or retried.                                                             *)
ZombieCleaned ==
  ~Disowned /\ child = "dead" ~> Disowned

(* A task instance that is cleared while its process boots leaves          *)
(* RESTARTING, or at least its task begins, whose handler of SIGTERM would *)
(* make it UP_FOR_RETRY.                                                   *)
RestartingIsRetried ==
  row.state = "restarting" /\ child = "boot" ~> row.state # "restarting" \/ child = "exec"

=============================================================================
