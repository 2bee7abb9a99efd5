------------------------ MODULE DagRunDecisionProofs ------------------------
(***************************************************************************)
(* The runs that are worked on are running, the only others who touch the  *)
(* task instances of a locked run are the workers, and what a scheduler    *)
(* decides on what it has read is right.                                   *)
(***************************************************************************)
EXTENDS DagRunLockProofs

\* Runs holds after a step that changes the transaction of p only.
LEMMA RunsFrom ==
  ASSUME TypeOK, Locks, Runs, NEW p \in Proc, NEW x, tx' = [tx EXCEPT ![p] = x],
         \A q \in Proc : q # p => pc'[q] = pc[q],
         \A r \in timed_out' : run'[r] = "failed",
         \A r \in Run : lock[r] \in Proc /\ lock[r] # p => run'[r] = run[r],
         \A r \in Run : /\ r \in x.todo => run'[r] = "running"
                        /\ x.plan[r].state # "none" => run'[r] = "running"
                        /\ pc'[p] = "start" /\ r \in x.locked => run'[r] = "queued"
  PROVE  Runs'
<1>1. \A q \in Proc : tx'[q] = IF q = p THEN x ELSE tx[q]
  BY DEF TypeOK
<1>2. ASSUME NEW q \in Proc, NEW r \in Run
      PROVE  /\ r \in tx'[q].todo => run'[r] = "running"
             /\ tx'[q].plan[r].state # "none" => run'[r] = "running"
             /\ pc'[q] = "start" /\ r \in tx'[q].locked => run'[r] = "queued"
  <2>1. CASE q = p
    BY <1>1, <2>1
  <2>2. CASE q # p
    <3>1. tx'[q] = tx[q] /\ pc'[q] = pc[q]
      BY <1>1, <2>2
    <3>2. tx[q].plan[r].state # "none" => tx[q].plan[r] # NoPlan
      BY NoTxFacts
    <3>3. r \in tx[q].todo \/ tx[q].plan[r].state # "none" \/ r \in tx[q].locked => run'[r] = run[r]
      BY <2>2, <3>2 DEF Locks
    <3> QED
      BY <3>1, <3>3 DEF Runs
  <2> QED
    BY <2>1, <2>2
<1> QED
  BY <1>2 DEF Runs

\* Every step keeps the states of the runs that are worked on.
LEMMA RunsStep ==
  ASSUME TypeOK, Locks, Runs, [Next]_vars, ~paused
  PROVE  Runs'
<1> USE DEF Goto, given, database, workers, disturbances
<1>0. TypeOK /\ Locks /\ Runs /\ None \notin Proc /\ Scheduler \subseteq Proc
  BY DagRunAssumption DEF Proc
<1>1. ASSUME tx' = tx, timed_out' = timed_out, \A r \in Run : run'[r] = run[r] \/ run[r] = "none",
             \A q \in Proc : pc'[q] = pc[q] \/ pc'[q] # "start"
      PROVE  Runs'
  <2>1. timed_out \subseteq Run
    BY <1>0 DEF TypeOK
  <2> QED
    BY <1>0, <1>1, <2>1 DEF Runs
<1>2. ASSUME NEW p \in Proc, Commit(p), \A q \in Proc : q # p => pc'[q] = pc[q]
      PROVE  Runs'
  <2>1. \A r \in Run : tx[p].plan[r].state # "none" => tx[p].plan[r] # NoPlan
    BY NoTxFacts
  <2>2. \A r \in Run : lock[r] # p => tx[p].plan[r].state = "none"
    BY <1>0, <1>2, <2>1 DEF Locks
  <2>3. /\ tx' = [tx EXCEPT ![p] = NoTx] /\ timed_out' \subseteq Run
        /\ \A r \in Run :
              /\ tx[p].plan[r].state = "none" => run'[r] = run[r]
              /\ tx[p].plan[r].state = "timed_out" => run'[r] = "failed" /\ r \in timed_out'
              /\ tx[p].plan[r].state \notin {"none", "timed_out"} => run'[r] = tx[p].plan[r].state
              /\ r \in timed_out' => r \in timed_out \/ tx[p].plan[r].state = "timed_out"
    BY <1>0, <1>2, CommitFacts
  <2>4. ASSUME NEW r \in timed_out' PROVE run'[r] = "failed"
    <3>1. r \in Run
      BY <2>3
    <3>2. r \in timed_out => run[r] = "failed" /\ tx[p].plan[r].state = "none"
      BY <1>0, <3>1 DEF Runs
    <3> QED
      BY <2>3, <3>1, <3>2
  <2>5. \A r \in Run : lock[r] \in Proc /\ lock[r] # p => run'[r] = run[r]
    BY <1>0, <2>2, <2>3, NoTxFacts
  <2>6. \A r \in Run : /\ r \in NoTx.todo => run'[r] = "running"
                       /\ NoTx.plan[r].state # "none" => run'[r] = "running"
                       /\ pc'[p] = "start" /\ r \in NoTx.locked => run'[r] = "queued"
    BY <1>0, <2>2, <2>3, NoTxFacts
  <2> QED
    BY <1>0, <1>2, <2>3, <2>4, <2>5, <2>6, RunsFrom, ZenonT(40)
<1>3. ASSUME NEW s \in Scheduler, LockQueued(s) PROVE Runs'
  <2> DEFINE x == [NoTx EXCEPT !.locked = Unlocked("queued"), !.active = Cardinality(RunningRuns)]
  <2>1. x.locked = Unlocked("queued") /\ x.todo = {} /\ x.plan = NoTx.plan
    BY DEF NoTx
  <2>2. /\ tx' = [tx EXCEPT ![s] = x] /\ run' = run /\ timed_out' = timed_out
        /\ \A q \in Proc : q # s => pc'[q] = pc[q]
    BY <1>0, <1>3 DEF LockQueued, Begin, TypeOK
  <2> HIDE DEF x
  <2>3. \A r \in Unlocked("queued") : run[r] = "queued"
    BY DEF Unlocked
  <2>4. \A r \in Run : x.plan[r].state = "none"
    BY <2>1, NoTxFacts
  <2>5. \A r \in timed_out' : run'[r] = "failed"
    BY <1>0, <2>2 DEF Runs
  <2>6. \A r \in Run : lock[r] \in Proc /\ lock[r] # s => run'[r] = run[r]
    BY <2>1, <2>2, <2>3, <2>4
  <2>7. \A r \in Run : /\ r \in x.todo => run'[r] = "running"
                       /\ x.plan[r].state # "none" => run'[r] = "running"
                       /\ pc'[s] = "start" /\ r \in x.locked => run'[r] = "queued"
    BY <2>1, <2>2, <2>3, <2>4
  <2>8. s \in Proc /\ TypeOK /\ Locks /\ Runs
    BY <1>0
  <2> QED
    BY <2>2, <2>5, <2>6, <2>7, <2>8, RunsFrom, Zenon
<1>4. ASSUME NEW s \in Scheduler, LockRunning(s) PROVE Runs'
  <2> DEFINE x == [NoTx EXCEPT !.locked = Unlocked("running"), !.todo = Unlocked("running")]
  <2>1. x.locked = Unlocked("running") /\ x.todo = Unlocked("running") /\ x.plan = NoTx.plan
    BY DEF NoTx
  <2>2. /\ tx' = [tx EXCEPT ![s] = x] /\ run' = run /\ timed_out' = timed_out
        /\ pc'[s] = "schedule" /\ \A q \in Proc : q # s => pc'[q] = pc[q]
    BY <1>0, <1>4 DEF LockRunning, Begin, TypeOK
  <2> HIDE DEF x
  <2>3. \A r \in Unlocked("running") : run[r] = "running"
    BY DEF Unlocked
  <2>4. \A r \in Run : x.plan[r].state = "none"
    BY <2>1, NoTxFacts
  <2>5. \A r \in timed_out' : run'[r] = "failed"
    BY <1>0, <2>2 DEF Runs
  <2>6. \A r \in Run : lock[r] \in Proc /\ lock[r] # s => run'[r] = run[r]
    BY <2>1, <2>2, <2>3, <2>4
  <2>7. \A r \in Run : /\ r \in x.todo => run'[r] = "running"
                       /\ x.plan[r].state # "none" => run'[r] = "running"
                       /\ pc'[s] = "start" /\ r \in x.locked => run'[r] = "queued"
    BY <2>1, <2>2, <2>3, <2>4
  <2>8. s \in Proc /\ TypeOK /\ Locks /\ Runs
    BY <1>0
  <2> QED
    BY <2>2, <2>5, <2>6, <2>7, <2>8, RunsFrom, Zenon
<1>5. ASSUME NEW s \in Scheduler, StartQueued(s) \/ Rollback(s) PROVE Runs'
  <2>1. /\ tx' = [tx EXCEPT ![s] = NoTx] /\ timed_out' = timed_out /\ timed_out \subseteq Run
        /\ \A q \in Proc : q # s => pc'[q] = pc[q]
    BY <1>0, <1>5 DEF StartQueued, Rollback, Begin, TypeOK
  <2>2. \A r \in Run : run'[r] = run[r] \/ (r \in tx[s].locked /\ pc[s] = "start")
    BY <1>0, <1>5, Zenon DEF StartQueued, Rollback, Startable, TypeOK
  <2>3. \A r \in Run : r \in tx[s].locked /\ pc[s] = "start" => lock[r] = s /\ run[r] = "queued"
    BY <1>0 DEF Locks, Runs
  <2>4. \A r \in timed_out' : run'[r] = "failed"
    BY <1>0, <2>1, <2>2, <2>3 DEF Runs
  <2>5. \A r \in Run : lock[r] \in Proc /\ lock[r] # s => run'[r] = run[r]
    BY <2>2, <2>3, NoTxFacts
  <2>6. \A r \in Run : /\ r \in NoTx.todo => run'[r] = "running"
                       /\ NoTx.plan[r].state # "none" => run'[r] = "running"
                       /\ pc'[s] = "start" /\ r \in NoTx.locked => run'[r] = "queued"
    BY <2>2, <2>3, NoTxFacts
  <2> QED
    BY <1>0, <2>1, <2>4, <2>5, <2>6, RunsFrom, ZenonT(40)
<1>6. ASSUME NEW p \in Proc, NEW r \in Run, NEW x \in Transaction, NEW plan \in PlanType,
             tx' = [tx EXCEPT ![p] = Planned(x, r, plan)],
             x = NoTx \/ x = tx[p], run' = run, timed_out' = timed_out,
             plan.state # "none" => run[r] = "running",
             pc'[p] # "start", \A q \in Proc : q # p => pc'[q] = pc[q]
      PROVE  Runs'
  <2> DEFINE y == Planned(x, r, plan)
  <2>1. /\ y.locked = x.locked /\ y.todo = x.todo \ {r} /\ y.plan[r] = plan
        /\ \A q \in Run : q # r => y.plan[q] = x.plan[q]
    BY <1>6, PlannedFacts
  <2>2. tx' = [tx EXCEPT ![p] = y]
    BY <1>6
  <2> HIDE DEF y
  <2>3. \A q \in Run : /\ q \in x.todo => run[q] = "running"
                       /\ x.plan[q].state # "none" => run[q] = "running"
    BY <1>0, <1>6, NoTxFacts DEF Runs
  <2>4. \A q \in Run : /\ q \in y.todo => run'[q] = "running"
                       /\ y.plan[q].state # "none" => run'[q] = "running"
    BY <1>6, <2>1, <2>3
  <2>5. \A q \in timed_out' : run'[q] = "failed"
    BY <1>0, <1>6 DEF Runs
  <2> QED
    BY <1>0, <1>6, <2>2, <2>4, <2>5, RunsFrom, Zenon
<1>7. ASSUME NEW s \in Scheduler, ScheduleDagRun(s) PROVE Runs'
  <2>1. /\ s \in Proc /\ tx[s] \in Transaction /\ tx[s].todo \subseteq Run
        /\ run' = run /\ timed_out' = timed_out /\ pc' = pc /\ pc[s] = "schedule"
    BY <1>0, <1>7 DEF ScheduleDagRun, TypeOK, Transaction
  <2>2. PICK r \in tx[s].todo, plan \in PlanType : tx' = [tx EXCEPT ![s] = Planned(tx[s], r, plan)]
    <3>1. PICK r \in tx[s].todo :
             \/ \E X : tx' = [tx EXCEPT ![s] = Updated(tx[s], r, X, dag.tasks)]
             \/ tx' = [tx EXCEPT ![s] = TimedOut(tx[s], r)]
      BY <1>7 DEF ScheduleDagRun, Begin
    <3> QED
      BY <1>0, <2>1, <3>1, PlansAreTyped
  <2>3. r \in Run /\ run[r] = "running"
    BY <1>0, <2>1 DEF Runs
  <2> QED
    BY <1>6, <2>1, <2>2, <2>3, Zenon
<1>8. ASSUME NEW r \in Run, NEW t \in Task, MiniSchedule(r, t) PROVE Runs'
  <2>1. /\ <<r, t>> \in Proc /\ run' = run /\ timed_out' = timed_out
        /\ pc' = [pc EXCEPT ![<<r, t>>] = "mini_commit"]
    BY <1>8 DEF MiniSchedule, Proc, Job
  <2>2. \E plan \in PlanType : plan.state = "none" /\ tx' = [tx EXCEPT ![<<r, t>>] = Planned(NoTx, r, plan)]
    <3>1. \A write \in [Task -> Written] : Plan(write, "none") \in PlanType /\ Plan(write, "none").state = "none"
      BY DEF Plan, PlanType
    <3> QED
      BY <1>0, <1>8, <3>1, NoTxFacts, DecisionTypes, ZenonT(40) DEF MiniSchedule, Begin
  <2>3. pc'[<<r, t>>] # "start" /\ \A q \in Proc : q # <<r, t>> => pc'[q] = pc[q]
    BY <1>0, <2>1 DEF TypeOK
  <2>4. PICK plan \in PlanType : plan.state = "none" /\ tx' = [tx EXCEPT ![<<r, t>>] = Planned(NoTx, r, plan)]
    BY <2>2, Zenon
  <2> QED
    BY <1>6, <2>1, <2>3, <2>4, NoTxFacts, ZenonT(40)
<1>9. ASSUME NEW r \in Run, NEW t \in Task, Attempt(r, t) PROVE Runs'
  <2>1. <<r, t>> \in Proc
    BY DEF Proc, Job
  <2>2. CASE MiniCommit(r, t) \/ CommitPaused(r, t)
    BY <1>0, <1>2, <2>1, <2>2, ZenonT(40) DEF MiniCommit, CommitPaused, TypeOK
  <2>3. CASE Execute(r, t) \/ TaskEnds(r, t) \/ RetryDelayElapses(r, t) \/ MiniFails(r, t) \/ Exit(r, t)
    BY <1>0, <1>1, <2>1, <2>3, ZenonT(40) DEF Execute, TaskEnds, RetryDelayElapses, MiniFails, Exit, TypeOK
  <2>4. ~UpdatePaused(r, t)
    BY DEF UpdatePaused
  <2> QED
    BY <1>8, <1>9, <2>2, <2>3, <2>4 DEF Attempt
<1>10. CASE CreateDagRun \/ TogglePaused \/ UNCHANGED vars
  BY <1>0, <1>1, <1>10 DEF CreateDagRun, TogglePaused, vars, TypeOK
<1>11. ASSUME NEW s \in Scheduler, CommitSchedule(s) PROVE Runs'
  BY <1>0, <1>2, <1>11, Zenon DEF CommitSchedule, TypeOK
<1> QED
  BY <1>0, <1>3, <1>4, <1>5, <1>7, <1>9, <1>10, <1>11, DagFacts DEF Next, Loop

-----------------------------------------------------------------------------
\* Task instances are written by commits and by workers only.
LEMMA Steps ==
  ASSUME Inv, [Next]_vars, ~paused
  PROVE  /\ dag' = dag
         /\ \/ \E p \in Proc : Commit(p) /\ executing' = executing
            \/ \E r \in Run, t \in Task : Execute(r, t) \/ TaskEnds(r, t)
            \/ UNCHANGED <<ti, timed_out, executing>>
<1> USE DEF Goto, given, database, workers, disturbances
<1>0. TypeOK /\ Scheduler \subseteq Proc /\ Job \subseteq Proc
  BY DEF Inv, Proc
<1>1. CASE UNCHANGED vars \/ CreateDagRun \/ TogglePaused
  BY <1>1 DEF vars, CreateDagRun, TogglePaused
<1>2. ASSUME NEW s \in Scheduler, Loop(s) \/ Rollback(s)
      PROVE  dag' = dag /\ ((Commit(s) /\ executing' = executing) \/ UNCHANGED <<ti, timed_out, executing>>)
  BY <1>2, ZenonT(40) DEF Loop, LockQueued, StartQueued, LockRunning, ScheduleDagRun, CommitSchedule, Rollback
<1>3. ASSUME NEW r \in Run, NEW t \in Task, Attempt(r, t)
      PROVE  /\ dag' = dag
             /\ \/ Commit(<<r, t>>) /\ executing' = executing
                \/ Execute(r, t) \/ TaskEnds(r, t) \/ UNCHANGED <<ti, timed_out, executing>>
  BY <1>3 DEF Attempt, Execute, TaskEnds, RetryDelayElapses, MiniSchedule, MiniCommit, MiniFails,
              UpdatePaused, CommitPaused, Exit
<1>4. \A r \in Run, t \in Task : <<r, t>> \in Proc
  BY <1>0 DEF Job
<1> QED
  BY <1>0, <1>1, <1>2, <1>3, <1>4, DagFacts, Zenon DEF Next

\* What workers write, by task instance.
LEMMA WorkerFacts ==
  ASSUME Inv, NEW r \in Run, NEW t \in Task, Execute(r, t) \/ TaskEnds(r, t)
  PROVE  /\ timed_out' = timed_out
         /\ \A q \in Run, x \in Task : q # r \/ x # t =>
              ti'[q][x] = ti[q][x] /\ (<<q, x>> \in executing' => <<q, x>> \in executing)
         /\ \/ ti[r][t] = "scheduled" /\ ti'[r][t] = "running"
            \/ /\ r \in timed_out \/ ti[r][t] = "running"
               /\ <<r, t>> \notin executing' /\ ti'[r][t] \in {"success", "failed", "skipped", "up_for_retry"}
<1> USE DEF database, workers, given
<1>1. ti \in [Run -> [Task -> TaskInstanceState]]
  BY DEF Inv, TypeOK
<1>2. CASE Execute(r, t)
  BY <1>1, <1>2 DEF Execute
<1>3. CASE TaskEnds(r, t)
  <2>1. \E st \in {"success", "failed", "skipped", "up_for_retry"} : ti' = [ti EXCEPT ![r][t] = st]
    BY <1>3, DagFacts DEF TaskEnds, Inv
  <2>2. timed_out' = timed_out /\ executing' = executing \ {<<r, t>>} /\ <<r, t>> \in executing
    BY <1>3 DEF TaskEnds
  <2>3. r \in timed_out \/ ti[r][t] = "running"
    BY <2>2, ZenonT(40) DEF Inv, Works
  <2> QED
    BY <1>1, <2>1, <2>2, <2>3
<1> QED
  BY <1>2, <1>3

\* A commit writes over a task instance only what is right, or ends the run.
LEMMA CommitSound ==
  ASSUME Inv, NEW p \in Proc, Commit(p), NEW r \in Run, r \notin timed_out', NEW t \in Task,
         ti'[r][t] # ti[r][t]
  PROVE  /\ lock[r] = p /\ tx[p].plan[r] # NoPlan
         /\ ti'[r][t] = tx[p].plan[r].write[t] /\ WriteSound(tx[p], r, t, ti'[r][t])
<1>1. TypeOK /\ Locks /\ Plans
  BY DEF Inv
<1>2. /\ ti'[r][t] = IF tx[p].plan[r].write[t] = "none" THEN ti[r][t] ELSE tx[p].plan[r].write[t]
      /\ tx[p].plan[r].state # "timed_out" /\ r \notin timed_out
  BY <1>1, CommitFacts
<1>3. tx[p].plan[r].write[t] # "none" /\ ti'[r][t] = tx[p].plan[r].write[t]
  BY <1>2
<1>4. tx[p].plan[r] # NoPlan
  BY <1>3, NoTxFacts
<1> QED
  BY <1>1, <1>2, <1>3, <1>4 DEF Locks, Plans, PlanSound

\* Outcomes are final, except in a run that timed out.
LEMMA FinishedStable ==
  ASSUME Inv, [Next]_vars, ~paused
  PROVE  /\ timed_out \subseteq timed_out'
         /\ \A r \in Run : r \notin timed_out' =>
              \A t \in Task : ti[r][t] \in finished => ti'[r][t] = ti[r][t]
<1>1. CASE UNCHANGED <<ti, timed_out, executing>>
  BY <1>1
<1>2. ASSUME NEW q \in Run, NEW x \in Task, Execute(q, x) \/ TaskEnds(q, x)
      PROVE  /\ timed_out \subseteq timed_out'
             /\ \A r \in Run : r \notin timed_out' =>
                  \A t \in Task : ti[r][t] \in finished => ti'[r][t] = ti[r][t]
  <2>1. /\ timed_out' = timed_out
        /\ \A k \in Run, y \in Task : k # q \/ y # x =>
             ti'[k][y] = ti[k][y] /\ (<<k, y>> \in executing' => <<k, y>> \in executing)
        /\ \/ ti[q][x] = "scheduled" /\ ti'[q][x] = "running"
           \/ /\ q \in timed_out \/ ti[q][x] = "running"
              /\ <<q, x>> \notin executing' /\ ti'[q][x] \in {"success", "failed", "skipped", "up_for_retry"}
    BY <1>2, WorkerFacts
  <2> QED
    BY <2>1, Zenon DEF finished
<1>3. ASSUME NEW p \in Proc, Commit(p)
      PROVE  /\ timed_out \subseteq timed_out'
             /\ \A r \in Run : r \notin timed_out' =>
                  \A t \in Task : ti[r][t] \in finished => ti'[r][t] = ti[r][t]
  <2>1. timed_out \subseteq timed_out'
    BY <1>3, CommitFacts DEF Inv
  <2>2. \A r \in Run, t \in Task : r \notin timed_out' /\ ti'[r][t] # ti[r][t] => ti[r][t] \in SCHEDULEABLE_STATES
    BY <1>3, CommitSound DEF WriteSound
  <2> QED
    BY <2>1, <2>2 DEF finished, SCHEDULEABLE_STATES
<1> QED
  BY <1>1, <1>2, <1>3, Steps

\* What waits in a run that somebody has plans for goes on waiting.
LEMMA WaitingHeld ==
  ASSUME Inv, [Next]_vars, ~paused, NEW p \in Proc, tx'[p] = tx[p],
         NEW r \in Run, tx[p].plan[r] # NoPlan, r \notin timed_out',
         NEW t \in Task, ti[r][t] \in SCHEDULEABLE_STATES
  PROVE  ti'[r][t] = ti[r][t]
<1>1. CASE UNCHANGED <<ti, timed_out, executing>>
  BY <1>1
<1>2. ASSUME NEW q \in Run, NEW x \in Task, Execute(q, x) \/ TaskEnds(q, x)
      PROVE  ti'[r][t] = ti[r][t]
  <2>1. /\ timed_out' = timed_out
        /\ \A k \in Run, y \in Task : k # q \/ y # x =>
             ti'[k][y] = ti[k][y] /\ (<<k, y>> \in executing' => <<k, y>> \in executing)
        /\ \/ ti[q][x] = "scheduled" /\ ti'[q][x] = "running"
           \/ /\ q \in timed_out \/ ti[q][x] = "running"
              /\ <<q, x>> \notin executing' /\ ti'[q][x] \in {"success", "failed", "skipped", "up_for_retry"}
    BY <1>2, WorkerFacts
  <2> QED
    BY <2>1, ZenonT(40) DEF SCHEDULEABLE_STATES
<1>3. ASSUME NEW q \in Proc, Commit(q)
      PROVE  ti'[r][t] = ti[r][t]
  <2>1. lock[r] = p
    BY DEF Inv, Locks
  <2>2. q # p
    <3>1. tx'[q] = NoTx
      BY <1>3, CommitFacts DEF Inv, TypeOK
    <3> QED
      BY <3>1, NoTxFacts, ZenonT(40)
  <2> QED
    BY <1>3, <2>1, <2>2, CommitSound
<1> QED
  BY <1>1, <1>2, <1>3, Steps

\* Every step keeps what is known about the task instances.
LEMMA WorksStep ==
  ASSUME Inv, [Next]_vars, ~paused
  PROVE  Works'
<1>0. Works /\ dag' = dag /\ timed_out \subseteq timed_out'
  BY Steps, FinishedStable DEF Inv
<1>1. ASSUME NEW r \in Run, NEW t \in Task
      PROVE  /\ ti'[r][t] \in {"none", "up_for_retry", "scheduled", "running"} \cup finished
             /\ <<r, t>> \in executing' => r \in timed_out' \/ ti'[r][t] = "running"
             /\ ti'[r][t] \in {"scheduled", "running"} => r \in timed_out' \/ TriggerRuleMet(r, t)
  <2>1. CASE UNCHANGED <<ti, timed_out, executing>>
    BY <1>0, <2>1 DEF Works
  <2>2. ASSUME NEW q \in Run, NEW x \in Task, Execute(q, x) \/ TaskEnds(q, x)
        PROVE  /\ ti'[r][t] \in {"none", "up_for_retry", "scheduled", "running"} \cup finished
               /\ <<r, t>> \in executing' => r \in timed_out' \/ ti'[r][t] = "running"
               /\ ti'[r][t] \in {"scheduled", "running"} => r \in timed_out' \/ TriggerRuleMet(r, t)
    <3>1. /\ timed_out' = timed_out
          /\ \A k \in Run, y \in Task : k # q \/ y # x =>
               ti'[k][y] = ti[k][y] /\ (<<k, y>> \in executing' => <<k, y>> \in executing)
          /\ \/ ti[q][x] = "scheduled" /\ ti'[q][x] = "running"
             \/ /\ q \in timed_out \/ ti[q][x] = "running"
                /\ <<q, x>> \notin executing' /\ ti'[q][x] \in {"success", "failed", "skipped", "up_for_retry"}
      BY <2>2, WorkerFacts
    <3>2. CASE r = q /\ t = x
      BY <1>0, <3>1, <3>2 DEF Works, finished
    <3>3. CASE r # q \/ t # x
      BY <1>0, <3>1, <3>3 DEF Works
    <3> QED
      BY <3>2, <3>3
  <2>3. ASSUME NEW p \in Proc, Commit(p), executing' = executing
        PROVE  /\ ti'[r][t] \in {"none", "up_for_retry", "scheduled", "running"} \cup finished
               /\ <<r, t>> \in executing' => r \in timed_out' \/ ti'[r][t] = "running"
               /\ ti'[r][t] \in {"scheduled", "running"} => r \in timed_out' \/ TriggerRuleMet(r, t)
    <3>1. ti'[r][t] # ti[r][t] => ti'[r][t] \in {"scheduled"} \cup finished
      <4>1. TypeOK /\ tx[p].plan[r].write[t] \in Written
        BY DEF Inv, TypeOK, Transaction
      <4> QED
        BY <2>3, <4>1, CommitFacts DEF Written
    <3>2. r \notin timed_out' /\ ti'[r][t] # ti[r][t] => WriteSound(tx[p], r, t, ti'[r][t])
      BY <2>3, CommitSound
    <3> QED
      BY <1>0, <2>3, <3>1, <3>2, ZenonT(40) DEF Works, WriteSound, SCHEDULEABLE_STATES, finished
  <2> QED
    BY <2>1, <2>2, <2>3, Steps
<1>2. ASSUME NEW r \in Run, NEW t \in Task, TriggerRuleMet(r, t), r \notin timed_out'
      PROVE  TriggerRuleMet(r, t)'
  <2>1. \A u \in dag.upstream[t] : ti[r][u] \in finished => ti'[r][u] = ti[r][u]
    BY <1>2, FinishedStable, DagFacts DEF Inv
  <2>2. Met(dag.trigger_rule[t], dag.upstream[t], ti'[r])
    BY <1>2, <2>1, MetIsStable, DagFacts, ZenonT(40) DEF TriggerRuleMet, Inv
  <2> QED
    BY <1>0, <2>2 DEF TriggerRuleMet
<1> QED
  BY <1>1, <1>2, Zenon DEF Works

-----------------------------------------------------------------------------
(* What the dependency checks of a task t say, when all its upstream tasks *)
(* are among the tasks T that are looked at.                               *)
LEMMA DecisionSound ==
  ASSUME Inv, NEW r \in Run, NEW T, NEW t \in Task, dag.upstream[t] \subseteq T
  PROVE  LET st == AssignedState(dag.trigger_rule[t], dag.upstream[t] \cap T, ti[r])
         IN  /\ st # "none" => /\ Hopeless(dag.trigger_rule[t], dag.upstream[t], ti[r])
                               /\ st \in {"upstream_failed", "skipped"} /\ ~TriggerRuleMet(r, t)
             /\ st = "none" /\ TriggerRuleDep(dag.trigger_rule[t], dag.upstream[t] \cap T, ti[r]) =>
                  TriggerRuleMet(r, t)
             /\ TriggerRuleMet(r, t) =>
                  st = "none" /\ TriggerRuleDep(dag.trigger_rule[t], dag.upstream[t] \cap T, ti[r])
<1>1. dag.upstream[t] \cap T = dag.upstream[t]
  OBVIOUS
<1>2. IsFiniteSet(dag.upstream[t]) /\ dag.trigger_rule[t] \in Rules
  BY DagFacts DEF Inv
<1> QED
  BY <1>1, <1>2, PassesIffMet, AssignedIsHopeless, HopelessIsNotMet DEF TriggerRuleMet

\* Nothing is wrong with no plan.
LEMMA NoPlanSound == \A q \in Run : PlanSound(NoTx, q)
BY NoTxFacts DEF PlanSound, StateSound

\* What PrevDagrunDep says of the previous run is right once the plans for it are committed.
LEMMA PrevDagrunSound ==
  ASSUME NEW r \in Run, NEW t \in Task, NEW x, NEW T, downstream(t) \subseteq Task,
         PrevDagrunDep(r, t, T, PreviousTIs(x, r)), \A q \in Run : PlanSound(x, q),
         t \in dag.wait_for_downstream => downstream(t) \subseteq T
  PROVE  PastSound(x, r, t)
<1>1. SUFFICES ASSUME t \in dag.depends_on_past, r - 1 \in Run, r - 1 \notin timed_out,
                      x.plan[r - 1].state # "timed_out"
               PROVE  LET prev == Overridden(ti[r - 1], x.plan[r - 1].write)
                      IN  /\ prev[t] \in success_states
                          /\ t \in dag.wait_for_downstream =>
                               \A d \in downstream(t) : prev[d] \in success_states
  BY DEF PastSound
<1>2. /\ Overridden(ti[r - 1], x.plan[r - 1].write)[t] \in success_states
      /\ t \in dag.wait_for_downstream =>
           \A d \in downstream(t) : Overridden(ti[r - 1], Flushed(x.plan[r - 1]))[d] \in success_states
  BY <1>1, ZenonT(40) DEF PrevDagrunDep, PreviousTIs
<1>3. ASSUME NEW d \in Task, Overridden(ti[r - 1], Flushed(x.plan[r - 1]))[d] \in success_states
      PROVE  Overridden(ti[r - 1], x.plan[r - 1].write)[d] \in success_states
  <2>1. x.plan[r - 1].write[d] # "none" => ti[r - 1][d] \in SCHEDULEABLE_STATES
    BY <1>1 DEF PlanSound, WriteSound
  <2> QED
    BY <1>3, <2>1 DEF Overridden, Flushed, success_states, SCHEDULEABLE_STATES
<1> QED
  BY <1>2, <1>3

(* Of the tasks T, those in X are checked, and those in R are ready.  A    *)
(* check sees all upstream tasks of a task or none, and of a task that is  *)
(* ready every task that its readiness depends on.                         *)
CheckedOver(x, r, T, X, R) ==
  /\ T \in SUBSET dag.tasks /\ X \subseteq T /\ R \subseteq X
  /\ \A t \in X : ti[r][t] \in unfinished
  /\ R \subseteq ReadyTIs(r, T, PreviousTIs(x, r))
  /\ \A t \in T : dag.upstream[t] \subseteq T \/ dag.upstream[t] \cap T = {}
  /\ \A t \in R : /\ dag.upstream[t] \subseteq T
                  /\ t \in dag.wait_for_downstream => downstream(t) \subseteq T

\* The decisions of a dependency check over T are right.
LEMMA WritesSound ==
  ASSUME Inv, NEW r \in Run, NEW x \in Transaction, NEW T, NEW X, NEW R, CheckedOver(x, r, T, X, R),
         r \notin timed_out, \A q \in Run : PlanSound(x, q),
         NEW t \in Task, Writes(R, Assignments(r, X, T))[t] # "none"
  PROVE  WriteSound(x, r, t, Writes(R, Assignments(r, X, T))[t])
<1> DEFINE st == AssignedState(dag.trigger_rule[t], dag.upstream[t] \cap T, ti[r])
           write == Writes(R, Assignments(r, X, T))[t]
<1>1. Assignments(r, X, T)[t] = IF t \in X THEN st ELSE "none"
  BY DEF Assignments
<1>2. write = IF Assignments(r, X, T)[t] # "none" THEN Assignments(r, X, T)[t]
              ELSE IF t \notin R THEN "none"
              ELSE IF t \in dag.dummy THEN "success" ELSE "scheduled"
  BY DEF Writes
<1>3. t \in X /\ t \in T /\ dag.upstream[t] \subseteq T /\ ti[r][t] \in unfinished
  <2>1. dag.upstream[t] \cap T = {} => st = "none"
    BY DEF AssignedState, Evaluated
  <2> HIDE DEF st
  <2> QED
    BY <1>1, <1>2, <2>1 DEF CheckedOver
<1>4. /\ st # "none" => /\ Hopeless(dag.trigger_rule[t], dag.upstream[t], ti[r])
                        /\ st \in {"upstream_failed", "skipped"} /\ ~TriggerRuleMet(r, t)
      /\ st = "none" /\ TriggerRuleDep(dag.trigger_rule[t], dag.upstream[t] \cap T, ti[r]) =>
           TriggerRuleMet(r, t)
  BY <1>3, DecisionSound, Zenon
<1> HIDE DEF st, write
<1>5. CASE st # "none"
  <2>1. write = st
    BY <1>1, <1>2, <1>3, <1>5
  <2>2. ti[r][t] \in {"none", "up_for_retry"}
    BY <1>3, <1>4, <1>5, Zenon DEF Inv, Works, unfinished, finished
  <2> QED
    BY <1>4, <1>5, <2>1, <2>2, ZenonT(40) DEF WriteSound, write, SCHEDULEABLE_STATES
<1>6. CASE st = "none"
  <2>1. t \in R /\ write = IF t \in dag.dummy THEN "success" ELSE "scheduled"
    BY <1>1, <1>2, <1>3, <1>6 DEF write
  <2>2. ti[r][t] \in SCHEDULEABLE_STATES /\ DependenciesMet(r, t, T, PreviousTIs(x, r))
    BY <2>1, Zenon DEF CheckedOver, ReadyTIs, InState
  <2>3. TriggerRuleMet(r, t) /\ PrevDagrunDep(r, t, T, PreviousTIs(x, r))
    BY <1>4, <1>6, <2>2, ZenonT(40) DEF DependenciesMet
  <2>4. PastSound(x, r, t)
    <3>1. downstream(t) \subseteq Task /\ (t \in dag.wait_for_downstream => downstream(t) \subseteq T)
      BY <2>1, DagFacts DEF Inv, CheckedOver, downstream
    <3> QED
      BY <2>1, <2>3, <3>1, PrevDagrunSound, ZenonT(40)
  <2> QED
    BY <2>1, <2>2, <2>3, <2>4 DEF WriteSound, write
<1> QED
  BY <1>5, <1>6

=============================================================================
