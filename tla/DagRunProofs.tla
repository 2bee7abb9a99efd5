---------------------------- MODULE DagRunProofs ----------------------------
(***************************************************************************)
(* Whatever the workers do meanwhile, every decision that a scheduler or a *)
(* mini scheduler has made is still right when it is committed: outcomes   *)
(* are final, and a trigger rule that is met, or hopeless, stays so.       *)
(***************************************************************************)
EXTENDS DagRunDecisionProofs

\* The state that update_state gives to a running run is right: it is never deadlocked.
LEMMA NewStateSound ==
  ASSUME Inv, NEW r \in Run, r \notin timed_out, NEW prev, NEW state,
         state = NewState(r, prev), state # "running"
  PROVE  StateSound(r, state)
<1> DEFINE todo == InState(dag.tasks, ti[r], unfinished)
<1>1. dag.tasks \subseteq Task /\ todo \subseteq dag.tasks
  BY DagFacts DEF Inv, InState
<1>2. \A t \in dag.tasks : t \notin todo => ti[r][t] \in finished
  BY <1>1, Zenon DEF InState, Inv, Works, unfinished
<1>3. CASE todo = {}
  <2>1. \A t \in dag.tasks : ti[r][t] \in finished
    BY <1>2, <1>3
  <2>2. \/ state = "failed" /\ \E t \in leaves : ti[r][t] \in failed_states
        \/ state = "success" /\ \A t \in leaves : ti[r][t] \in success_states
    BY <1>3 DEF NewState
  <2> QED
    BY <2>1, <2>2 DEF StateSound
<1>4. CASE todo # {}
  <2>1. todo \cap (dag.depends_on_past \cup dag.task_concurrency) = {} /\ ~RunnableTIs(r, prev)
    BY <1>4 DEF NewState
  <2>2. PICK t \in todo : dag.upstream[t] \cap todo = {}
    BY <1>1, <1>4, DagFacts DEF Inv
  <2> DEFINE st == AssignedState(dag.trigger_rule[t], dag.upstream[t] \cap dag.tasks, ti[r])
  <2>3. t \in dag.tasks /\ t \in Task /\ dag.upstream[t] \subseteq dag.tasks /\ ti[r][t] \in unfinished
    BY <1>1, DagFacts DEF Inv, InState
  <2>4. \A u \in dag.upstream[t] : ti[r][u] \in finished
    BY <1>2, <2>2, <2>3
  <2>5. TriggerRuleMet(r, t) \/ st # "none"
    <3>1. IsFiniteSet(dag.upstream[t]) /\ dag.trigger_rule[t] \in Rules /\ dag.upstream[t] \cap dag.tasks = dag.upstream[t]
      BY <2>3, DagFacts DEF Inv
    <3> QED
      BY <2>4, <3>1, FinishedDecides, ZenonT(40) DEF TriggerRuleMet
  <2>6. /\ st # "none" => ~TriggerRuleMet(r, t)
        /\ TriggerRuleMet(r, t) =>
             TriggerRuleDep(dag.trigger_rule[t], dag.upstream[t] \cap dag.tasks, ti[r])
    BY <2>3, DecisionSound
  <2>7. ~TriggerRuleMet(r, t)
    <3>1. ~DependenciesMet(r, t, dag.tasks, prev)
      BY <2>1 DEF RunnableTIs, ArePrematureTIs
    <3>2. PrevDagrunDep(r, t, dag.tasks, prev)
      BY <2>1 DEF PrevDagrunDep
    <3> QED
      BY <2>6, <3>1, <3>2 DEF DependenciesMet
  <2>8. st # "none"
    BY <2>5, <2>7
  <2>9. ti[r][t] \in SCHEDULEABLE_STATES
    BY <2>3, <2>7, ZenonT(40) DEF Inv, Works, unfinished, finished, SCHEDULEABLE_STATES
  <2>10. Assignments(r, InState(dag.tasks, ti[r], SCHEDULEABLE_STATES), dag.tasks)[t] = st
    BY <2>3, <2>9 DEF Assignments, InState
  <2> QED
    BY <2>1, <2>3, <2>8, <2>10 DEF RunnableTIs
<1> QED
  BY <1>3, <1>4

\* A new plan that writes only over what waits spoils no other plan of the transaction.
LEMMA OtherPlansSound ==
  ASSUME Inv, NEW x \in Transaction, NEW r \in Run, NEW plan \in PlanType, x.plan[r] = NoPlan,
         r \notin timed_out,
         plan.state = "timed_out" \/ \A t \in Task : plan.write[t] # "none" => ti[r][t] \in SCHEDULEABLE_STATES,
         NEW q \in Run, q # r, PlanSound(x, q)
  PROVE  PlanSound(Planned(x, r, plan), q)
<1> DEFINE y == Planned(x, r, plan)
<1>1. y.plan[r] = plan /\ \A k \in Run : k # r => y.plan[k] = x.plan[k]
  BY PlannedFacts
<1> HIDE DEF y
<1>2. ASSUME NEW t \in Task, PastSound(x, q, t) PROVE PastSound(y, q, t)
  <2>1. CASE q - 1 \in Run /\ q - 1 # r
    BY <1>1, <1>2, <2>1 DEF PastSound
  <2>2. CASE q - 1 = r
    <3>1. SUFFICES ASSUME t \in dag.depends_on_past, plan.state # "timed_out"
                   PROVE  LET prev == Overridden(ti[r], plan.write)
                          IN  /\ prev[t] \in success_states
                              /\ t \in dag.wait_for_downstream =>
                                   \A d \in downstream(t) : prev[d] \in success_states
      BY <1>1, <2>2 DEF PastSound
    <3>2. LET prev == Overridden(ti[r], NoPlan.write)
          IN  /\ prev[t] \in success_states
              /\ t \in dag.wait_for_downstream => \A d \in downstream(t) : prev[d] \in success_states
      BY <1>2, <2>2, <3>1, NoTxFacts DEF PastSound
    <3>3. \A d \in Task : Overridden(ti[r], NoPlan.write)[d] = ti[r][d]
      BY NoTxFacts DEF Overridden
    <3>4. \A d \in Task : ti[r][d] \in success_states => plan.write[d] = "none"
      BY <3>1 DEF success_states, SCHEDULEABLE_STATES
    <3>5. \A d \in Task : ti[r][d] \in success_states => Overridden(ti[r], plan.write)[d] \in success_states
      BY <3>4 DEF Overridden
    <3>6. downstream(t) \subseteq Task
      BY DagFacts DEF Inv, downstream
    <3> QED
      BY <3>2, <3>3, <3>5, <3>6
  <2> QED
    BY <2>1, <2>2 DEF PastSound
<1>3. \A st : \A t \in Task : WriteSound(x, q, t, st) => WriteSound(y, q, t, st)
  BY <1>2 DEF WriteSound
<1>4. PlanSound(y, q)
  BY <1>1, <1>3 DEF PlanSound
<1> QED
  BY <1>4 DEF y

\* A plan does not see itself in the previous run.
LEMMA OwnPlanSound ==
  ASSUME NEW x \in Transaction, NEW r \in Run, NEW plan \in PlanType, NEW t \in Task, NEW st,
         WriteSound(x, r, t, st)
  PROVE  WriteSound(Planned(x, r, plan), r, t, st)
<1>1. r - 1 # r
  BY DagRunAssumption
<1>2. r - 1 \in Run => Planned(x, r, plan).plan[r - 1] = x.plan[r - 1]
  BY <1>1, PlannedFacts
<1> QED
  BY <1>2 DEF WriteSound, PastSound

\* What a scheduler decides in _schedule_dag_run is right.
LEMMA ScheduleSound ==
  ASSUME Inv, NEW s \in Scheduler, ScheduleDagRun(s), NEW q \in Run
  PROVE  PlanSound(tx'[s], q)
<1>0. /\ s \in Proc /\ TypeOK /\ Works /\ tx[s] \in Transaction /\ tx[s].todo \subseteq Run
      /\ tx \in [Proc -> Transaction] /\ \A k \in Run : PlanSound(tx[s], k)
  BY DEF Inv, Plans, Proc, TypeOK, Transaction
<1>1. PICK r \in tx[s].todo :
         \/ \E X \in CheckedAsPremature(r, PreviousTIs(tx[s], r)) :
              tx' = [tx EXCEPT ![s] = Updated(tx[s], r, X, dag.tasks)]
         \/ dag.dagrun_timeout /\ tx' = [tx EXCEPT ![s] = TimedOut(tx[s], r)]
  BY DEF ScheduleDagRun, Begin
<1>2. r \in Run /\ run[r] = "running" /\ r \notin timed_out /\ tx[s].plan[r] = NoPlan
  BY <1>0 DEF Inv, Runs, Locks
<1>3. ASSUME NEW X \in CheckedAsPremature(r, PreviousTIs(tx[s], r)),
             tx' = [tx EXCEPT ![s] = Updated(tx[s], r, X, dag.tasks)]
      PROVE  PlanSound(tx'[s], q)
  <2> DEFINE T == dag.tasks
             prev == PreviousTIs(tx[s], r)
             R == ReadyTIs(r, T, prev) \cap T
             asked == InState(T, ti[r], SCHEDULEABLE_STATES) \cup X
             write == Writes(R, Assignments(r, asked, T))
             state == NewState(r, prev)
             plan == Plan(write, IF state = run[r] THEN "none" ELSE state)
  <2>1. tx'[s] = Planned(tx[s], r, plan)
    BY <1>0, <1>3, ZenonT(40) DEF Updated
  <2>2. asked \subseteq T /\ \A t \in asked : ti[r][t] \in unfinished
    BY DEF InState, CheckedAsPremature, SCHEDULEABLE_STATES, unfinished
  <2>3. R \subseteq ReadyTIs(r, T, prev) /\ R \subseteq asked
    BY DEF ReadyTIs, InState
  <2>4. T \in SUBSET dag.tasks /\ R \subseteq T /\ \A t \in T : dag.upstream[t] \subseteq T /\ downstream(t) \subseteq T
    BY <1>0, DagFacts DEF downstream
  <2>5. write \in [Task -> Written] /\ state \in {"running", "success", "failed"}
    BY <1>0, <1>2, DecisionTypes, ZenonT(40)
  <2>6. state # "running" => StateSound(r, state)
    BY <1>2, NewStateSound
  <2> HIDE DEF T, R, asked, state
  <2>7. \A t \in Task : write[t] # "none" => WriteSound(tx[s], r, t, write[t])
    <3>1. CheckedOver(tx[s], r, T, asked, R)
      BY <2>2, <2>3, <2>4 DEF CheckedOver
    <3> QED
      BY <1>0, <1>2, <3>1, WritesSound
  <2> HIDE DEF write
  <2>8. /\ plan \in PlanType /\ plan.write = write
        /\ plan.state = IF state = "running" THEN "none" ELSE state
    BY <1>2, <2>5 DEF Plan, PlanType
  <2> HIDE DEF plan
  <2>9. CASE q = r
    <3>1. tx'[s].plan[r] = plan
      BY <1>0, <1>2, <2>1, <2>8, PlannedFacts
    <3>2. StateSound(r, plan.state)
      BY <2>5, <2>6, <2>8 DEF StateSound
    <3>3. \A t \in Task : write[t] # "none" => WriteSound(tx'[s], r, t, write[t])
      BY <1>0, <1>2, <2>1, <2>7, <2>8, OwnPlanSound
    <3> QED
      BY <2>8, <2>9, <3>1, <3>2, <3>3 DEF PlanSound
  <2>10. CASE q # r
    <3>1. \A t \in Task : plan.write[t] # "none" => ti[r][t] \in SCHEDULEABLE_STATES
      BY <2>7, <2>8 DEF WriteSound
    <3> QED
      BY <1>0, <1>2, <2>1, <2>8, <2>10, <3>1, OtherPlansSound
  <2> QED
    BY <2>9, <2>10
<1>4. ASSUME dag.dagrun_timeout, tx' = [tx EXCEPT ![s] = TimedOut(tx[s], r)]
      PROVE  PlanSound(tx'[s], q)
  <2>1. PICK plan \in PlanType : plan.state = "timed_out" /\ tx'[s] = Planned(tx[s], r, plan)
    <3> DEFINE write == [t \in Task |->
                          IF t \in InState(dag.tasks, ti[r], unfinished) THEN "skipped" ELSE "none"]
    <3>1. Plan(write, "timed_out") \in PlanType /\ Plan(write, "timed_out").state = "timed_out"
      BY DEF Plan, PlanType, Written, finished
    <3>2. tx'[s] = Planned(tx[s], r, Plan(write, "timed_out"))
      BY <1>0, <1>4 DEF TimedOut
    <3> QED
      BY <3>1, <3>2, ZenonT(40)
  <2>2. CASE q = r
    <3>1. tx'[s].plan[q].state = "timed_out"
      BY <1>0, <1>2, <2>1, <2>2, PlannedFacts
    <3> QED
      BY <1>4, <3>1 DEF PlanSound, StateSound
  <2>3. CASE q # r
    BY <1>0, <1>2, <2>1, <2>3, OtherPlansSound
  <2> QED
    BY <2>2, <2>3
<1> QED
  BY <1>1, <1>3, <1>4

\* What a mini scheduler decides is right, if its partial DAG cuts nothing.
LEMMA MiniSound ==
  ASSUME Inv, NothingCut, NEW r \in Run, NEW t \in dag.tasks, MiniSchedule(r, t), NEW q \in Run
  PROVE  PlanSound(tx'[<<r, t>>], q)
<1> DEFINE T == PartialSubset(t)
           R == ReadyTIs(r, T, PreviousTIs(NoTx, r)) \cap downstream(t)
           X == InState(T, ti[r], SCHEDULEABLE_STATES)
           write == Writes(R, Assignments(r, X, T))
           plan == Plan(write, "none")
<1>0. /\ TypeOK /\ t \in Task /\ dag.tasks \subseteq Task /\ dag.schedule_after_task_execution
      /\ \A d \in Task : dag.upstream[d] \subseteq dag.tasks
  BY DagFacts DEF Inv, Minis, Job, MiniSchedule, Goto
<1>1. tx'[<<r, t>>] = Planned(NoTx, r, plan)
  <2>1. <<r, t>> \in Proc
    BY <1>0 DEF Proc, Job
  <2> QED
    BY <1>0, <2>1, ZenonT(40) DEF MiniSchedule, Begin, TypeOK
<1>2. T \in SUBSET dag.tasks
  BY <1>0 DEF PartialSubset, downstream
<1>3. /\ \A d \in T : dag.upstream[d] \subseteq T \/ dag.upstream[d] \cap T = {}
      /\ \A d \in R : dag.upstream[d] \subseteq T /\ (d \in dag.wait_for_downstream => downstream(d) \subseteq T)
  BY <1>0 DEF NothingCut, PartialSubset
<1>4. X \subseteq T /\ R \subseteq X /\ R \subseteq ReadyTIs(r, T, PreviousTIs(NoTx, r))
  BY DEF InState, ReadyTIs
<1>5. \A d \in X : ti[r][d] \in unfinished
  BY DEF InState, SCHEDULEABLE_STATES, unfinished
<1>6. plan \in PlanType /\ plan.write = write /\ plan.state = "none"
  <2>1. write \in [Task -> Written]
    BY <1>0, NoTxFacts, DecisionTypes, ZenonT(40)
  <2> QED
    BY <2>1, ZenonT(40) DEF Plan, PlanType
<1> HIDE DEF T, R, X, plan
<1>7. r \notin timed_out => \A d \in Task : write[d] # "none" => WriteSound(NoTx, r, d, write[d])
  <2>1. CheckedOver(NoTx, r, T, X, R)
    BY <1>2, <1>3, <1>4, <1>5, Zenon DEF CheckedOver
  <2> QED
    BY <2>1, NoTxFacts, NoPlanSound, WritesSound
<1> HIDE DEF write
<1>8. CASE q = r
  <2>1. tx'[<<r, t>>].plan[r] = plan
    BY <1>1, <1>6, NoTxFacts, PlannedFacts
  <2>2. r \notin timed_out => \A d \in Task : write[d] # "none" => WriteSound(tx'[<<r, t>>], r, d, write[d])
    BY <1>1, <1>6, <1>7, NoTxFacts, OwnPlanSound
  <2> QED
    BY <1>6, <1>8, <2>1, <2>2 DEF PlanSound, StateSound
<1>9. CASE q # r
  <2>1. tx'[<<r, t>>].plan[q] = NoPlan
    BY <1>1, <1>6, <1>9, NoTxFacts, PlannedFacts
  <2> QED
    BY <2>1, NoTxFacts DEF PlanSound, StateSound
<1> QED
  BY <1>8, <1>9

\* Nobody else ends a run by a timeout while p plans for it.
LEMMA NotTimedOutByOthers ==
  ASSUME Inv, [Next]_vars, ~paused, NEW p \in Proc, tx'[p] = tx[p],
         NEW r \in Run, tx[p].plan[r] # NoPlan, r \notin timed_out
  PROVE  r \notin timed_out'
<1>1. CASE UNCHANGED <<ti, timed_out, executing>>
  BY <1>1
<1>2. ASSUME NEW q \in Run, NEW x \in Task, Execute(q, x) \/ TaskEnds(q, x)
      PROVE  r \notin timed_out'
  BY <1>2, WorkerFacts, Zenon
<1>3. ASSUME NEW q \in Proc, Commit(q), r \in timed_out' PROVE FALSE
  <2>1. tx' = [tx EXCEPT ![q] = NoTx] /\ tx \in [Proc -> Transaction]
    BY <1>3, CommitFacts DEF Inv, TypeOK
  <2>2. q # p
    BY <2>1, NoTxFacts
  <2>3. tx[q].plan[r].state = "timed_out"
    BY <1>3 DEF Commit
  <2>4. tx[q].plan[r] # NoPlan
    BY <2>3, NoTxFacts
  <2> QED
    BY <2>2, <2>4, ZenonT(40) DEF Inv, Locks
<1> QED
  BY <1>1, <1>2, <1>3, Steps

\* A plan stays right while others take their steps.
LEMMA PlanStable ==
  ASSUME Inv, [Next]_vars, ~paused, NEW p \in Proc, tx'[p] = tx[p], NEW r \in Run
  PROVE  PlanSound(tx[p], r)'
<1> DEFINE plan == tx[p].plan[r]
<1>0. /\ dag' = dag /\ timed_out \subseteq timed_out'
      /\ \A q \in Run : q \notin timed_out' => \A t \in Task : ti[q][t] \in finished => ti'[q][t] = ti[q][t]
      /\ dag.tasks \subseteq Task
      /\ \A t \in Task : dag.upstream[t] \subseteq dag.tasks /\ dag.trigger_rule[t] \in Rules
      /\ PlanSound(tx[p], r)
  BY Steps, FinishedStable, DagFacts DEF Inv, Plans
<1>1. success_states \subseteq finished /\ failed_states \subseteq finished
  BY DEF success_states, failed_states, finished
<1>2. CASE plan = NoPlan
  BY <1>2, NoTxFacts, ZenonT(40) DEF PlanSound, StateSound
<1>3. CASE plan # NoPlan
  <2>1. r \notin timed_out => r \notin timed_out'
    BY <1>3, NotTimedOutByOthers
  <2>2. StateSound(r, plan.state)'
    <3>1. StateSound(r, plan.state) /\ (plan.state # "none" => r \notin timed_out)
      BY <1>0 DEF PlanSound, Inv, Runs
    <3>2. leaves' = leaves /\ leaves \subseteq dag.tasks
      BY <1>0 DEF leaves, downstream
    <3>3. plan.state # "none" => \A t \in dag.tasks : ti[r][t] \in finished => ti'[r][t] = ti[r][t]
      BY <1>0, <2>1, <3>1
    <3> QED
      BY <1>0, <1>1, <3>1, <3>2, <3>3, ZenonT(40) DEF StateSound
  <2>3. ASSUME plan.state # "timed_out", r \notin timed_out', NEW t \in Task, plan.write[t] # "none"
        PROVE  WriteSound(tx[p], r, t, plan.write[t])'
    <3>0. WriteSound(tx[p], r, t, plan.write[t]) /\ r \notin timed_out
      BY <1>0, <2>3 DEF PlanSound
    <3>1. ti'[r][t] = ti[r][t]
      BY <1>3, <2>3, <3>0, WaitingHeld DEF WriteSound
    <3>2. \A u \in dag.upstream[t] : ti[r][u] \in finished => ti'[r][u] = ti[r][u]
      BY <1>0, <2>3
    <3>3. TriggerRuleMet(r, t) => TriggerRuleMet(r, t)'
      BY <1>0, <3>2, MetIsStable DEF TriggerRuleMet
    <3>4. Hopeless(dag.trigger_rule[t], dag.upstream[t], ti[r]) =>
            Hopeless(dag.trigger_rule[t], dag.upstream[t], ti'[r])
      BY <1>0, <3>2, HopelessIsStable
    <3>5. PastSound(tx[p], r, t) => PastSound(tx[p], r, t)'
      <4> DEFINE write == tx[p].plan[r - 1].write
      <4>1. SUFFICES ASSUME PastSound(tx[p], r, t), t \in dag.depends_on_past, r - 1 \in Run,
                            r - 1 \notin timed_out', tx[p].plan[r - 1].state # "timed_out"
                     PROVE  /\ Overridden(ti'[r - 1], write)[t] \in success_states
                            /\ t \in dag.wait_for_downstream =>
                                 \A d \in downstream(t) : Overridden(ti'[r - 1], write)[d] \in success_states
        BY <1>0, ZenonT(40) DEF PastSound, downstream
      <4>2. /\ Overridden(ti[r - 1], write)[t] \in success_states
            /\ t \in dag.wait_for_downstream =>
                 \A d \in downstream(t) : Overridden(ti[r - 1], write)[d] \in success_states
        BY <1>0, <4>1 DEF PastSound
      <4> HIDE DEF write
      <4>3. \A d \in Task : ti[r - 1][d] \in success_states => ti'[r - 1][d] \in success_states
        BY <1>0, <1>1, <4>1
      <4>4. \A d \in Task : Overridden(ti[r - 1], write)[d] \in success_states =>
                              Overridden(ti'[r - 1], write)[d] \in success_states
        BY <4>3 DEF Overridden
      <4>5. downstream(t) \subseteq Task
        BY <1>0 DEF downstream
      <4> QED
        BY <4>2, <4>4, <4>5
    <3> QED
      BY <1>0, <3>0, <3>1, <3>3, <3>4, <3>5, ZenonT(40) DEF WriteSound
  <2> QED
    BY <2>2, <2>3 DEF PlanSound
<1> QED
  BY <1>2, <1>3

\* Who decides something in a step.
LEMMA Deciders ==
  ASSUME TypeOK, [Next]_vars, ~paused, NEW p \in Proc
  PROVE  \/ tx'[p] = tx[p] \/ tx'[p].plan = NoTx.plan
         \/ p \in Scheduler /\ ScheduleDagRun(p)
         \/ \E r \in Run, t \in dag.tasks : p = <<r, t>> /\ MiniSchedule(r, t)
<1> USE DEF Goto, given, database, workers, disturbances, Begin
<1>0. /\ tx \in [Proc -> Transaction] /\ Scheduler \subseteq Proc /\ Job \subseteq Proc
      /\ dag.tasks \subseteq Task /\ bounds.schedulers \subseteq Scheduler
  BY DagFacts DEF TypeOK, Proc
<1>1. CASE UNCHANGED vars \/ CreateDagRun \/ TogglePaused
  BY <1>1 DEF vars, CreateDagRun, TogglePaused
<1>2. ASSUME NEW s \in Scheduler, Loop(s) \/ Rollback(s)
      PROVE  tx'[p] = tx[p] \/ tx'[p].plan = NoTx.plan \/ (p = s /\ ScheduleDagRun(s))
  <2>1. CASE LockQueued(s) \/ LockRunning(s)
    BY <1>0, <2>1, ZenonT(40) DEF LockQueued, LockRunning, NoTx
  <2>2. CASE StartQueued(s) \/ Rollback(s)
    BY <1>0, <2>2 DEF StartQueued, Rollback
  <2>3. CASE CommitSchedule(s)
    BY <1>0, <2>3 DEF CommitSchedule, Commit
  <2>4. CASE ScheduleDagRun(s)
    BY <1>0, <2>4, Zenon DEF ScheduleDagRun, Updated, TimedOut
  <2> QED
    BY <1>2, <2>1, <2>2, <2>3, <2>4 DEF Loop
<1>3. ASSUME NEW r \in Run, NEW t \in dag.tasks, Attempt(r, t)
      PROVE  tx'[p] = tx[p] \/ tx'[p].plan = NoTx.plan \/ (p = <<r, t>> /\ MiniSchedule(r, t))
  <2>0. <<r, t>> \in Proc
    BY <1>0 DEF Proc, Job
  <2>1. CASE Execute(r, t) \/ TaskEnds(r, t) \/ RetryDelayElapses(r, t) \/ MiniFails(r, t) \/ Exit(r, t)
    BY <2>1, ZenonT(40) DEF Execute, TaskEnds, RetryDelayElapses, MiniFails, Exit
  <2>2. CASE MiniCommit(r, t) \/ CommitPaused(r, t)
    BY <1>0, <2>0, <2>2, ZenonT(40) DEF MiniCommit, CommitPaused, Commit
  <2>3. CASE MiniSchedule(r, t)
    BY <1>0, <2>0, <2>3, ZenonT(40) DEF MiniSchedule
  <2> QED
    BY <1>3, <2>1, <2>2, <2>3, Zenon DEF Attempt, UpdatePaused
<1> QED
  BY <1>0, <1>1, <1>2, <1>3, ZenonT(40) DEF Next

\* Plans are right when they are made, and stay right.
LEMMA PlansStep ==
  ASSUME Inv, NothingCut, [Next]_vars, ~paused
  PROVE  Plans'
<1>1. SUFFICES ASSUME NEW p \in Proc, NEW r \in Run PROVE PlanSound(tx[p], r)'
  BY DEF Plans
<1>2. CASE tx'[p] = tx[p]
  BY <1>2, PlanStable
<1>3. CASE tx'[p].plan = NoTx.plan
  BY <1>3, NoTxFacts DEF PlanSound, StateSound
<1>4. ASSUME p \in Scheduler, ScheduleDagRun(p) PROVE PlanSound(tx[p], r)'
  <2>1. PlanSound(tx'[p], r)
    BY <1>4, ScheduleSound
  <2>2. UNCHANGED <<dag, ti, timed_out>>
    BY <1>4, ZenonT(40) DEF ScheduleDagRun, database, given
  <2> QED
    BY <2>1, <2>2, ZenonT(40) DEF PlanSound, StateSound, WriteSound, PastSound, TriggerRuleMet, downstream, leaves
<1>5. ASSUME NEW q \in Run, NEW t \in dag.tasks, p = <<q, t>>, MiniSchedule(q, t)
      PROVE  PlanSound(tx[p], r)'
  <2>1. PlanSound(tx'[p], r)
    BY <1>5, MiniSound
  <2>2. UNCHANGED <<dag, ti, timed_out>>
    BY <1>5, Zenon DEF MiniSchedule, database, given
  <2> QED
    BY <2>1, <2>2, Zenon DEF PlanSound, StateSound, WriteSound, PastSound, TriggerRuleMet, downstream, leaves
<1> QED
  BY <1>2, <1>3, <1>4, <1>5, Deciders DEF Inv

\* Only the end of a task starts a mini scheduler.
LEMMA MinisStep ==
  ASSUME Inv, [Next]_vars, ~paused
  PROVE  Minis'
<1> USE DEF Goto, given, database, workers, disturbances
<1>0. /\ pc \in [Proc -> {"loop", "start", "examine", "schedule",
                          "none", "mini", "mini_commit", "exit", "exit_commit"}]
      /\ Minis /\ dag' = dag
  BY Steps DEF Inv, TypeOK
<1>1. SUFFICES ASSUME NEW j \in Job, pc'[j] = "mini" PROVE pc[j] = "mini" \/ dag.schedule_after_task_execution
  BY <1>0 DEF Minis
<1>2. CASE UNCHANGED vars \/ CreateDagRun \/ TogglePaused
  BY <1>1, <1>2 DEF vars, CreateDagRun, TogglePaused
<1>3. ASSUME NEW s \in Scheduler, Loop(s) \/ Rollback(s) PROVE pc[j] = "mini"
  BY <1>0, <1>1, <1>3, ZenonT(40) DEF Loop, Rollback, LockQueued, StartQueued, LockRunning, ScheduleDagRun, CommitSchedule, Proc
<1>4. ASSUME NEW r \in Run, NEW t \in dag.tasks, Attempt(r, t)
      PROVE  pc[j] = "mini" \/ dag.schedule_after_task_execution
  BY <1>0, <1>1, <1>4 DEF Attempt, Execute, TaskEnds, RetryDelayElapses, MiniSchedule, MiniCommit,
                          MiniFails, UpdatePaused, CommitPaused, Exit, Proc
<1>5. bounds.schedulers \subseteq Scheduler
  BY DagFacts DEF Inv
<1> QED
  BY <1>2, <1>3, <1>4, <1>5 DEF Next

\* Initially nobody has planned anything.
LEMMA InvInit == Init => Inv
<1> SUFFICES ASSUME Init PROVE Inv
  OBVIOUS
<1>1. TypeOK
  BY TypeInit
<1>2. Locks /\ Runs /\ Plans
  BY NoTxFacts, Zenon DEF Init, Locks, Runs, Plans, PlanSound, StateSound
<1>3. Works
  BY DEF Init, Works
<1>4. Minis
  BY DEF Init, Minis, Proc
<1> QED
  BY <1>1, <1>2, <1>3, <1>4 DEF Inv

-----------------------------------------------------------------------------
(* While the DAG is not paused, and when no mini scheduler loses sight of  *)
(* a task that matters to it: whoever has decided on a run holds its lock, *)
(* and what it is going to write is still right when it commits.           *)
THEOREM DagRunInvariant == Spec /\ [](~paused /\ NothingCut) => []Inv
<1>1. Init => Inv
  BY InvInit
<1>2. Inv /\ (~paused /\ NothingCut) /\ [Next]_vars => Inv'
  <2> SUFFICES ASSUME Inv, ~paused, NothingCut, [Next]_vars PROVE Inv'
    OBVIOUS
  <2>1. TypeOK'
    BY TypeStep DEF Inv
  <2> QED
    BY <2>1, LocksStep, RunsStep, WorksStep, PlansStep, MinisStep DEF Inv
<1> QED
  BY <1>1, <1>2, PTL DEF Spec

=============================================================================
