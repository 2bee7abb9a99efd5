--------------------------- MODULE DagRunTheorems ---------------------------
(***************************************************************************)
(* Any number of schedulers and mini schedulers keep the promise of        *)
(* DagRunPromise, for every DAG and any number of runs: every step of      *)
(* DagRunScheduling is a step of it, or changes nothing that it speaks of. *)
(* And a single scheduler keeps to max_active_runs.                        *)
(***************************************************************************)
EXTENDS DagRunMapping, DagRunProofs

\* The promise speaks of trigger rules as the module TriggerRule does.
LEMMA SameRules ==
  /\ Promise!finished = finished
  /\ Promise!success_states = success_states /\ Promise!failed_states = failed_states
  /\ \A rule, U, st : Promise!Met(rule, U, st) <=> Met(rule, U, st)
  /\ \A rule, U, st : Promise!Hopeless(rule, U, st) <=> Hopeless(rule, U, st)
<1>1. /\ Promise!finished = finished
      /\ Promise!success_states = success_states /\ Promise!failed_states = failed_states
  BY DEF Promise!finished, finished, Promise!success_states, success_states,
         Promise!failed_states, failed_states
<1>2. \A rule, U, st : Promise!Met(rule, U, st) <=> Met(rule, U, st)
  BY <1>1 DEF Promise!Met, Met
<1>3. \A U, st : Promise!Outcomes(U, st) = Outcomes(U, st)
  BY <1>1 DEF Promise!Outcomes, Outcomes
<1> QED
  BY <1>1, <1>2, <1>3 DEF Promise!Hopeless, Hopeless

\* The abstract state of the task instances.
LEMMA AbstractFacts ==
  /\ \A st \in finished : Abstract(st) = st
  /\ \A st \in SCHEDULEABLE_STATES : Abstract(st) = "waiting"
  /\ Abstract("scheduled") = "executing" /\ Abstract("running") = "executing"
  /\ Abstract("up_for_retry") = "waiting"
BY DEF Abstract, finished, SCHEDULEABLE_STATES

\* A run changes its state as promised.
LEMMA RunsAsPromised ==
  ASSUME Inv, [Next]_vars, ~paused, NEW r \in Run
  PROVE  /\ r \in timed_out' \ timed_out =>
              dag.dagrun_timeout /\ run[r] = "running" /\ run'[r] = "failed"
         /\ \/ r \in timed_out' \/ run'[r] = run[r]
            \/ run[r] = "none" /\ run'[r] = "queued"
            \/ run[r] = "queued" /\ run'[r] = "running"
            \/ run[r] = "running" /\ run'[r] \in {"success", "failed"} /\ StateSound(r, run'[r])
<1> USE DEF Goto, given, database, workers, disturbances
<1> DEFINE Goal == /\ r \in timed_out' \ timed_out =>
                        dag.dagrun_timeout /\ run[r] = "running" /\ run'[r] = "failed"
                   /\ \/ r \in timed_out' \/ run'[r] = run[r]
                      \/ run[r] = "none" /\ run'[r] = "queued"
                      \/ run[r] = "queued" /\ run'[r] = "running"
                      \/ run[r] = "running" /\ run'[r] \in {"success", "failed"} /\ StateSound(r, run'[r])
<1>0. /\ TypeOK /\ Runs /\ Plans /\ Scheduler \subseteq Proc /\ Job \subseteq Proc
      /\ dag.tasks \subseteq Task /\ bounds.schedulers \subseteq Scheduler
  BY DagFacts DEF Inv, Proc
<1>1. CASE UNCHANGED <<run, timed_out>>
  BY <1>1
<1>2. ASSUME NEW p \in Proc, Commit(p) PROVE Goal
  <2> DEFINE state == tx[p].plan[r].state
  <2>1. StateSound(r, state) /\ (state # "none" => run[r] = "running")
    BY <1>0 DEF Plans, PlanSound, Runs
  <2>2. state \in {"none", "running", "success", "failed", "timed_out"}
    BY <1>0 DEF TypeOK, Transaction
  <2>3. /\ state = "none" => run'[r] = run[r]
        /\ state = "timed_out" => run'[r] = "failed" /\ r \in timed_out'
        /\ state \notin {"none", "timed_out"} => run'[r] = state
    BY <1>0, <1>2, CommitFacts
  <2>4. r \in timed_out' \ timed_out => state = "timed_out"
    BY <1>2 DEF Commit
  <2>5. state # "running" /\ (state = "timed_out" => dag.dagrun_timeout)
    BY <2>1 DEF StateSound
  <2> HIDE DEF state
  <2> QED
    BY <2>1, <2>2, <2>3, <2>4, <2>5, ZenonT(40)
<1>3. CASE CreateDagRun
  BY <1>0, <1>3 DEF CreateDagRun, TypeOK
<1>4. ASSUME NEW s \in Scheduler, Loop(s) \/ Rollback(s) PROVE Goal
  <2>1. CASE StartQueued(s)
    BY <1>0, <2>1 DEF StartQueued, Startable, Runs
  <2>2. CASE CommitSchedule(s)
    BY <1>0, <1>2, <2>2 DEF CommitSchedule
  <2>3. CASE LockQueued(s) \/ LockRunning(s) \/ ScheduleDagRun(s) \/ Rollback(s)
    BY <2>3 DEF LockQueued, LockRunning, ScheduleDagRun, Rollback
  <2> QED
    BY <1>4, <2>1, <2>2, <2>3 DEF Loop
<1>5. ASSUME NEW q \in Run, NEW t \in dag.tasks, Attempt(q, t) PROVE Goal
  <2>1. CASE MiniCommit(q, t) \/ CommitPaused(q, t)
    <3>1. <<q, t>> \in Proc
      BY <1>0, ZenonT(40) DEF Proc, Job
    <3> QED
      BY <1>2, <2>1, <3>1 DEF MiniCommit, CommitPaused
  <2>2. CASE \/ Execute(q, t) \/ TaskEnds(q, t) \/ RetryDelayElapses(q, t)
             \/ MiniSchedule(q, t) \/ MiniFails(q, t) \/ Exit(q, t)
    BY <2>2 DEF Execute, TaskEnds, RetryDelayElapses, MiniSchedule, MiniFails, Exit
  <2> QED
    BY <1>5, <2>1, <2>2 DEF Attempt, UpdatePaused
<1>6. CASE UNCHANGED vars \/ TogglePaused
  BY <1>6 DEF vars, TogglePaused
<1> QED
  BY <1>0, <1>1, <1>3, <1>4, <1>5, <1>6, ZenonT(40) DEF Next

\* A task instance changes its state as promised.
LEMMA TasksAsPromised ==
  ASSUME Inv, [Next]_vars, ~paused, NEW r \in Run, r \notin timed_out', NEW t \in Task,
         ti'[r][t] # ti[r][t]
  PROVE  \/ ti[r][t] = "scheduled" /\ ti'[r][t] = "running"
         \/ ti[r][t] = "running" /\ ti'[r][t] \in {"success", "failed", "skipped", "up_for_retry"}
         \/ \E p \in Proc : Commit(p) /\ WriteSound(tx[p], r, t, ti'[r][t])
<1>1. ASSUME NEW p \in Proc, Commit(p) PROVE WriteSound(tx[p], r, t, ti'[r][t])
  BY <1>1, CommitSound
<1>2. ASSUME NEW q \in Run, NEW x \in Task, Execute(q, x) \/ TaskEnds(q, x)
      PROVE  \/ ti[r][t] = "scheduled" /\ ti'[r][t] = "running"
             \/ ti[r][t] = "running" /\ ti'[r][t] \in {"success", "failed", "skipped", "up_for_retry"}
  <2>1. /\ timed_out' = timed_out
        /\ \A k \in Run, y \in Task : k # q \/ y # x =>
             ti'[k][y] = ti[k][y] /\ (<<k, y>> \in executing' => <<k, y>> \in executing)
        /\ \/ ti[q][x] = "scheduled" /\ ti'[q][x] = "running"
           \/ /\ q \in timed_out \/ ti[q][x] = "running"
              /\ <<q, x>> \notin executing' /\ ti'[q][x] \in {"success", "failed", "skipped", "up_for_retry"}
    BY <1>2, WorkerFacts
  <2>2. q = r /\ x = t
    BY <2>1, Zenon
  <2> QED
    BY <2>1, <2>2
<1> QED
  BY <1>1, <1>2, Steps

\* The previous run still allows t when the decision is committed.
LEMMA PastAsPromised ==
  ASSUME Inv, [Next]_vars, ~paused, NEW r \in Run, NEW t \in Task,
         NEW p \in Proc, Commit(p), PastSound(tx[p], r, t)
  PROVE  Promise!PastAllows(r, t)
<1>0. /\ dag' = dag /\ timed_out \subseteq timed_out' /\ dag.tasks \subseteq Task /\ TypeOK
      /\ \A q \in Run : q \notin timed_out' => \A d \in Task : ti[q][d] \in finished => ti'[q][d] = ti[q][d]
  BY Steps, FinishedStable, DagFacts DEF Inv
<1>1. success_states \subseteq finished /\ Promise!success_states = success_states
  BY SameRules DEF success_states, finished
<1>2. Promise!downstream(dag, t) = downstream(t) /\ downstream(t) \subseteq Task
  BY <1>0 DEF Promise!downstream, downstream
<1>3. SUFFICES ASSUME t \in dag.depends_on_past, r - 1 \in Run, r - 1 \notin timed_out'
               PROVE  /\ Abstract(ti'[r - 1][t]) \in success_states
                      /\ t \in dag.wait_for_downstream =>
                           \A d \in downstream(t) : Abstract(ti'[r - 1][d]) \in success_states
  BY <1>1, <1>2, ZenonT(40) DEF Promise!PastAllows
<1>4. tx[p].plan[r - 1].state # "timed_out"
  BY <1>0, <1>3, CommitFacts, ZenonT(40)
<1>5. LET prev == Overridden(ti[r - 1], tx[p].plan[r - 1].write)
      IN  /\ prev[t] \in success_states
          /\ t \in dag.wait_for_downstream => \A d \in downstream(t) : prev[d] \in success_states
  BY <1>0, <1>3, <1>4 DEF PastSound
<1>6. ti'[r - 1] = Overridden(ti[r - 1], tx[p].plan[r - 1].write)
  BY <1>3 DEF Commit
<1> QED
  BY <1>1, <1>5, <1>6, AbstractFacts, ZenonT(40)

\* Every step is one that the promise allows.
LEMMA StepAsPromised ==
  ASSUME Inv, [Next]_vars, ~paused
  PROVE  Promise!Next
<1> DEFINE abstract == [r \in Run |-> [t \in Task |-> Abstract(ti[r][t])]]
<1>0. /\ dag' = dag /\ timed_out \subseteq timed_out' /\ timed_out' \subseteq Run /\ dag.tasks \subseteq Task
      /\ \A t \in Task : dag.upstream[t] \subseteq dag.tasks /\ dag.trigger_rule[t] \in Rules
  BY Steps, FinishedStable, DagFacts, TypeStep, ZenonT(40) DEF Inv, TypeOK
<1>1. \A r \in timed_out' \ timed_out : dag.dagrun_timeout /\ run[r] = "running" /\ run'[r] = "failed"
  BY <1>0, RunsAsPromised
<1>2. ASSUME NEW r \in Run PROVE r \in timed_out' \/ run'[r] = run[r] \/ Promise!RunStep(r)
  <2>1. ASSUME run[r] = "running", run'[r] \in {"success", "failed"}, StateSound(r, run'[r])
        PROVE  Promise!RunStep(r)
    <3>1. Promise!leaves(dag) = leaves /\ leaves \subseteq dag.tasks
      BY DEF Promise!leaves, leaves, Promise!downstream, downstream
    <3>2. \A t \in dag.tasks : ti[r][t] \in finished /\ abstract[r][t] = ti[r][t]
      BY <1>0, <2>1, AbstractFacts, ZenonT(40) DEF StateSound
    <3>3. Promise!Done(r)
      BY <3>2, SameRules DEF Promise!Done
    <3>4. run'[r] = "success" => \A t \in Promise!leaves(dag) : abstract[r][t] \in Promise!success_states
      BY <2>1, <3>1, <3>2, SameRules DEF StateSound
    <3>5. run'[r] = "failed" => \E t \in Promise!leaves(dag) : abstract[r][t] \in Promise!failed_states
      BY <2>1, <3>1, <3>2, SameRules DEF StateSound
    <3> QED
      BY <2>1, <3>3, <3>4, <3>5 DEF Promise!RunStep
  <2> QED
    BY <2>1, RunsAsPromised DEF Promise!RunStep
<1>3. ASSUME NEW r \in Run, NEW t \in Task
      PROVE  r \in timed_out' \/ abstract'[r][t] = abstract[r][t] \/ Promise!TaskStep(r, t)
  <2>0. abstract[r][t] = Abstract(ti[r][t]) /\ abstract'[r][t] = Abstract(ti'[r][t])
    OBVIOUS
  <2>1. CASE r \in timed_out' \/ ti'[r][t] = ti[r][t]
    BY <2>0, <2>1
  <2>2. CASE ti[r][t] = "scheduled" /\ ti'[r][t] = "running"
    BY <2>0, <2>2, AbstractFacts, ZenonT(40)
  <2>3. CASE ti[r][t] = "running" /\ ti'[r][t] \in {"success", "failed", "skipped", "up_for_retry"}
    <3>1. abstract[r][t] = "executing" /\ abstract'[r][t] \in {"success", "failed", "skipped", "waiting"}
      BY <2>0, <2>3, AbstractFacts DEF finished
    <3> QED
      BY <3>1 DEF Promise!TaskStep
  <2>4. ASSUME NEW p \in Proc, Commit(p), WriteSound(tx[p], r, t, ti'[r][t])
        PROVE  Promise!TaskStep(r, t)
    <3>1. abstract[r][t] = "waiting"
      BY <2>0, <2>4, AbstractFacts DEF WriteSound
    <3>2. \A u \in dag.upstream[t] : ti[r][u] \in finished => abstract[r][u] = ti[r][u]
      BY <1>0, AbstractFacts, ZenonT(40)
    <3>3. CASE /\ ti'[r][t] \in {"upstream_failed", "skipped"}
               /\ Hopeless(dag.trigger_rule[t], dag.upstream[t], ti[r])
      <4>1. Hopeless(dag.trigger_rule[t], dag.upstream[t], abstract[r])
        BY <1>0, <3>2, <3>3, HopelessIsStable, ZenonT(40)
      <4>2. abstract'[r][t] \in {"upstream_failed", "skipped"}
        BY <2>0, <3>3, AbstractFacts, ZenonT(40) DEF finished
      <4> QED
        BY <3>1, <4>1, <4>2, SameRules, ZenonT(40) DEF Promise!TaskStep
    <3>4. CASE /\ ti'[r][t] = "scheduled" \/ (ti'[r][t] = "success" /\ t \in dag.dummy)
               /\ TriggerRuleMet(r, t) /\ PastSound(tx[p], r, t)
      <4>1. Met(dag.trigger_rule[t], dag.upstream[t], abstract[r])
        BY <1>0, <3>2, <3>4, MetIsStable, ZenonT(40) DEF TriggerRuleMet
      <4>2. Promise!DependenciesMet(r, t)
        BY <2>4, <3>4, <4>1, SameRules, PastAsPromised, ZenonT(40) DEF Promise!DependenciesMet
      <4>3. abstract'[r][t] = "executing" \/ (abstract'[r][t] = "success" /\ t \in dag.dummy)
        BY <2>0, <3>4, AbstractFacts DEF finished
      <4> QED
        BY <3>1, <4>2, <4>3, ZenonT(40) DEF Promise!TaskStep
    <3> QED
      BY <2>4, <3>3, <3>4 DEF WriteSound
  <2> QED
    BY <2>1, <2>2, <2>3, <2>4, TasksAsPromised, ZenonT(40)
<1> QED
  BY <1>0, <1>1, <1>2, <1>3, ZenonT(40) DEF Promise!Next

(* DagRunScheduling implements DagRunPromise: for every DAG, any number of *)
(* runs, of schedulers and of mini schedulers, with rollbacks, retries and *)
(* timeouts, while the DAG is not paused and when no mini scheduler loses  *)
(* sight of a task that matters to it, tasks are started only when their   *)
(* dependencies are met, given up only when these never will be, and runs  *)
(* end only when all is done.                                              *)
THEOREM KeepsPromise == Spec /\ [](~paused /\ NothingCut) => PromiseKept
<1>1. Init => Promise!Init
  <2> SUFFICES ASSUME Init PROVE Promise!Init
    OBVIOUS
  <2>1. \A r \in Run, t \in Task : Abstract(ti[r][t]) = "waiting"
    BY AbstractFacts DEF Init, SCHEDULEABLE_STATES
  <2> QED
    BY <2>1 DEF Init, Promise!Init
<1>2. Inv /\ (~paused /\ NothingCut) /\ [Next]_vars => [Promise!Next]_(Promise!vars)
  BY StepAsPromised
<1>3. Spec /\ [](~paused /\ NothingCut) => []Inv
  BY DagRunInvariant
<1> QED
  BY <1>1, <1>2, <1>3, PTL DEF Spec, PromiseKept, Promise!Spec

(* While the DAG is not paused, a run that dagrun_timeout has ended stays  *)
(* FAILED, for every DAG and any number of schedulers, and whatever its    *)
(* tasks and their mini schedulers still do: no transaction that decided   *)
(* on the run before is left to commit, and none looks at it again.        *)
THEOREM KeepsTimedOut == Spec /\ []~paused => []TimedOutFails
<1> DEFINE I == TypeOK /\ Locks /\ Runs
<1>1. Init => I
  BY TypeInit, NoTxFacts, Zenon DEF Init, Locks, Runs
<1>2. I /\ ~paused /\ [Next]_vars => I'
  <2> SUFFICES ASSUME TypeOK, Locks, Runs, ~paused, [Next]_vars PROVE I'
    OBVIOUS
  <2> QED
    BY TypeStep, LocksStep, RunsStep
<1>3. I => TimedOutFails
  BY DEF Runs, TimedOutFails
<1> QED
  BY <1>1, <1>2, <1>3, PTL DEF Spec

-----------------------------------------------------------------------------
(* max_active_runs.                                                        *)

\* The oldest of the runs L, as many as make up m together with a others.
LEMMA OldestFit ==
  ASSUME NEW L \in SUBSET Run, NEW a \in Nat, NEW m \in Nat, a <= m,
         NEW S, S = {r \in L : a + Cardinality({q \in L : q < r}) < m}
  PROVE  IsFiniteSet(S) /\ Cardinality(S) \in Nat /\ a + Cardinality(S) <= m
<1> DEFINE before(r) == {q \in L : q < r}
           c(r) == Cardinality(before(r))
           left(r) == Cardinality(L) - c(r)
           X == {left(r) : r \in S}
           R == {ss \in Nat \X Nat : ss[1] < ss[2]}
<1>1. /\ IsFiniteSet(L) /\ Cardinality(L) \in Nat /\ L \subseteq Nat
      /\ IsFiniteSet(S) /\ Cardinality(S) \in Nat /\ S \subseteq L
  <2>1. S \subseteq L /\ L \subseteq Nat /\ IsFiniteSet(L)
    BY DagRunAssumption, FS_Subset, ZenonT(40)
  <2> QED
    BY <2>1, FS_Subset, FS_CardinalityType, ZenonT(40)
<1>2. ASSUME NEW r PROVE IsFiniteSet(before(r)) /\ c(r) \in Nat /\ c(r) <= Cardinality(L)
  <2>1. before(r) \subseteq L
    OBVIOUS
  <2> HIDE DEF before
  <2> QED
    BY <1>1, <2>1, FS_Subset, FS_CardinalityType
<1>3. ASSUME NEW r \in L, NEW q \in L, r < q PROVE c(r) + 1 <= c(q)
  <2>0. r \in Nat /\ q \in Nat /\ r \in before(q) /\ r \notin before(r)
    BY <1>1, <1>3
  <2>1. ASSUME NEW x \in before(r) PROVE x \in before(q)
    <3>1. x \in L /\ x \in Nat /\ x < r
      BY <1>1, <2>1, Zenon
    <3> QED
      BY <1>3, <2>0, <3>1
  <2>2. IsFiniteSet(before(r)) /\ IsFiniteSet(before(q)) /\ c(r) \in Nat /\ c(q) \in Nat
    BY <1>2, Zenon
  <2> HIDE DEF before
  <2>3. Cardinality(before(r) \cup {r}) = c(r) + 1
    BY <2>0, <2>2, FS_AddElement, ZenonT(40)
  <2>4. before(r) \cup {r} \subseteq before(q)
    BY <2>0, <2>1, Zenon
  <2> QED
    BY <2>2, <2>3, <2>4, FS_Subset
<1>4. CASE S = {}
  <2>1. Cardinality(S) = 0
    BY <1>4, FS_EmptySet, Zenon
  <2> QED
    BY <1>1, <2>1
<1>5. CASE S # {}
  <2>1. ASSUME NEW r PROVE left(r) \in Nat
    <3>1. c(r) \in Nat /\ c(r) <= Cardinality(L)
      BY <1>2, Zenon
    <3> HIDE DEF c
    <3> QED
      BY <1>1, <3>1
  <2>2. IsWellFoundedOn(R, Nat)
    BY NatLessThanWellFounded DEF OpToRel
  <2>3. X \subseteq Nat /\ X # {}
    <3> HIDE DEF left
    <3> QED
      BY <1>5, <2>1, ZenonT(40)
  <2>4. PICK x \in X : \A y \in X : ~(<<y, x>> \in R)
    BY <2>2, <2>3, WFMin, Zenon
  <2>5. PICK r \in S : x = left(r)
    BY <2>4, Zenon
  <2>6. ASSUME NEW q \in S, r < q PROVE FALSE
    <3>1. left(q) \in X /\ left(q) \in Nat /\ left(r) \in Nat
      BY <2>1, Zenon
    <3>2. ~(left(q) < left(r))
      BY <2>4, <2>5, <3>1, Zenon
    <3>3. c(r) + 1 <= c(q) /\ c(r) \in Nat /\ c(q) \in Nat
      BY <1>1, <1>2, <1>3, <2>6, Zenon
    <3> HIDE DEF c
    <3> QED
      BY <1>1, <3>2, <3>3
  <2>7. ASSUME NEW q \in S \ {r} PROVE q \in before(r)
    <3>1. q \in L /\ q \in Nat /\ r \in Nat /\ q # r /\ ~(r < q)
      BY <1>1, <2>5, <2>6, <2>7, Zenon
    <3> QED
      BY <3>1
  <2>8. IsFiniteSet(before(r)) /\ c(r) \in Nat /\ a + c(r) < m
    BY <1>2, <2>5
  <2> HIDE DEF before
  <2>9. S \ {r} \subseteq before(r)
    BY <2>7, Zenon
  <2>10. Cardinality(S \ {r}) <= c(r) /\ Cardinality(S \ {r}) = Cardinality(S) - 1
    BY <1>1, <2>5, <2>8, <2>9, FS_Subset, FS_RemoveElement, ZenonT(40)
  <2> QED
    BY <1>1, <2>8, <2>10
<1> QED
  BY <1>4, <1>5

(* A single scheduler has not more runs running than it may, and while it  *)
(* starts runs not more than it has counted.                               *)
Counted ==
  \A s \in Scheduler :
    bounds.schedulers = {s} /\ dag.max_active_runs # 0 =>
      /\ Cardinality(RunningRuns) <= dag.max_active_runs
      /\ pc[s] = "start" =>
           Cardinality(RunningRuns) <= tx[s].active /\ tx[s].active <= dag.max_active_runs

\* The numbers that are compared.
LEMMA CountedFacts ==
  ASSUME TypeOK
  PROVE  /\ dag.max_active_runs \in Nat
         /\ RunningRuns \subseteq Run /\ IsFiniteSet(RunningRuns) /\ Cardinality(RunningRuns) \in Nat
         /\ \A s \in Scheduler : tx[s].active \in Nat /\ tx[s].locked \in SUBSET Run
<1>1. WellFormed(dag)
  BY DagRunAssumption DEF TypeOK
<1>2. RunningRuns \subseteq Run
  BY DEF RunningRuns
<1>3. \A s \in Scheduler : tx[s] \in Transaction
  BY DEF TypeOK, Proc
<1> QED
  BY <1>1, <1>2, <1>3, DagRunAssumption, FS_Subset, FS_CardinalityType, ZenonT(40) DEF WellFormed, Transaction

\* Counted holds after a step by which no run starts.
LEMMA CountedFrom ==
  ASSUME TypeOK, Counted, UNCHANGED given, RunningRuns' \subseteq RunningRuns,
         \A s \in Scheduler : pc'[s] = "start" =>
            \/ pc[s] = "start" /\ tx'[s].active = tx[s].active
            \/ tx'[s].active = Cardinality(RunningRuns)
  PROVE  Counted'
<1>1. /\ IsFiniteSet(RunningRuns) /\ Cardinality(RunningRuns) \in Nat /\ dag.max_active_runs \in Nat
      /\ \A s \in Scheduler : tx[s].active \in Nat
  BY CountedFacts
<1>2. Cardinality(RunningRuns') \in Nat /\ Cardinality(RunningRuns') <= Cardinality(RunningRuns)
  BY <1>1, FS_Subset, FS_CardinalityType
<1>3. dag' = dag /\ bounds' = bounds
  BY DEF given
<1> QED
  BY <1>1, <1>2, <1>3 DEF Counted

(* Every step of the DAG keeps Counted while it is not paused: only        *)
(* StartQueued starts runs, and what is started was queued.                *)
LEMMA CountedStep ==
  ASSUME TypeOK, Locks, Runs, Counted, [Next]_vars, ~paused
  PROVE  Counted'
<1> USE DEF Goto, given, database, workers, disturbances
<1>0. /\ TypeOK /\ Runs /\ Scheduler \subseteq Proc /\ Scheduler \cup Job = Proc
      /\ pc \in [Proc -> {"loop", "start", "examine", "schedule",
                          "none", "mini", "mini_commit", "exit", "exit_commit"}]
      /\ run \in [Run -> DagRunState \cup {"none"}] /\ DOMAIN tx = Proc
  BY DEF TypeOK, Proc
<1>1. ASSUME UNCHANGED <<dag, bounds, run, tx>>, \A s \in Scheduler : pc'[s] = "start" => pc[s] = "start"
      PROVE  Counted'
  BY <1>1, CountedFrom DEF RunningRuns
<1>2. ASSUME NEW p \in Proc, Commit(p), UNCHANGED <<dag, bounds>>,
             \A s \in Scheduler : pc'[s] = "start" => s # p /\ pc[s] = "start"
      PROVE  Counted'
  <2>1. \A r \in Run : run'[r] = "running" => run[r] = "running"
    BY <1>0, <1>2, CommitFacts DEF Runs
  <2>2. RunningRuns' \subseteq RunningRuns
    BY <2>1, ZenonT(40) DEF RunningRuns
  <2>3. \A s \in Scheduler : s # p => tx'[s] = tx[s]
    BY <1>0, <1>2, CommitFacts
  <2> QED
    BY <1>2, <2>2, <2>3, CountedFrom, ZenonT(40)
<1>3. ASSUME NEW s \in bounds.schedulers, LockQueued(s) PROVE Counted'
  <2>1. UNCHANGED <<dag, bounds, run>> /\ pc' = [pc EXCEPT ![s] = "start"] /\ s \in Scheduler
    BY <1>3, DagFacts DEF LockQueued
  <2>2. tx'[s].active = Cardinality(RunningRuns) /\ \A q \in Scheduler : q # s => tx'[q] = tx[q]
    BY <1>0, <1>3, <2>1 DEF LockQueued, Begin, NoTx
  <2>3. \A q \in Scheduler : pc'[q] = "start" => q = s \/ pc[q] = "start"
    BY <1>0, <2>1
  <2>4. RunningRuns' = RunningRuns
    BY <2>1 DEF RunningRuns
  <2> QED
    BY <2>1, <2>2, <2>3, <2>4, CountedFrom, ZenonT(40)
<1>4. ASSUME NEW s \in bounds.schedulers, StartQueued(s) PROVE Counted'
  <2>1. /\ UNCHANGED <<dag, bounds>> /\ pc[s] = "start" /\ pc'[s] = "examine" /\ s \in Scheduler
        /\ run' = [r \in Run |-> IF r \in Startable(tx[s]) THEN "running" ELSE run[r]]
    BY <1>0, <1>4, DagFacts DEF StartQueued
  <2>2. ASSUME bounds.schedulers = {s}, dag.max_active_runs # 0
        PROVE  Cardinality(RunningRuns') <= dag.max_active_runs
    <3> DEFINE x == tx[s]
               m == dag.max_active_runs
    <3>1. /\ m \in Nat /\ IsFiniteSet(RunningRuns) /\ Cardinality(RunningRuns) \in Nat
          /\ x.active \in Nat /\ x.locked \in SUBSET Run
      BY <2>1, CountedFacts
    <3>2. Cardinality(RunningRuns) <= x.active /\ x.active <= m
      BY <2>1, <2>2 DEF Counted
    <3>3. Startable(x) = {r \in x.locked : x.active + Cardinality({q \in x.locked : q < r}) < m}
      BY <2>2 DEF Startable
    <3>4. IsFiniteSet(Startable(x)) /\ Cardinality(Startable(x)) \in Nat /\ x.active + Cardinality(Startable(x)) <= m
      BY <3>1, <3>2, <3>3, OldestFit, ZenonT(40)
    <3>5. RunningRuns' = RunningRuns \cup Startable(x)
      BY <2>1, <3>1, <3>3 DEF RunningRuns
    <3>6. RunningRuns \cap Startable(x) = {}
      BY <1>0, <2>1, <3>3, ZenonT(40) DEF RunningRuns, Runs
    <3> HIDE DEF x, m
    <3>7. Cardinality(RunningRuns \cup Startable(x))
            = Cardinality(RunningRuns) + Cardinality(Startable(x)) - Cardinality(RunningRuns \cap Startable(x))
      BY <3>1, <3>4, FS_Union, ZenonT(40)
    <3>8. Cardinality(RunningRuns \cap Startable(x)) = 0
      BY <3>6, FS_EmptySet
    <3>9. Cardinality(RunningRuns') <= m
      BY <3>1, <3>2, <3>4, <3>5, <3>7, <3>8
    <3> QED
      BY <3>9 DEF m
  <2> QED
    BY <2>1, <2>2 DEF Counted
<1>5. ASSUME NEW s \in bounds.schedulers, Loop(s) \/ Rollback(s) PROVE Counted'
  <2>0. s \in Scheduler /\ s \in Proc
    BY <1>0, DagFacts
  <2>1. CASE CommitSchedule(s)
    BY <1>0, <1>2, <2>0, <2>1, ZenonT(40) DEF CommitSchedule
  <2>2. CASE LockRunning(s) \/ ScheduleDagRun(s) \/ Rollback(s)
    <3>1. UNCHANGED <<dag, bounds, run>> /\ \A q \in Scheduler : q # s => tx'[q] = tx[q] /\ pc'[q] = pc[q]
      BY <1>0, <2>0, <2>2, Zenon DEF LockRunning, ScheduleDagRun, Rollback, Begin
    <3>2. pc'[s] # "start"
      BY <1>0, <2>0, <2>2 DEF LockRunning, ScheduleDagRun, Rollback
    <3>3. RunningRuns' = RunningRuns
      BY <3>1, ZenonT(40) DEF RunningRuns
    <3> QED
      BY <3>1, <3>2, <3>3, CountedFrom, ZenonT(40)
  <2> QED
    BY <1>3, <1>4, <1>5, <2>1, <2>2, ZenonT(40) DEF Loop
<1>6. ASSUME NEW r \in Run, NEW t \in dag.tasks, Attempt(r, t) PROVE Counted'
  <2>0. <<r, t>> \in Proc
    BY DagFacts, ZenonT(40) DEF Proc, Job
  <2>1. CASE MiniCommit(r, t) \/ CommitPaused(r, t)
    <3>1. \A s \in Scheduler : pc'[s] = "start" => s # <<r, t>> /\ pc[s] = "start"
      BY <1>0, <2>0, <2>1 DEF MiniCommit, CommitPaused
    <3> QED
      BY <1>2, <2>0, <2>1, <3>1, ZenonT(40) DEF MiniCommit, CommitPaused
  <2>2. CASE Execute(r, t) \/ TaskEnds(r, t) \/ RetryDelayElapses(r, t) \/ MiniFails(r, t) \/ Exit(r, t)
    <3>1. UNCHANGED <<dag, bounds, run, tx>>
      BY <2>2, ZenonT(40) DEF Execute, TaskEnds, RetryDelayElapses, MiniFails, Exit
    <3>2. \A s \in Scheduler : pc'[s] = "start" => pc[s] = "start"
      BY <1>0, <2>0, <2>2, ZenonT(40) DEF Execute, TaskEnds, RetryDelayElapses, MiniFails, Exit
    <3> QED
      BY <1>1, <3>1, <3>2, ZenonT(40)
  <2>3. CASE MiniSchedule(r, t)
    <3>1. UNCHANGED <<dag, bounds, run>> /\ pc' = [pc EXCEPT ![<<r, t>>] = "mini_commit"]
      BY <2>3 DEF MiniSchedule
    <3>2. \A s \in Scheduler : s # <<r, t>> => tx'[s] = tx[s]
      BY <1>0, <2>0, <2>3, Zenon DEF MiniSchedule, Begin
    <3>3. \A s \in Scheduler : pc'[s] = "start" => s # <<r, t>> /\ pc[s] = "start"
      BY <1>0, <2>0, <3>1
    <3>4. RunningRuns' = RunningRuns
      BY <3>1, ZenonT(40) DEF RunningRuns
    <3> QED
      BY <3>1, <3>2, <3>3, <3>4, CountedFrom, ZenonT(40)
  <2>4. ~UpdatePaused(r, t)
    BY DEF UpdatePaused
  <2> QED
    BY <1>6, <2>1, <2>2, <2>3, <2>4, ZenonT(40) DEF Attempt
<1>7. CASE CreateDagRun
  <2>1. UNCHANGED <<dag, bounds, pc, tx>> /\ \A r \in Run : run'[r] = "running" => run[r] = "running"
    BY <1>0, <1>7 DEF CreateDagRun
  <2>2. RunningRuns' \subseteq RunningRuns
    BY <2>1 DEF RunningRuns
  <2> QED
    BY <2>1, <2>2, CountedFrom
<1>8. CASE TogglePaused \/ UNCHANGED vars
  BY <1>1, <1>8 DEF TogglePaused, vars
<1> QED
  BY <1>5, <1>6, <1>7, <1>8, ZenonT(40) DEF Next

(* While the DAG is not paused, a single scheduler never has more of its   *)
(* runs running than max_active_runs: _start_queued_dagruns counts before  *)
(* it starts, and nobody else starts a run in between.  This holds with a  *)
(* dagrun_timeout, with rollbacks, and whatever the mini schedulers do.    *)
THEOREM KeepsMaxActiveRuns == Spec /\ []~paused => []MaxActiveRuns
<1> DEFINE I == TypeOK /\ Locks /\ Runs /\ Counted
<1>1. Init => I
  <2> SUFFICES ASSUME Init PROVE I
    OBVIOUS
  <2>1. TypeOK
    BY TypeInit
  <2>2. Locks /\ Runs
    BY NoTxFacts, Zenon DEF Init, Locks, Runs
  <2>3. RunningRuns = {} /\ \A s \in Scheduler : pc[s] = "loop"
    BY DEF Init, RunningRuns, Proc
  <2>4. Cardinality(RunningRuns) = 0 /\ dag.max_active_runs \in Nat
    BY <2>1, <2>3, FS_EmptySet, CountedFacts, ZenonT(40)
  <2>5. Counted
    BY <2>3, <2>4 DEF Counted
  <2> QED
    BY <2>1, <2>2, <2>5
<1>2. I /\ ~paused /\ [Next]_vars => I'
  <2> SUFFICES ASSUME TypeOK, Locks, Runs, Counted, ~paused, [Next]_vars PROVE I'
    OBVIOUS
  <2> QED
    BY TypeStep, LocksStep, RunsStep, CountedStep
<1>3. I => MaxActiveRuns
  <2> SUFFICES ASSUME TypeOK, Counted, Cardinality(bounds.schedulers) = 1, dag.max_active_runs # 0
               PROVE  Cardinality(RunningRuns) <= dag.max_active_runs
    BY DEF MaxActiveRuns
  <2>1. bounds.schedulers \subseteq Scheduler /\ IsFiniteSet(bounds.schedulers)
    BY DagFacts, DagRunAssumption, FS_Subset
  <2>2. PICK s : bounds.schedulers = {s}
    BY <2>1, FS_Singleton, ZenonT(40)
  <2> QED
    BY <2>1, <2>2 DEF Counted
<1> QED
  BY <1>1, <1>2, <1>3, PTL DEF Spec

=============================================================================
