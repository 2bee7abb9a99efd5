-------------------------- MODULE DagRunLockProofs --------------------------
(***************************************************************************)
(* Trigger rules; then the invariant of DagRunScheduling, for every DAG    *)
(* and any number of runs, schedulers and workers, and the proof of its    *)
(* first part: types, and that whoever has decided something about a run   *)
(* holds its lock.  What it has decided is right when it decides it        *)
(* (DagRunDecisionProofs) and still right when it commits it               *)
(* (DagRunProofs), because the only others who touch the task instances of *)
(* that run are the workers, and what they do spoils no decision.          *)
(***************************************************************************)
EXTENDS DagRunScheduling, FiniteSetTheorems, TLAPS

-----------------------------------------------------------------------------
(* The code decides a trigger rule by counting upstream task instances;    *)
(* this is what the documentation says, for any number of upstream tasks   *)
(* in any states.                                                          *)

\* What the count of the upstream tasks in S says, for _get_states_count_upstream_ti.
LEMMA CountIn ==
  ASSUME NEW U, IsFiniteSet(U), NEW st, NEW S
  PROVE  /\ Cardinality(In(U, st, S)) \in Nat /\ Cardinality(U) \in Nat
         /\ Cardinality(In(U, st, S)) <= Cardinality(U)
         /\ Cardinality(In(U, st, S)) = Cardinality(U) <=> \A u \in U : st[u] \in S
         /\ Cardinality(In(U, st, S)) = 0 <=> \A u \in U : st[u] \notin S
<1> DEFINE I == In(U, st, S)
<1>1. I \in SUBSET U
  BY DEF In
<1>2. IsFiniteSet(I) /\ Cardinality(I) <= Cardinality(U) /\ (Cardinality(U) = Cardinality(I) => U = I)
  BY <1>1, FS_Subset
<1>3. Cardinality(I) \in Nat /\ Cardinality(U) \in Nat
  BY <1>2, FS_CardinalityType
<1>4. Cardinality(I) = 0 <=> I = {}
  BY <1>2, FS_EmptySet
<1>5. I = {} <=> \A u \in U : st[u] \notin S
  BY DEF In
<1>6. U = I <=> \A u \in U : st[u] \in S
  BY DEF In
<1> QED
  BY <1>2, <1>3, <1>4, <1>5, <1>6

\* Counts of disjoint sets of states add up.
LEMMA CountsAdd ==
  ASSUME NEW U, IsFiniteSet(U), NEW st, NEW S, NEW T, S \cap T = {}
  PROVE  Cardinality(In(U, st, S \cup T)) = Cardinality(In(U, st, S)) + Cardinality(In(U, st, T))
<1> DEFINE A == In(U, st, S)
           B == In(U, st, T)
<1>1. A \in SUBSET U /\ B \in SUBSET U /\ A \cap B = {} /\ In(U, st, S \cup T) = A \cup B
  BY DEF In
<1> HIDE DEF A, B
<1>2. IsFiniteSet(A) /\ IsFiniteSet(B)
  BY <1>1, FS_Subset
<1>3. Cardinality(A) \in Nat /\ Cardinality(B) \in Nat /\ Cardinality(A \cap B) = 0
  BY <1>1, <1>2, FS_EmptySet, FS_CardinalityType, Zenon
<1>4. Cardinality(A \cup B) = Cardinality(A) + Cardinality(B) - Cardinality(A \cap B)
  BY <1>2, FS_Union
<1>5. Cardinality(A \cup B) = Cardinality(A) + Cardinality(B)
  BY <1>3, <1>4
<1> QED
  BY <1>1, <1>5 DEF A, B

\* The comparisons that _evaluate_trigger_rule makes, in terms of states.
LEMMA CountsMean ==
  ASSUME NEW U, IsFiniteSet(U), NEW st, NEW n, n = Counts(U, st)
  PROVE  /\ n.upstream \in Nat /\ n.successes \in Nat /\ n.skipped \in Nat
         /\ n.failed \in Nat /\ n.upstream_failed \in Nat /\ n.done \in Nat
         /\ n.successes > 0 <=> \E u \in U : st[u] = "success"
         /\ n.skipped > 0 <=> \E u \in U : st[u] = "skipped"
         /\ (n.failed > 0 \/ n.upstream_failed > 0) <=> \E u \in U : st[u] \in failed_states
         /\ n.done >= n.upstream <=> \A u \in U : st[u] \in finished
         /\ n.upstream - n.successes <= 0 <=> \A u \in U : st[u] = "success"
         /\ n.upstream - n.failed - n.upstream_failed <= 0 <=> \A u \in U : st[u] \in failed_states
         /\ n.upstream - n.successes - n.skipped <= 0 <=> \A u \in U : st[u] \in success_states
         /\ n.skipped = n.upstream <=> \A u \in U : st[u] = "skipped"
         /\ n.done >= n.upstream => (n.done = n.skipped <=> \A u \in U : st[u] = "skipped")
<1> DEFINE C(S) == Cardinality(In(U, st, S))
<1>1. /\ n.upstream = Cardinality(U) /\ n.successes = C({"success"}) /\ n.skipped = C({"skipped"})
      /\ n.failed = C({"failed"}) /\ n.upstream_failed = C({"upstream_failed"}) /\ n.done = C(finished)
  BY DEF Counts
<1>2. \A S : /\ C(S) \in Nat /\ Cardinality(U) \in Nat /\ C(S) <= Cardinality(U)
             /\ C(S) = Cardinality(U) <=> \A u \in U : st[u] \in S
             /\ C(S) = 0 <=> \A u \in U : st[u] \notin S
  BY CountIn
<1>3. C({"failed"} \cup {"upstream_failed"}) = C({"failed"}) + C({"upstream_failed"})
  BY CountsAdd
<1>4. C({"success"} \cup {"skipped"}) = C({"success"}) + C({"skipped"})
  BY CountsAdd
<1>5. failed_states = {"failed"} \cup {"upstream_failed"} /\ success_states = {"success"} \cup {"skipped"}
  BY DEF failed_states, success_states
<1> HIDE DEF C
<1>6. C(failed_states) = n.failed + n.upstream_failed /\ C(success_states) = n.successes + n.skipped
  BY <1>1, <1>3, <1>4, <1>5
<1>7. /\ n.successes > 0 <=> \E u \in U : st[u] = "success"
      /\ n.upstream - n.successes <= 0 <=> \A u \in U : st[u] = "success"
  <2>1. /\ C({"success"}) = Cardinality(U) <=> \A u \in U : st[u] = "success"
        /\ C({"success"}) = 0 <=> \A u \in U : st[u] # "success"
    BY <1>2
  <2> QED
    BY <1>1, <1>2, <2>1
<1>8. /\ n.skipped > 0 <=> \E u \in U : st[u] = "skipped"
      /\ n.skipped = n.upstream <=> \A u \in U : st[u] = "skipped"
  <2>1. /\ C({"skipped"}) = Cardinality(U) <=> \A u \in U : st[u] = "skipped"
        /\ C({"skipped"}) = 0 <=> \A u \in U : st[u] # "skipped"
    BY <1>2
  <2> QED
    BY <1>1, <1>2, <2>1
<1>9. /\ (n.failed > 0 \/ n.upstream_failed > 0) <=> \E u \in U : st[u] \in failed_states
      /\ n.upstream - n.failed - n.upstream_failed <= 0 <=> \A u \in U : st[u] \in failed_states
  BY <1>1, <1>2, <1>6
<1>10. n.upstream - n.successes - n.skipped <= 0 <=> \A u \in U : st[u] \in success_states
  BY <1>1, <1>2, <1>6
<1>11. n.done >= n.upstream <=> \A u \in U : st[u] \in finished
  BY <1>1, <1>2
<1>12. n.done >= n.upstream => (n.done = n.skipped <=> \A u \in U : st[u] = "skipped")
  BY <1>1, <1>2, <1>8
<1> QED
  BY <1>1, <1>2, <1>7, <1>8, <1>9, <1>10, <1>11, <1>12

\* A rule that is met stays met whatever becomes of the unfinished upstream tasks.
LEMMA MetIsStable ==
  ASSUME NEW rule \in Rules, NEW U, NEW st, NEW later,
         \A u \in U : st[u] \in finished => later[u] = st[u],
         Met(rule, U, st)
  PROVE  Met(rule, U, later)
BY DEF Met, Rules, finished, failed_states, success_states

\* So does a rule that is hopeless.
LEMMA HopelessIsStable ==
  ASSUME NEW rule \in Rules, NEW U, NEW st, NEW later,
         \A u \in U : st[u] \in finished => later[u] = st[u],
         Hopeless(rule, U, st)
  PROVE  Hopeless(rule, U, later)
BY DEF Hopeless, Outcomes

\* A hopeless rule is not met, because the upstream tasks can finish somehow.
LEMMA HopelessIsNotMet ==
  ASSUME NEW rule \in Rules, NEW U, NEW st, Hopeless(rule, U, st)
  PROVE  ~Met(rule, U, st)
<1> DEFINE f == [u \in U |-> IF st[u] \in finished THEN st[u] ELSE "success"]
<1>1. f \in Outcomes(U, st)
  BY DEF Outcomes, finished
<1>2. ~Met(rule, U, f)
  BY <1>1 DEF Hopeless
<1> QED
  BY <1>2, MetIsStable

(* The code is right to go on with a task exactly when its documented      *)
(* trigger rule is met: TriggerRuleDep passes and assigns no state at once *)
(* (trigger_rule_dep.py, _evaluate_trigger_rule).                          *)
THEOREM PassesIffMet ==
  ASSUME NEW U, IsFiniteSet(U), NEW st, NEW rule \in Rules
  PROVE  TriggerRuleDep(rule, U, st) /\ AssignedState(rule, U, st) = "none" <=> Met(rule, U, st)
<1> DEFINE n == Counts(U, st)
<1>1. CASE ~Evaluated(rule, U)
  BY <1>1 DEF Evaluated, TriggerRuleDep, AssignedState, Met
<1>2. CASE Evaluated(rule, U)
  <2>1. U # {} /\ rule # "always"
    BY <1>2 DEF Evaluated
  <2>2. Passes(rule, n) /\ Assigned(rule, n) = "none" <=> Met(rule, U, st)
    <3> HIDE DEF n
    <3>1. CASE rule = "all_success"
      BY <2>1, <3>1, CountsMean DEF n, Passes, Assigned, Met, failed_states
    <3>2. CASE rule = "all_failed"
      BY <2>1, <3>2, CountsMean DEF n, Passes, Assigned, Met, failed_states
    <3>3. CASE rule = "all_done"
      BY <2>1, <3>3, CountsMean DEF n, Passes, Assigned, Met
    <3>4. CASE rule = "one_success"
      BY <2>1, <3>4, CountsMean DEF n, Passes, Assigned, Met
    <3>5. CASE rule = "one_failed"
      BY <2>1, <3>5, CountsMean DEF n, Passes, Assigned, Met
    <3>6. CASE rule = "none_failed"
      BY <2>1, <3>6, CountsMean DEF n, Passes, Assigned, Met, failed_states, success_states
    <3>7. CASE rule = "none_failed_or_skipped"
      BY <2>1, <3>7, CountsMean DEF n, Passes, Assigned, Met, failed_states, success_states
    <3>8. CASE rule = "none_skipped"
      BY <2>1, <3>8, CountsMean DEF n, Passes, Assigned, Met, failed_states, finished
    <3> QED
      BY <2>1, <3>1, <3>2, <3>3, <3>4, <3>5, <3>6, <3>7, <3>8 DEF Rules
  <2> QED
    BY <1>2, <2>2 DEF TriggerRuleDep, AssignedState
<1> QED
  BY <1>1, <1>2

(* A task is given up at once only when its documented rule can no longer  *)
(* be met, however its unfinished upstream tasks end.                      *)
THEOREM AssignedIsHopeless ==
  ASSUME NEW U, IsFiniteSet(U), NEW st, NEW rule \in Rules, AssignedState(rule, U, st) # "none"
  PROVE  Hopeless(rule, U, st) /\ AssignedState(rule, U, st) \in {"upstream_failed", "skipped"}
<1> DEFINE n == Counts(U, st)
<1>1. U # {} /\ rule # "always" /\ Assigned(rule, n) # "none" /\ AssignedState(rule, U, st) = Assigned(rule, n)
  BY DEF AssignedState, Evaluated
<1>2. Assigned(rule, n) \in {"upstream_failed", "skipped"}
  BY <1>1 DEF Assigned
<1>3. SUFFICES ASSUME NEW f \in Outcomes(U, st) PROVE ~Met(rule, U, f)
  BY <1>1, <1>2 DEF Hopeless
<1>4. \A u \in U : f[u] \in finished /\ (st[u] \in finished => f[u] = st[u])
  BY DEF Outcomes
<1> HIDE DEF n
<1>5. CASE rule \in {"all_success", "none_failed", "none_failed_or_skipped"}
  BY <1>1, <1>4, <1>5, CountsMean DEF n, Assigned, Met, finished, failed_states, success_states
<1>6. CASE rule \in {"all_failed", "none_skipped"}
  BY <1>1, <1>4, <1>6, CountsMean DEF n, Assigned, Met, finished, failed_states
<1>7. CASE rule = "one_success"
  BY <1>1, <1>4, <1>7, CountsMean DEF n, Assigned, Met
<1>8. CASE rule = "one_failed"
  BY <1>1, <1>4, <1>8, CountsMean DEF n, Assigned, Met
<1>9. rule # "all_done"
  BY <1>1 DEF Assigned
<1> QED
  BY <1>1, <1>5, <1>6, <1>7, <1>8, <1>9 DEF Rules

(* Once all upstream tasks have finished a task is either ready or given   *)
(* up: no trigger rule leaves it waiting for ever.                         *)
THEOREM FinishedDecides ==
  ASSUME NEW U, IsFiniteSet(U), NEW st, NEW rule \in Rules, \A u \in U : st[u] \in finished
  PROVE  Met(rule, U, st) \/ AssignedState(rule, U, st) # "none"
<1> DEFINE n == Counts(U, st)
<1>1. SUFFICES ASSUME U # {}, rule # "always" PROVE Met(rule, U, st) \/ Assigned(rule, n) # "none"
  BY DEF AssignedState, Evaluated, Met
<1> HIDE DEF n
<1>2. CASE rule \in {"all_success", "all_failed"}
  BY <1>1, <1>2, CountsMean DEF n, Assigned, Met, finished, failed_states
<1>3. CASE rule \in {"none_failed", "none_failed_or_skipped"}
  BY <1>1, <1>3, CountsMean DEF n, Assigned, Met, finished, failed_states, success_states
<1>4. CASE rule \in {"one_success", "one_failed"}
  BY <1>1, <1>4, CountsMean DEF n, Assigned, Met
<1>5. CASE rule \in {"none_skipped", "all_done"}
  BY <1>1, <1>5, CountsMean DEF n, Assigned, Met, finished, failed_states
<1> QED
  BY <1>1, <1>2, <1>3, <1>4, <1>5 DEF Rules

-----------------------------------------------------------------------------
(* The invariant.                                                          *)

(* What the mini scheduler decides on does not depend on what its partial  *)
(* DAG leaves out: a task keeps all of its upstream tasks or none, and one *)
(* that waits for downstream keeps its downstream tasks.                   *)
NothingCut ==
  dag.schedule_after_task_execution =>
    \A t \in dag.tasks :
      /\ \A x \in PartialSubset(t) :
           dag.upstream[x] \subseteq PartialSubset(t) \/ dag.upstream[x] \cap PartialSubset(t) = {}
      /\ \A x \in downstream(t) \cap dag.wait_for_downstream : downstream(x) \subseteq PartialSubset(t)

\* Whoever has plans for a run holds its lock, and plans only once.
Locks ==
  \A p \in Proc, r \in Run :
    /\ r \in tx[p].locked \/ r \in tx[p].todo \/ tx[p].plan[r] # NoPlan => lock[r] = p
    /\ r \in tx[p].todo => tx[p].plan[r] = NoPlan

\* The states in which the runs that are worked on are.
Runs ==
  /\ \A r \in timed_out : run[r] = "failed"
  /\ \A p \in Proc, r \in Run :
       /\ r \in tx[p].todo => run[r] = "running"
       /\ tx[p].plan[r].state # "none" => run[r] = "running"
       /\ pc[p] = "start" /\ r \in tx[p].locked => run[r] = "queued"

TriggerRuleMet(r, t) == Met(dag.trigger_rule[t], dag.upstream[t], ti[r])

\* What is executed had its trigger rule met, and has a row that says so.
Works ==
  \A r \in Run, t \in Task :
    /\ ti[r][t] \in {"none", "up_for_retry", "scheduled", "running"} \cup finished
    /\ <<r, t>> \in executing => r \in timed_out \/ ti[r][t] = "running"
    /\ ti[r][t] \in {"scheduled", "running"} => r \in timed_out \/ TriggerRuleMet(r, t)

\* The previous run allows t, with what the transaction x has decided about it.
PastSound(x, r, t) ==
  t \in dag.depends_on_past /\ r - 1 \in Run =>
    \/ r - 1 \in timed_out
    \/ x.plan[r - 1].state = "timed_out"
    \/ LET prev == Overridden(ti[r - 1], x.plan[r - 1].write)
       IN  /\ prev[t] \in success_states
           /\ t \in dag.wait_for_downstream => \A d \in downstream(t) : prev[d] \in success_states

\* Writing st is right as long as x has not been committed.
WriteSound(x, r, t, st) ==
  /\ ti[r][t] \in SCHEDULEABLE_STATES
  /\ \/ /\ st \in {"upstream_failed", "skipped"}
        /\ Hopeless(dag.trigger_rule[t], dag.upstream[t], ti[r])
     \/ /\ st = "scheduled" \/ (st = "success" /\ t \in dag.dummy)
        /\ TriggerRuleMet(r, t) /\ PastSound(x, r, t)

StateSound(r, state) ==
  /\ state # "running"
  /\ state = "timed_out" => dag.dagrun_timeout
  /\ state \in {"success", "failed"} => \A t \in dag.tasks : ti[r][t] \in finished
  /\ state = "success" => \A t \in leaves : ti[r][t] \in success_states
  /\ state = "failed" => \E t \in leaves : ti[r][t] \in failed_states

PlanSound(x, r) ==
  /\ StateSound(r, x.plan[r].state)
  /\ x.plan[r].state # "timed_out" /\ r \notin timed_out =>
       \A t \in Task : x.plan[r].write[t] # "none" => WriteSound(x, r, t, x.plan[r].write[t])

\* What is planned is right, although others go on meanwhile.
Plans == \A p \in Proc, r \in Run : PlanSound(tx[p], r)

\* Only with schedule_after_task_execution is there a mini scheduler.
Minis == \A j \in Job : pc[j] = "mini" => dag.schedule_after_task_execution

Inv == TypeOK /\ Locks /\ Runs /\ Works /\ Plans /\ Minis

-----------------------------------------------------------------------------
PlanType ==
  [write : [Task -> Written], state : {"none", "running", "success", "failed", "timed_out"}]

\* The DAG of a case is well formed.
LEMMA DagFacts ==
  ASSUME TypeOK
  PROVE  /\ dag.tasks \subseteq Task /\ bounds.schedulers \subseteq Scheduler
         /\ dag.outcomes \subseteq {"success", "failed", "skipped"}
         /\ \A S \in SUBSET dag.tasks : S # {} => \E t \in S : dag.upstream[t] \cap S = {}
         /\ \A t \in Task : /\ dag.trigger_rule[t] \in Rules
                            /\ dag.upstream[t] \subseteq dag.tasks /\ IsFiniteSet(dag.upstream[t])
<1>1. WellFormed(dag) /\ bounds.schedulers \subseteq Scheduler
  BY DagRunAssumption DEF TypeOK
<1>2. dag.tasks \subseteq Task /\ \A t \in Task : dag.trigger_rule[t] \in Rules /\ dag.upstream[t] \subseteq dag.tasks
  BY <1>1 DEF WellFormed
<1>3. \A t \in Task : IsFiniteSet(dag.upstream[t])
  BY <1>2, DagRunAssumption, FS_Subset
<1> QED
  BY <1>1, <1>2, <1>3 DEF WellFormed

\* An empty transaction plans nothing.
LEMMA NoTxFacts ==
  /\ NoTx \in Transaction /\ NoPlan \in PlanType
  /\ NoTx.locked = {} /\ NoTx.todo = {} /\ \A r \in Run : NoTx.plan[r] = NoPlan
  /\ NoPlan.state = "none" /\ \A t \in Task : NoPlan.write[t] = "none"
BY DEF NoTx, NoPlan, Plan, Transaction, PlanType, Written

\* Planning something for r leaves the rest of the transaction as it is.
LEMMA PlannedFacts ==
  ASSUME NEW x \in Transaction, NEW r \in Run, NEW plan \in PlanType
  PROVE  /\ Planned(x, r, plan) \in Transaction
         /\ Planned(x, r, plan).locked = x.locked /\ Planned(x, r, plan).todo = x.todo \ {r}
         /\ Planned(x, r, plan).plan[r] = plan
         /\ \A q \in Run : q # r => Planned(x, r, plan).plan[q] = x.plan[q]
BY Zenon DEF Planned, Transaction, PlanType

\* What the decisions of update_state and of a timeout look like.
LEMMA DecisionTypes ==
  ASSUME TypeOK, NEW r \in Run, NEW T, NEW X, NEW prev, NEW ready, NEW x \in Transaction, NEW Y
  PROVE  /\ Assignments(r, X, T) \in [Task -> {"none", "upstream_failed", "skipped"}]
         /\ NewState(r, prev) \in {"running", "success", "failed"}
         /\ Writes(ready, Assignments(r, X, T)) \in [Task -> Written]
         /\ Updated(x, r, Y, T) \in Transaction /\ TimedOut(x, r) \in Transaction
<1>1. \A rule, U, st : AssignedState(rule, U, st) \in {"none", "upstream_failed", "skipped"}
  BY DEF AssignedState, Assigned
<1>2. \A Z, S : Assignments(r, Z, S) \in [Task -> {"none", "upstream_failed", "skipped"}]
  BY <1>1 DEF Assignments
<1>3. \A q : NewState(r, q) \in {"running", "success", "failed"}
  BY DEF NewState
<1>4. \A R, Z, S : Writes(R, Assignments(r, Z, S)) \in [Task -> Written]
  BY <1>2 DEF Writes, Written, finished
<1>5. Updated(x, r, Y, T) \in Transaction
  <2>1. \A write \in [Task -> Written], state \in {"running", "success", "failed", "none", "timed_out"} :
          Plan(write, state) \in PlanType
    BY DEF Plan, PlanType
  <2> QED
    BY <1>3, <1>4, <2>1, PlannedFacts, Zenon DEF Updated
<1>6. TimedOut(x, r) \in Transaction
  <2> DEFINE write == [t \in Task |->
                        IF t \in InState(dag.tasks, ti[r], unfinished) THEN "skipped" ELSE "none"]
  <2>1. Plan(write, "timed_out") \in PlanType
    BY DEF Plan, PlanType, Written, finished
  <2> QED
    BY <2>1, PlannedFacts DEF TimedOut
<1> QED
  BY <1>2, <1>3, <1>4, <1>5, <1>6

\* Both add a plan for the run to the transaction.
LEMMA PlansAreTyped ==
  ASSUME TypeOK, NEW r \in Run, NEW x \in Transaction, NEW T, NEW Y
  PROVE  /\ \E plan \in PlanType : Updated(x, r, Y, T) = Planned(x, r, plan)
         /\ \E plan \in PlanType : TimedOut(x, r) = Planned(x, r, plan)
<1>1. \A write \in [Task -> Written], state \in {"running", "success", "failed", "none", "timed_out"} :
        Plan(write, state) \in PlanType
  BY DEF Plan, PlanType
<1>2. \E plan \in PlanType : Updated(x, r, Y, T) = Planned(x, r, plan)
  BY <1>1, DecisionTypes, Zenon DEF Updated
<1>3. [t \in Task |-> IF t \in InState(dag.tasks, ti[r], unfinished) THEN "skipped" ELSE "none"]
        \in [Task -> Written]
  BY ZenonT(40) DEF Written, finished
<1> QED
  BY <1>1, <1>2, <1>3 DEF TimedOut

\* What a commit writes, by run and task instance.
LEMMA CommitFacts ==
  ASSUME TypeOK, NEW p \in Proc, Commit(p)
  PROVE  /\ ti' \in [Run -> [Task -> TaskInstanceState]]
         /\ run' \in [Run -> DagRunState \cup {"none"}]
         /\ timed_out' \subseteq Run /\ timed_out \subseteq timed_out'
         /\ tx' = [tx EXCEPT ![p] = NoTx]
         /\ \A r \in Run : lock'[r] = IF lock[r] = p THEN None ELSE lock[r]
         /\ \A r \in Run, t \in Task :
              ti'[r][t] = IF tx[p].plan[r].write[t] = "none" THEN ti[r][t] ELSE tx[p].plan[r].write[t]
         /\ \A r \in Run :
              /\ tx[p].plan[r].state = "none" => run'[r] = run[r]
              /\ tx[p].plan[r].state = "timed_out" => run'[r] = "failed" /\ r \in timed_out'
              /\ tx[p].plan[r].state \notin {"none", "timed_out"} => run'[r] = tx[p].plan[r].state
              /\ r \in timed_out' => r \in timed_out \/ tx[p].plan[r].state = "timed_out"
         /\ lock' \in [Run -> Proc \cup {None}] /\ tx' \in [Proc -> Transaction]
<1>1. tx[p].plan \in [Run -> PlanType]
  BY DEF TypeOK, Transaction, PlanType
<1>2. \A r \in Run : tx[p].plan[r].write \in [Task -> Written] /\
        tx[p].plan[r].state \in {"none", "running", "success", "failed", "timed_out"}
  BY <1>1 DEF PlanType
<1>3. ti' = [r \in Run |-> [t \in Task |->
               IF tx[p].plan[r].write[t] = "none" THEN ti[r][t] ELSE tx[p].plan[r].write[t]]]
  BY DEF Commit, Overridden
<1>4. ti' \in [Run -> [Task -> TaskInstanceState]]
  BY <1>2, <1>3 DEF TypeOK, Written, finished, TaskInstanceState
<1>5. \A r \in Run :
         /\ tx[p].plan[r].state = "none" => run'[r] = run[r]
         /\ tx[p].plan[r].state = "timed_out" => run'[r] = "failed"
         /\ tx[p].plan[r].state \notin {"none", "timed_out"} => run'[r] = tx[p].plan[r].state
  BY DEF Commit
<1>6. run' \in [Run -> DagRunState \cup {"none"}]
  <2>1. run' = [r \in Run |-> run'[r]]
    BY DEF Commit
  <2>2. \A r \in Run : run'[r] \in DagRunState \cup {"none"}
    BY <1>2, <1>5 DEF TypeOK, DagRunState
  <2> QED
    BY <2>1, <2>2
<1>7. timed_out' = timed_out \cup {r \in Run : tx[p].plan[r].state = "timed_out"}
  BY DEF Commit
<1>8. tx' = [tx EXCEPT ![p] = NoTx] /\ lock' = [r \in Run |-> IF lock[r] = p THEN None ELSE lock[r]]
  BY DEF Commit, Begin, Unlock
<1>9. lock' \in [Run -> Proc \cup {None}] /\ tx' \in [Proc -> Transaction]
  BY <1>8, NoTxFacts DEF TypeOK
<1> QED
  BY <1>3, <1>4, <1>5, <1>6, <1>7, <1>8, <1>9 DEF TypeOK

\* Every step keeps the types.
LEMMA TypeStep ==
  ASSUME TypeOK, [Next]_vars
  PROVE  TypeOK'
<1> USE DEF Goto, given, database, workers, disturbances
<1>1. CASE UNCHANGED vars
  BY <1>1 DEF TypeOK, vars
<1>2. CASE CreateDagRun
  BY <1>2 DEF CreateDagRun, TypeOK, DagRunState
<1>3. CASE TogglePaused
  BY <1>3 DEF TogglePaused, TypeOK
<1>4. ASSUME NEW s \in Scheduler, LockQueued(s) \/ LockRunning(s) PROVE TypeOK'
  <2>1. lock' \in [Run -> Proc \cup {None}]
    BY <1>4 DEF LockQueued, LockRunning, LockRuns, TypeOK, Proc
  <2>2. Cardinality(RunningRuns) \in Nat
    <3>1. RunningRuns \in SUBSET Run
      BY DEF RunningRuns
    <3> QED
      BY <3>1, DagRunAssumption, FS_Subset, FS_CardinalityType, ZenonT(40)
  <2>3. /\ [NoTx EXCEPT !.locked = Unlocked("queued"), !.active = Cardinality(RunningRuns)] \in Transaction
        /\ [NoTx EXCEPT !.locked = Unlocked("running"), !.todo = Unlocked("running")] \in Transaction
    BY <2>2, NoTxFacts, Zenon DEF Transaction, Unlocked
  <2>4. tx' \in [Proc -> Transaction]
    BY <1>4, <2>3 DEF LockQueued, LockRunning, Begin, TypeOK, Proc
  <2> QED
    BY <1>4, <2>1, <2>4 DEF LockQueued, LockRunning, TypeOK
<1>5. ASSUME NEW s \in Scheduler, StartQueued(s) \/ Rollback(s) PROVE TypeOK'
  <2>1. tx' \in [Proc -> Transaction] /\ lock' \in [Run -> Proc \cup {None}]
    BY <1>5, NoTxFacts DEF StartQueued, Rollback, Begin, Unlock, TypeOK, Proc
  <2>2. run' \in [Run -> DagRunState \cup {"none"}]
    BY <1>5 DEF StartQueued, Rollback, TypeOK, DagRunState
  <2> QED
    BY <1>5, <2>1, <2>2 DEF StartQueued, Rollback, TypeOK
<1>6. ASSUME NEW s \in Scheduler, ScheduleDagRun(s) PROVE TypeOK'
  <2>1. \E x \in Transaction : tx' = [tx EXCEPT ![s] = x]
    <3>1. tx[s] \in Transaction /\ tx[s].todo \subseteq Run
      BY DEF TypeOK, Proc, Transaction
    <3> QED
      BY <1>6, <3>1, DecisionTypes, Zenon DEF ScheduleDagRun, Begin
  <2>2. tx' \in [Proc -> Transaction]
    BY <2>1, Zenon DEF TypeOK
  <2> QED
    BY <1>6, <2>2 DEF ScheduleDagRun, TypeOK
<1>7. ASSUME NEW s \in Scheduler, CommitSchedule(s) PROVE TypeOK'
  BY <1>7, CommitFacts DEF CommitSchedule, TypeOK, Proc
<1>8. ASSUME NEW r \in Run, NEW t \in Task, Attempt(r, t) PROVE TypeOK'
  <2>0. <<r, t>> \in Proc /\ <<r, t>> \in Job
    BY DEF Proc, Job
  <2>1. CASE Execute(r, t)
    BY <2>0, <2>1, Zenon DEF Execute, TypeOK, TaskInstanceState
  <2>2. CASE TaskEnds(r, t)
    <3>1. ti' \in [Run -> [Task -> TaskInstanceState]]
      <4>1. \E st \in TaskInstanceState : ti' = [ti EXCEPT ![r][t] = st]
        BY <2>2, DagFacts DEF TaskEnds, TaskInstanceState
      <4> QED
        BY <4>1 DEF TypeOK
    <3>2. executing' \subseteq Job /\ retried' \subseteq Job /\ delayed' \subseteq retried'
      BY <2>0, <2>2, Zenon DEF TaskEnds, TypeOK
    <3> QED
      BY <2>2, <3>1, <3>2, Zenon DEF TaskEnds, TypeOK
  <2>3. CASE RetryDelayElapses(r, t)
    BY <2>3 DEF RetryDelayElapses, TypeOK
  <2>4. CASE MiniSchedule(r, t)
    <3>1. \E x \in Transaction : tx' = [tx EXCEPT ![<<r, t>>] = x]
      <4>1. \A write \in [Task -> Written] : Planned(NoTx, r, Plan(write, "none")) \in Transaction
        BY NoTxFacts, PlannedFacts DEF Plan, PlanType
      <4> QED
        BY <2>4, <4>1, NoTxFacts, DecisionTypes, Zenon DEF MiniSchedule, Begin
    <3>2. tx' \in [Proc -> Transaction] /\ lock' \in [Run -> Proc \cup {None}]
      BY <2>0, <2>4, <3>1, Zenon DEF MiniSchedule, LockRuns, TypeOK
    <3> QED
      BY <2>4, <3>2, Zenon DEF MiniSchedule, TypeOK
  <2>5. CASE MiniCommit(r, t) \/ CommitPaused(r, t)
    <3>1. Commit(<<r, t>>)
      BY <2>5 DEF MiniCommit, CommitPaused
    <3>2. /\ ti' \in [Run -> [Task -> TaskInstanceState]] /\ run' \in [Run -> DagRunState \cup {"none"}]
          /\ timed_out' \subseteq Run /\ lock' \in [Run -> Proc \cup {None}]
          /\ tx' \in [Proc -> Transaction]
      BY <2>0, <3>1, CommitFacts
    <3> QED
      BY <2>5, <3>2, Zenon DEF MiniCommit, CommitPaused, TypeOK
  <2>6. CASE MiniFails(r, t) \/ Exit(r, t)
    BY <2>6, Zenon DEF MiniFails, Exit, TypeOK
  <2>7. CASE UpdatePaused(r, t)
    <3>1. \E x \in Transaction : tx' = [tx EXCEPT ![<<r, t>>] = x]
      BY <2>7, NoTxFacts, DecisionTypes, Zenon DEF UpdatePaused, Begin
    <3>2. tx' \in [Proc -> Transaction]
      BY <3>1, Zenon DEF TypeOK
    <3> QED
      BY <2>7, <3>2, Zenon DEF UpdatePaused, TypeOK
  <2> QED
    BY <1>8, <2>1, <2>2, <2>3, <2>4, <2>5, <2>6, <2>7 DEF Attempt
<1> QED
  BY <1>1, <1>2, <1>3, <1>4, <1>5, <1>6, <1>7, <1>8, DagFacts DEF Next, Loop

\* Initially every variable has its type.
LEMMA TypeInit == Init => TypeOK
<1> SUFFICES ASSUME Init PROVE TypeOK
  OBVIOUS
<1>1. "none" \in TaskInstanceState
  BY DEF TaskInstanceState
<1> QED
  BY <1>1, NoTxFacts, Zenon DEF Init, TypeOK

(* Every variable keeps its type, whatever the DAG, and whether or not it  *)
(* is paused.                                                              *)
THEOREM DagRunTypeCorrect == Spec => []TypeOK
<1>1. TypeOK /\ [Next]_vars => TypeOK'
  BY TypeStep
<1> QED
  BY <1>1, TypeInit, PTL DEF Spec

-----------------------------------------------------------------------------
\* Locks holds after a step that changes the transaction of p only.
LEMMA LocksFrom ==
  ASSUME TypeOK, Locks, NEW p \in Proc, NEW x \in Transaction, tx' = [tx EXCEPT ![p] = x],
         \A r \in Run : lock[r] \in Proc /\ lock[r] # p => lock'[r] = lock[r],
         \A r \in Run : /\ r \in x.locked \/ r \in x.todo \/ x.plan[r] # NoPlan => lock'[r] = p
                        /\ r \in x.todo => x.plan[r] = NoPlan
  PROVE  Locks'
<1>1. \A q \in Proc : tx'[q] = IF q = p THEN x ELSE tx[q]
  BY DEF TypeOK
<1>2. SUFFICES ASSUME NEW q \in Proc, NEW r \in Run
               PROVE  /\ r \in tx'[q].locked \/ r \in tx'[q].todo \/ tx'[q].plan[r] # NoPlan => lock'[r] = q
                      /\ r \in tx'[q].todo => tx'[q].plan[r] = NoPlan
  BY DEF Locks, NoPlan, Plan
<1>3. CASE q = p
  <2>1. tx'[q] = x
    BY <1>1, <1>3
  <2> QED
    BY <1>3, <2>1
<1>4. CASE q # p
  BY <1>1, <1>4 DEF Locks
<1> QED
  BY <1>3, <1>4

\* Every step keeps the locks.
LEMMA LocksStep ==
  ASSUME TypeOK, Locks, [Next]_vars, ~paused
  PROVE  Locks'
<1> USE DEF Goto, given, database, workers, disturbances
<1>0. TypeOK /\ Locks /\ None \notin Proc /\ Scheduler \subseteq Proc
  BY DagRunAssumption DEF Proc
<1>1. ASSUME UNCHANGED <<tx, lock>> PROVE Locks'
  BY <1>0, <1>1 DEF Locks, NoPlan, Plan
<1>2. ASSUME NEW p \in Proc, tx' = [tx EXCEPT ![p] = NoTx], Unlock(p) PROVE Locks'
  <2>1. \A r \in Run : lock[r] # p => lock'[r] = lock[r]
    BY <1>2 DEF Unlock
  <2> QED
    BY <1>0, <1>2, <2>1, NoTxFacts, LocksFrom, Zenon
<1>3. ASSUME NEW s \in Scheduler, LockQueued(s) \/ LockRunning(s) PROVE Locks'
  <2>1. PICK st \in {"queued", "running"} :
           /\ lock' = [r \in Run |-> IF r \in Unlocked(st) THEN s ELSE lock[r]]
           /\ \E x : /\ tx' = [tx EXCEPT ![s] = x] /\ x.locked \subseteq Unlocked(st)
                     /\ x.todo \subseteq Unlocked(st) /\ x.plan = NoTx.plan
    <3> DEFINE Q == [NoTx EXCEPT !.locked = Unlocked("queued"), !.active = Cardinality(RunningRuns)]
               R == [NoTx EXCEPT !.locked = Unlocked("running"), !.todo = Unlocked("running")]
    <3>1. /\ Q.locked = Unlocked("queued") /\ Q.todo = {} /\ Q.plan = NoTx.plan
          /\ R.locked = Unlocked("running") /\ R.todo = Unlocked("running") /\ R.plan = NoTx.plan
      BY DEF NoTx
    <3>2. CASE LockQueued(s)
      <4>1. tx' = [tx EXCEPT ![s] = Q] /\ lock' = [r \in Run |-> IF r \in Unlocked("queued") THEN s ELSE lock[r]]
        BY <3>2 DEF LockQueued, LockRuns, Begin
      <4> QED
        BY <3>1, <4>1, Zenon
    <3>3. CASE LockRunning(s)
      <4>1. tx' = [tx EXCEPT ![s] = R] /\ lock' = [r \in Run |-> IF r \in Unlocked("running") THEN s ELSE lock[r]]
        BY <3>3 DEF LockRunning, LockRuns, Begin
      <4> QED
        BY <3>1, <4>1, Zenon
    <3> QED
      BY <1>3, <3>2, <3>3
  <2>2. PICK x : /\ tx' = [tx EXCEPT ![s] = x] /\ x.locked \subseteq Unlocked(st)
                 /\ x.todo \subseteq Unlocked(st) /\ x.plan = NoTx.plan
    BY <2>1, Zenon
  <2>3. x \in Transaction
    <3>1. TypeOK' /\ tx'[s] = x
      BY <1>0, <2>2, TypeStep DEF TypeOK
    <3> QED
      BY <1>0, <3>1 DEF TypeOK
  <2>4. \A r \in Unlocked(st) : lock[r] = None
    BY DEF Unlocked
  <2>5. \A r \in Run : lock[r] \in Proc /\ lock[r] # s => lock'[r] = lock[r]
    BY <1>0, <2>1, <2>4
  <2>6. \A r \in Run : /\ r \in x.locked \/ r \in x.todo \/ x.plan[r] # NoPlan => lock'[r] = s
                       /\ r \in x.todo => x.plan[r] = NoPlan
    BY <2>1, <2>2, NoTxFacts
  <2> QED
    BY <1>0, <2>2, <2>3, <2>5, <2>6, LocksFrom, Zenon
<1>4. ASSUME NEW p \in Proc, NEW r \in Run, NEW x \in Transaction, NEW plan \in PlanType,
             tx' = [tx EXCEPT ![p] = Planned(x, r, plan)], x = NoTx \/ x = tx[p], lock'[r] = p,
             \A q \in Run : lock[q] \in Proc => lock'[q] = lock[q]
      PROVE  Locks'
  <2>1. \A q \in Run : /\ q \in x.locked \/ q \in x.todo \/ x.plan[q] # NoPlan => lock'[q] = p
                       /\ q \in x.todo => x.plan[q] = NoPlan
    BY <1>0, <1>4, NoTxFacts DEF Locks
  <2> DEFINE y == Planned(x, r, plan)
  <2>2. /\ y \in Transaction /\ y.locked = x.locked /\ y.todo = x.todo \ {r}
        /\ \A q \in Run : q # r => y.plan[q] = x.plan[q]
    BY <1>4, PlannedFacts
  <2>3. tx' = [tx EXCEPT ![p] = y]
    BY <1>4
  <2> HIDE DEF y
  <2>4. \A q \in Run : /\ q \in y.locked \/ q \in y.todo \/ y.plan[q] # NoPlan => lock'[q] = p
                       /\ q \in y.todo => y.plan[q] = NoPlan
    BY <1>4, <2>1, <2>2
  <2> QED
    BY <1>0, <1>4, <2>2, <2>3, <2>4, LocksFrom, ZenonT(40)
<1>5. ASSUME NEW s \in Scheduler, ScheduleDagRun(s) PROVE Locks'
  <2>1. s \in Proc /\ tx[s] \in Transaction /\ tx[s].todo \subseteq Run /\ lock' = lock
    BY <1>0, <1>5 DEF ScheduleDagRun, TypeOK, Transaction
  <2>2. \E r \in tx[s].todo, plan \in PlanType : tx' = [tx EXCEPT ![s] = Planned(tx[s], r, plan)]
    <3>1. PICK r \in tx[s].todo :
             \/ \E X : tx' = [tx EXCEPT ![s] = Updated(tx[s], r, X, dag.tasks)]
             \/ tx' = [tx EXCEPT ![s] = TimedOut(tx[s], r)]
      BY <1>5 DEF ScheduleDagRun, Begin
    <3> QED
      BY <1>0, <2>1, <3>1, PlansAreTyped
  <2>3. \A r \in tx[s].todo : lock[r] = s
    BY <1>0, <2>1 DEF Locks
  <2> QED
    BY <1>4, <2>1, <2>2, <2>3, Zenon
<1>6. ASSUME NEW r \in Run, NEW t \in Task, MiniSchedule(r, t) PROVE Locks'
  <2>1. <<r, t>> \in Proc /\ lock[r] = None /\ lock' = [q \in Run |-> IF q \in {r} THEN <<r, t>> ELSE lock[q]]
    BY <1>6 DEF MiniSchedule, LockRuns, Proc, Job
  <2>2. \E plan \in PlanType : tx' = [tx EXCEPT ![<<r, t>>] = Planned(NoTx, r, plan)]
    <3>1. \A write \in [Task -> Written] : Plan(write, "none") \in PlanType
      BY DEF Plan, PlanType
    <3> QED
      BY <1>0, <1>6, <3>1, NoTxFacts, DecisionTypes, Zenon DEF MiniSchedule, Begin
  <2>3. lock'[r] = <<r, t>> /\ \A q \in Run : lock[q] \in Proc => lock'[q] = lock[q]
    BY <1>0, <2>1
  <2> QED
    BY <1>4, <2>1, <2>2, <2>3, NoTxFacts, Zenon
<1>7. ASSUME NEW s \in Scheduler, Loop(s) \/ Rollback(s) PROVE Locks'
  <2>1. CASE StartQueued(s) \/ Rollback(s) \/ CommitSchedule(s)
    BY <1>0, <1>2, <2>1 DEF StartQueued, Rollback, CommitSchedule, Commit, Begin
  <2> QED
    BY <1>3, <1>5, <1>7, <2>1 DEF Loop
<1>8. ASSUME NEW r \in Run, NEW t \in Task, Attempt(r, t) PROVE Locks'
  <2>1. CASE MiniCommit(r, t) \/ CommitPaused(r, t)
    <3>1. <<r, t>> \in Proc
      BY DEF Proc, Job
    <3> QED
      BY <1>2, <2>1, <3>1 DEF MiniCommit, CommitPaused, Commit, Begin
  <2>2. CASE Execute(r, t) \/ TaskEnds(r, t) \/ RetryDelayElapses(r, t) \/ MiniFails(r, t) \/ Exit(r, t)
    BY <1>1, <2>2 DEF Execute, TaskEnds, RetryDelayElapses, MiniFails, Exit
  <2>3. ~UpdatePaused(r, t)
    BY DEF UpdatePaused
  <2> QED
    BY <1>6, <1>8, <2>1, <2>2, <2>3, ZenonT(40) DEF Attempt
<1>9. CASE CreateDagRun \/ TogglePaused \/ UNCHANGED vars
  BY <1>1, <1>9 DEF CreateDagRun, TogglePaused, vars
<1> QED
  BY <1>0, <1>7, <1>8, <1>9, DagFacts DEF Next

=============================================================================
