------------------------- MODULE MCCriticalSection -------------------------
(***************************************************************************)
(* Small instances of CriticalSection: one pool of two slots, two runs of *)
(* a task limited to one at a time, and an urgent task that needs two      *)
(* slots; in one run one of the TIs belongs to a backfill.                 *)
(***************************************************************************)
EXTENDS CriticalSection, TLC

CONSTANTS a, b, c, d1

\* a and b are two runs of one task; c is another task, more urgent, needing two slots.
mc_dag == [t \in TI |-> d1]
mc_task == [t \in TI |-> IF t = c THEN "k2" ELSE "k1"]
mc_tasks == {"k1", "k2"}
mc_pool == [t \in TI |-> "p"]
mc_pools == {"p"}
mc_priority == [t \in TI |-> IF t = c THEN 2 ELSE 1]
mc_date == [t \in TI |-> IF t = a THEN 1 ELSE 2]

mc_pool_slots == [t \in TI |-> IF t = c THEN 2 ELSE 1]
mc_slots == [p \in Pool |-> 2]
mc_max_active == [d \in Dag |-> 2]
mc_task_concurrency == [k \in Task |-> IF k = "k1" THEN 1 ELSE NoLimit]

Symmetry == Permutations(Scheduler)

=============================================================================
