--------------------------- MODULE DagRunMapping ---------------------------
(***************************************************************************)
(* DagRunScheduling implements DagRunPromise: the refinement mapping.      *)
(***************************************************************************)
EXTENDS DagRunScheduling

(* The abstract state of a task instance.                                  *)
Abstract(st) ==
  CASE st \in SCHEDULEABLE_STATES -> "waiting"
    [] st \in {"scheduled", "queued", "running"} -> "executing"
    [] OTHER -> st

Promise ==
  INSTANCE DagRunPromise WITH
    ti <- [r \in Run |-> [t \in Task |-> Abstract(ti[r][t])]]

(* The schedulers, the mini schedulers and the jobs of a paused DAG keep   *)
(* the promise that a DAG makes to its author, although each of them acts  *)
(* on task instances that it read earlier.                                 *)
PromiseKept == Promise!Spec

=============================================================================
