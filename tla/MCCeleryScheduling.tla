------------------------- MODULE MCCeleryScheduling -------------------------
(* Instances of CeleryScheduling for TLC.                                  *)
EXTENDS CeleryScheduling, TLC

\* Schedulers are alike, and so are worker processes.
Symmetry == Permutations(Schedulers) \cup Permutations(Procs)

Scenario(events, n) == [may |-> events, commands |-> n]

mc_safety ==
  {Scenario({"retry", "reschedule", "requeue", "batch"}, 2),
   Scenario({"crash", "publish_timeout", "publish_error", "batch"}, 2),
   Scenario({"retry", "publish_error", "batch"}, 3),
   Scenario({"stall"}, 1), Scenario({"redeliver"}, 1)}

mc_live ==
  {Scenario({"crash", "batch"}, 2), Scenario({"crash", "retry"}, 2),
   Scenario({"retry", "publish_error", "batch"}, 2)}

mc_requeue == {Scenario({"requeue"}, 2)}
mc_adopt == {Scenario({"crash"}, 2)}
mc_redeliver == {Scenario({"redeliver"}, 1)}

=============================================================================
