---------------------------- MODULE MCScheduler ----------------------------
(***************************************************************************)
(* Scheduler with two targets and one worker.  The reload renames a target *)
(* that may be in flight, so that one name goes and one comes, and shortens *)
(* the interval of the other.                                              *)
(***************************************************************************)
EXTENDS Scheduler

Job(k, n, s, w) == [key |-> k, name |-> n, step |-> s, want |-> w]

MCBoot    == {Job("k1", "a", 3, 1), Job("k2", "b", 4, 5)}
MCRenamed == {Job("k1", "c", 3, 1), Job("k2", "b", 1, 5)}
MCConfigs == {MCBoot, MCRenamed}
=============================================================================
