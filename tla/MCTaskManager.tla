---------------------------- MODULE MCTaskManager ----------------------------
(* TaskManager on a small instance: one task waits one pass of the delayed *)
(* worker, the other none.                                                 *)
EXTENDS TaskManager, TLC

CONSTANTS t1, t2

MCTasks == {t1, t2}
MCDelay == t1 :> 1 @@ t2 :> 0

WorkerSymmetry == Permutations(Workers)
=============================================================================
