----------------------------- MODULE MCDelayedQueue -----------------------------
(* DelayedQueue with delays that are over, shorter than, equal to and longer *)
(* than the interval of the delayed worker.                                  *)
EXTENDS DelayedQueue

MCDelays == {-1, 0, 1, 2, 3}
=============================================================================
