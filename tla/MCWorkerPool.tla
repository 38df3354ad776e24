---------------------------- MODULE MCWorkerPool ----------------------------
(* WorkerPool on a small instance: a request for a bound method or one that *)
(* is not bound yet, and one whose payload is malformed.                    *)
EXTENDS WorkerPool, TLC

CONSTANTS r1, r2, add, sub

MCRequests == {r1, r2}
MCMethods == {add, sub}
MCMethodOf == r1 :> add @@ r2 :> sub
MCMalformed == {r2}
=============================================================================
