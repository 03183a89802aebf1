---------------------------- MODULE MCWorkerPool ----------------------------
(* A small instance of WorkerPool for TLC. *)
EXTENDS WorkerPool

CONSTANTS j1, j2, j3, w1, w2, w3, k1, k2

\* Two kills race for the job that only a kill can end.
MCTarget == [k \in Killers |-> j1]
=============================================================================
