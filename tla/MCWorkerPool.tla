----------------------------- MODULE MCWorkerPool -----------------------------
(* A small instance of WorkerPool for TLC: one client more than workers.    *)
EXTENDS WorkerPool
=============================================================================
