---------------------------- MODULE MCWorkerPool ----------------------------
(* Two or three workers and a few tasks.                                     *)
EXTENDS WorkerPool
=============================================================================
