--------------------------- MODULE MCWorkerMemory ---------------------------
(* Instances of WorkerMemory for TLC.                                       *)
EXTENDS WorkerMemory

CONSTANTS f1, f2, d1, d2
=============================================================================
