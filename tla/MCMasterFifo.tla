---------------------------- MODULE MCMasterFifo ----------------------------
(* Instances of MasterFifo for TLC.                                         *)
EXTENDS MasterFifo, TLC

CONSTANTS w1, w2

NoFaults == {}
CrashFaults == {"worker_crash", "query_error"}
WorkerSymmetry == Permutations(Workers)
None == {}
OnePriority == {1}
Zero == {0}
=============================================================================
