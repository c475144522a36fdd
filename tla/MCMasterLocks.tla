---------------------------- MODULE MCMasterLocks ----------------------------
(* Instances of MasterLocks for TLC.                                        *)
EXTENDS MasterLocks, TLC

CONSTANTS h1, h2

HandlerSymmetry == Permutations(Handlers)
=============================================================================
