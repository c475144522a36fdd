-------------------------- MODULE MCMasterPriority --------------------------
(* Instances of MasterPriority for TLC.                                     *)
EXTENDS MasterPriority, TLC

CONSTANTS w1, w2

NoFaults == {}
CrashFaults == {"worker_crash"}
QcFaults == {"qc_leaves"}
WorkerSymmetry == Permutations(Workers)
None == {}
OnePriority == {1}
TwoPriorities == {1, 2}
OnlyFour == {4}
Zero == {0}

\* The bound of master_aging: every query is submitted and confirmed before the
\* first assignment, and the run stops at the first final result.
Contended ==
  /\ \A q \in Queries : results[q] = <<>>
  /\ next_query_id < NQ \/ confirming # {} => sched = Idle

\* The bound of master_preempt: nothing but submissions and registrations goes
\* on while a confirmation is still to be sent, and at most one Worker crashes.
NothingUnderWay ==
  /\ sched.at = "idle" /\ monitor.at = "scan"
  /\ \A w \in Workers : /\ to_worker[w] = <<>> /\ to_master[w] = <<>>
                        /\ handler[w].at \in {"accept", "poll"}
OneCrashAtMost ==
  /\ confirming # {} => NothingUnderWay
  /\ Cardinality({w \in Workers : wproc[w].state = "crashed"}) <= 1
=============================================================================
