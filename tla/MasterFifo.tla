----------------------------- MODULE MasterFifo -----------------------------
(***************************************************************************)
(* The Master with SCHEDULER = FIFO: scheduler_thread (master/src/main.c)  *)
(* over MasterCore.  There is no aging thread and nothing is evicted.      *)
(*                                                                         *)
(* Unlike the priority scheduler it marks the Worker busy, sends the PATH, *)
(* and only then marks the session active: three separate steps.           *)
(***************************************************************************)
EXTENDS MasterCore

Idle == [at |-> "idle", query |-> NoQuery, worker |-> NoWorker]

Init == CoreInit /\ sched = Idle

coreExceptSched == <<handler, monitor, wproc, clientVars, reached>>

\* Read lock on the sessions: the first pending one.  Sessions are appended as
\* they are submitted, so the first is the one of lowest id.
\* Variant: the newest is taken first.
LastReady(q) == Ready(q) /\ \A r \in query_sessions : Ready(r) => q >= r

FirstReady(q) == Ready(q) /\ \A r \in query_sessions : Ready(r) => q <= r

SchedFind ==
  /\ sched.at = "idle"
  /\ \E q \in query_sessions :
       /\ FirstReady(q)
       /\ sched' = [Idle EXCEPT !.at = "take_worker", !.query = q]
  /\ UNCHANGED <<sessVars, workerVars, netVars, coreExceptSched>>

\* Write lock on the Workers: the first idle one becomes busy.
SchedTakeWorker ==
  /\ sched.at = "take_worker"
  /\ \/ \E w \in Workers :
          /\ FirstIdle(w)
          /\ winfo' = [winfo EXCEPT ![w].is_busy = TRUE]
          /\ sched' = [sched EXCEPT !.at = "send_path", !.worker = w]
     \/ /\ NoneIdle
        /\ sched' = Idle
        /\ UNCHANGED winfo
  /\ UNCHANGED <<sessVars, workers_list, worker_count, netVars, coreExceptSched>>

\* No lock: the session is read while it is sent.
SchedSendPath ==
  /\ sched.at = "send_path"
  /\ \/ /\ SendToWorker(sched.worker, Path(sched.query, session[sched.query].pc))
        /\ sched' = [sched EXCEPT !.at = "activate"]
     \/ /\ SendToWorkerFails(sched.worker)
        /\ sched' = [sched EXCEPT !.at = "release"]
        /\ UNCHANGED to_worker
  /\ UNCHANGED <<sessVars, workerVars, to_master, coreExceptSched>>

\* Variants: the session is not marked active; it gets the id for the socket.
SchedActivateNothing ==
  /\ sched.at = "activate"
  /\ sched' = Idle
  /\ UNCHANGED <<sessVars, workerVars, netVars, coreExceptSched>>
SchedActivateMixedUp ==
  /\ sched.at = "activate"
  /\ session' = [session EXCEPT ![sched.query].is_active = TRUE,
                                ![sched.query].worker_socket = sched.query]
  /\ sched' = Idle
  /\ UNCHANGED <<next_query_id, query_sessions, queries_by_id, workerVars,
                 netVars, coreExceptSched>>

SchedActivate ==
  /\ sched.at = "activate"
  /\ session' = [session EXCEPT ![sched.query].is_active = TRUE,
                                ![sched.query].worker_socket = sched.worker]
  /\ sched' = Idle
  /\ UNCHANGED <<next_query_id, query_sessions, queries_by_id, workerVars,
                 netVars, coreExceptSched>>

SchedRelease ==
  /\ sched.at = "release"
  /\ winfo' = [winfo EXCEPT ![sched.worker].is_busy = FALSE]
  /\ sched' = Idle
  /\ UNCHANGED <<sessVars, workers_list, worker_count, netVars, coreExceptSched>>

SchedStep ==
  \/ SchedFind \/ SchedTakeWorker \/ SchedSendPath \/ SchedActivate
  \/ SchedRelease

Next == CoreNext \/ SchedStep

Spec == Init /\ [][Next]_vars

FairSpec == Spec /\ CoreFairness /\ WF_vars(SchedStep)

-----------------------------------------------------------------------------
TypeOK ==
  /\ CoreTypeOK
  /\ sched \in [at: {"idle", "take_worker", "send_path", "activate", "release"},
                query: Queries \cup {NoQuery}, worker: Workers \cup {NoWorker}]

\* Queries are handed out in submission order: no PATH is sent for a query
\* while an earlier one is READY.
DispatchesInOrder ==
  [][SchedSendPath =>
       \A q \in query_sessions : Ready(q) => sched.query <= q]_vars

\* A query is handed out once: at most one copy of it is on its way to a Worker
\* or running, although its session is marked active only after the PATH left.
Copies(q) ==
  Cardinality(Carrying(to_worker, "PATH", q, 0))
  + Cardinality({w \in Workers : wproc[w].state = "running" /\ wproc[w].query = q})

HandedOutOnce == \A q \in Queries : Copies(q) <= 1
=============================================================================
