--------------------------- MODULE MasterPriority ---------------------------
(***************************************************************************)
(* The Master with SCHEDULER = PRIORIDADES: scheduler_priority_thread and  *)
(* aging_thread (master/src/main.c) over MasterCore.                       *)
(*                                                                         *)
(* sched.at says which critical section or send the scheduler does next;   *)
(* sched.query, worker and victim are the pointers it keeps across the     *)
(* unlocks.  A freed session keeps its contents: what the code does with   *)
(* a pointer to it is done to a record no list holds any more.             *)
(***************************************************************************)
EXTENDS MasterCore

CONSTANT Aging   \* whether TIEMPO_AGING > 0, so that the aging thread runs

ASSUME AgingAssumption == Aging \in BOOLEAN

Idle == [at |-> "idle", query |-> NoQuery, worker |-> NoWorker,
         victim |-> NoQuery, pc |-> 0]

Init == CoreInit /\ sched = Idle

coreExceptSched == <<handler, monitor, wproc, clientVars, reached>>

\* Phases 1 and 2, both read locks: the READY session of smallest priority
\* (any, if several tie) and the first idle Worker.
SchedSnapshot ==
  /\ sched.at = "idle"
  /\ \E q \in query_sessions :
       /\ Ready(q)
       /\ \A r \in query_sessions :
            Ready(r) => session[q].priority <= session[r].priority
       /\ \/ \E w \in Workers :
               /\ FirstIdle(w)
               /\ sched' = [Idle EXCEPT !.at = "assign", !.query = q, !.worker = w]
          \/ /\ NoneIdle
             /\ sched' = [Idle EXCEPT !.at = "choose_victim", !.query = q]
  /\ UNCHANGED <<sessVars, workerVars, netVars, coreExceptSched>>

\* Phase 3, both read locks: the first active session, in the list sorted by
\* priority, whose priority is worse than the READY one's.
Evictable(q) ==
  {v \in query_sessions : /\ session[v].is_active
                          /\ session[v].priority > session[q].priority
                          /\ session[v].version < MaxVersion}

SchedChooseVictim ==
  /\ sched.at = "choose_victim"
  /\ \/ \E v \in Evictable(sched.query) :
          /\ \A u \in Evictable(sched.query) :
               session[v].priority <= session[u].priority
          /\ sched' = IF Registered(session[v].worker_socket)
                      THEN [sched EXCEPT !.at = "evict", !.victim = v,
                                         !.worker = session[v].worker_socket]
                      ELSE [sched EXCEPT !.at = "search"]
     \/ /\ Evictable(sched.query) = {}
        /\ sched' = [sched EXCEPT !.at = "search"]
  /\ UNCHANGED <<sessVars, workerVars, netVars, coreExceptSched>>

\* Variant: the version is not incremented.
SchedEvictSameVersion ==
  /\ sched.at = "evict"
  /\ session' = [session EXCEPT ![sched.victim].is_active = FALSE,
                                ![sched.victim].worker_socket = NoWorker]
  /\ sched' = [sched EXCEPT !.at = "await"]
  /\ UNCHANGED <<next_query_id, query_sessions, queries_by_id, workerVars,
                 netVars, coreExceptSched>>

SchedEvictSession ==
  /\ sched.at = "evict"
  /\ session' = [session EXCEPT ![sched.victim].version = @ + 1,
                                ![sched.victim].is_active = FALSE,
                                ![sched.victim].worker_socket = NoWorker]
  /\ sched' = [sched EXCEPT !.at = "await"]
  /\ UNCHANGED <<next_query_id, query_sessions, queries_by_id, workerVars,
                 netVars, coreExceptSched>>

SchedMarkAwaiting ==
  /\ sched.at = "await"
  /\ winfo' = [winfo EXCEPT ![sched.worker].awaiting_evict_response = TRUE,
                            ![sched.worker].expired = FALSE]
  /\ sched' = [sched EXCEPT !.at = "send_evict"]
  /\ UNCHANGED <<sessVars, workers_list, worker_count, netVars, coreExceptSched>>

SchedSendEvict ==
  /\ sched.at = "send_evict"
  /\ \/ /\ SendToWorker(sched.worker,
                        Evict(sched.victim, session[sched.victim].version))
        /\ sched' = [sched EXCEPT !.at = "search"]
     \/ /\ SendToWorkerFails(sched.worker)
        /\ sched' = [sched EXCEPT !.at = "evict_failed"]
        /\ UNCHANGED to_worker
  /\ UNCHANGED <<sessVars, workerVars, to_master, coreExceptSched>>

SchedEvictFailed ==
  /\ sched.at = "evict_failed"
  /\ winfo' = [winfo EXCEPT ![sched.worker].awaiting_evict_response = FALSE,
                            ![sched.worker].expired = FALSE]
  /\ sched' = [sched EXCEPT !.at = "search"]
  /\ UNCHANGED <<sessVars, workers_list, worker_count, netVars, coreExceptSched>>

\* Phase 4, read lock on the Workers: look for an idle one again.
SchedSearch ==
  /\ sched.at = "search"
  /\ \/ \E w \in Workers :
          /\ FirstIdle(w)
          /\ sched' = [sched EXCEPT !.at = "assign", !.worker = w]
     \/ /\ NoneIdle
        /\ sched' = Idle
  /\ UNCHANGED <<sessVars, workerVars, netVars, coreExceptSched>>

\* Variants: the session is not marked active; the Worker is not marked busy.
AssignTo(busy, active) ==
  /\ sched.at = "assign"
  /\ Ready(sched.query)
  /\ winfo' = [winfo EXCEPT ![sched.worker].is_busy = busy]
  /\ session' = [session EXCEPT
       ![sched.query].is_active = active,
       ![sched.query].worker_socket = IF active THEN sched.worker ELSE NoWorker]
  /\ sched' = [sched EXCEPT !.at = "send_path", !.pc = session[sched.query].pc]
  /\ UNCHANGED <<next_query_id, query_sessions, queries_by_id, workers_list,
                 worker_count, netVars, coreExceptSched>>
SchedAssignReady == AssignTo(TRUE, FALSE)
SchedAssignIdle == AssignTo(FALSE, TRUE)

\* Both write locks.  The session is looked at again, the Worker is not.
SchedAssign ==
  /\ sched.at = "assign"
  /\ \/ /\ Ready(sched.query)
        /\ winfo' = [winfo EXCEPT ![sched.worker].is_busy = TRUE]
        /\ session' = [session EXCEPT
             ![sched.query].is_active = TRUE,
             ![sched.query].worker_socket = sched.worker]
        /\ sched' = [sched EXCEPT !.at = "send_path",
                                  !.pc = session[sched.query].pc]
     \/ /\ ~Ready(sched.query)
        /\ winfo' = [winfo EXCEPT ![sched.worker].is_busy = FALSE]
        /\ sched' = Idle
        /\ UNCHANGED session
  /\ UNCHANGED <<next_query_id, query_sessions, queries_by_id, workers_list,
                 worker_count, netVars, coreExceptSched>>

SchedSendPath ==
  /\ sched.at = "send_path"
  /\ \/ /\ SendToWorker(sched.worker, Path(sched.query, sched.pc))
        /\ sched' = Idle
     \/ /\ SendToWorkerFails(sched.worker)
        /\ sched' = [sched EXCEPT !.at = "revert"]
        /\ UNCHANGED to_worker
  /\ UNCHANGED <<sessVars, workerVars, to_master, coreExceptSched>>

SchedRevert ==
  /\ sched.at = "revert"
  /\ session' = IF sched.query \in query_sessions
                THEN [session EXCEPT ![sched.query].is_active = FALSE,
                                     ![sched.query].worker_socket = NoWorker]
                ELSE session
  /\ winfo' = [winfo EXCEPT ![sched.worker].is_busy = FALSE]
  /\ sched' = Idle
  /\ UNCHANGED <<next_query_id, query_sessions, queries_by_id, workers_list,
                 worker_count, netVars, coreExceptSched>>

SchedStep ==
  \/ SchedSnapshot \/ SchedChooseVictim \/ SchedEvictSession
  \/ SchedMarkAwaiting \/ SchedSendEvict \/ SchedEvictFailed \/ SchedSearch
  \/ SchedAssign \/ SchedSendPath \/ SchedRevert

\* Variant: priority 1 is not a floor.
AgeWithoutFloor ==
  /\ Aging
  /\ \E q \in query_sessions :
       /\ Ready(q)
       /\ session' = [session EXCEPT ![q].priority = @ - 1]
  /\ UNCHANGED <<next_query_id, query_sessions, queries_by_id, workerVars,
                 sched, netVars, coreExceptSched>>

\* Variant: sessions that are being executed age too.
AgeActiveToo ==
  /\ Aging
  /\ \E q \in query_sessions :
       /\ session[q].priority > 1
       /\ session' = [session EXCEPT ![q].priority = @ - 1]
  /\ UNCHANGED <<next_query_id, query_sessions, queries_by_id, workerVars,
                 sched, netVars, coreExceptSched>>

\* aging_thread, write lock on the sessions: those READY for long enough and
\* not yet at priority 1 get one level better.
Age ==
  /\ Aging
  /\ \E aged \in SUBSET {q \in query_sessions : /\ Ready(q)
                                                 /\ session[q].priority > 1} :
       /\ aged # {}
       /\ session' = [q \in Queries |->
            IF q \in aged THEN [session[q] EXCEPT !.priority = @ - 1]
                          ELSE session[q]]
  /\ UNCHANGED <<next_query_id, query_sessions, queries_by_id, workerVars,
                 sched, netVars, coreExceptSched>>

Next == CoreNext \/ SchedStep \/ Age

Spec == Init /\ [][Next]_vars

FairSpec == Spec /\ CoreFairness /\ WF_vars(SchedStep) /\ WF_vars(Age)

-----------------------------------------------------------------------------
(***************************************************************************)
(* The service the Master gives, as QueryService has it.                   *)
(***************************************************************************)
Executing(q) == q \in query_sessions /\ session[q].is_active
Phase(q) ==
  IF q >= next_query_id THEN "unknown"
  ELSE IF q \notin query_sessions THEN "closed"
  ELSE IF session[q].is_active THEN "executing" ELSE "waiting"

QS == INSTANCE QueryService WITH
  Servers <- Workers, NoServer <- NoWorker, Length <- Last + 1,
  phase <- [q \in Queries |-> Phase(q)],
  server <- [q \in Queries |-> IF Executing(q) THEN session[q].worker_socket
                                               ELSE NoWorker],
  done <- reached,
  answers <- results,
  left <- [q \in Queries |-> qc[q] = "gone"]

\* Whatever is evicted, crashes or leaves, each step of the Master and the
\* Workers is one of the service: queries are closed only after an answer or a
\* departure, once, and are executed without a gap.
ImplementsService == QS!Spec

\* With one priority and no failure each step is one of the calm service: one
\* execution, by one Worker that has no other query, and one answer after the
\* last instruction.
ImplementsCalmService == QS!CalmSpec

-----------------------------------------------------------------------------
TypeOK ==
  /\ CoreTypeOK
  /\ sched \in [at: {"idle", "choose_victim", "evict", "await", "send_evict",
                     "evict_failed", "search", "assign", "send_path", "revert"},
                query: Queries \cup {NoQuery}, worker: Workers \cup {NoWorker},
                victim: Queries \cup {NoQuery}, pc: Nat]

\* The session pointers the scheduler dereferences are listed too.
SchedulerPointersAlive ==
  /\ sched.at \in {"choose_victim", "send_path"} => sched.query \in query_sessions
  /\ sched.at \in {"evict", "await", "send_evict"} => sched.victim \in query_sessions

\* A query is evicted only for one that is better at that very moment, although
\* aging runs between the choice of the READY query, the choice of the victim
\* and the eviction.
EvictsOnlyWorse ==
  sched.at = "evict" =>
    session[sched.victim].priority > session[sched.query].priority

\* Aging and preemption never make a waiting query's priority worse, nor
\* better than 1 unless it was submitted so.
PriorityOnlyImproves ==
  [][\A q \in query_sessions :
       q \in query_sessions' =>
         session'[q].priority \in {session[q].priority}
            \cup {p \in 1 .. session[q].priority : p = session[q].priority - 1}]_vars
=============================================================================
