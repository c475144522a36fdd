----------------------------- MODULE MasterCore -----------------------------
(***************************************************************************)
(* What the Master (master/src) does whatever its scheduling algorithm:    *)
(* admission of Query Controls and Workers, the per-Worker handler thread, *)
(* the watchdog, the connection monitor, and the Workers at the other end  *)
(* of the sockets.  The scheduler threads are in MasterPriority and        *)
(* MasterFifo, which extend this module.                                   *)
(*                                                                         *)
(* Every critical section under query_sessions_rwlock or                   *)
(* workers_list_rwlock is one action; what a thread carries from one       *)
(* section to the next (pointers, copies) is in its own record: `sched`,   *)
(* `handler[w]`, `monitor`.  A Worker is named by its Master socket.       *)
(***************************************************************************)
EXTENDS Integers, Sequences, FiniteSets

CONSTANTS
  NQ,               \* bound: number of queries submitted, ids 0 .. NQ-1
  Workers,          \* the Worker connections that may register
  NoWorker,         \* worker_socket == -1
  Priorities,       \* priorities a Query Control may ask for
  UninitVersions,   \* what malloc may leave in session->version
  MaxVersion,       \* bound: no eviction once a session's version reaches it
  Last,             \* index of the END instruction of every script
  Unreadable,       \* the queries whose script the Worker cannot open
  Faults            \* subset of {"worker_crash", "qc_leaves", "query_error"}

Queries == 0 .. NQ - 1
NoQuery == -1

ASSUME MasterAssumption ==
  /\ NQ \in Nat
  /\ NoWorker \notin Workers
  /\ Priorities \subseteq Nat
  /\ UninitVersions \subseteq Nat
  /\ MaxVersion \in Nat
  /\ Last \in Nat
  /\ Unreadable \subseteq Queries

VARIABLES
  next_query_id,    \* the id the next submit gets
  query_sessions,   \* the sessions in the t_list, by id
  queries_by_id,    \* the ids the dictionary maps to a session
  session,          \* t_query_session, by id
  workers_list,     \* the registered Workers, in registration order
  winfo,            \* t_worker_info, by socket
  worker_count,     \* the multiprocessing level
  sched,            \* the scheduler thread's local variables
  handler,          \* handle_client_thread's local variables, per Worker
  monitor,          \* check_connections_thread's local variables
  to_worker,        \* bytes the Master sent and the Worker has not read
  to_master,        \* bytes the Worker sent and the Master has not read
  wproc,            \* the Worker process
  qc,               \* the Query Control's socket: "none", "open", "gone"
  confirming,       \* submits whose confirmation is still to be sent
  results,          \* history: final results sent to each Query Control
  reached           \* history: instructions of each query executed at least once

sessVars == <<next_query_id, query_sessions, queries_by_id, session>>
workerVars == <<workers_list, winfo, worker_count>>
netVars == <<to_worker, to_master>>
clientVars == <<qc, confirming, results>>
vars == <<sessVars, workerVars, sched, handler, monitor, netVars, wproc,
          clientVars, reached>>

(***************************************************************************)
(* Data                                                                    *)
(***************************************************************************)
Versions == Nat
Session == [is_active: BOOLEAN, worker_socket: Workers \cup {NoWorker},
            priority: Nat, pc: Nat, version: Versions]
WorkerInfo == [is_busy: BOOLEAN, awaiting_evict_response: BOOLEAN,
               expired: BOOLEAN]
IdleWorker == [is_busy |-> FALSE, awaiting_evict_response |-> FALSE,
               expired |-> FALSE]

\* Messages.  JUNK is what is left of a message whose first bytes a running
\* Worker swallowed while it looked for an EVICT.
Path(q, pc) == [op |-> "PATH", query |-> q, pc |-> pc, version |-> 0]
Evict(q, v) == [op |-> "EVICT", query |-> q, pc |-> 0, version |-> v]
Junk == [op |-> "JUNK", query |-> NoQuery, pc |-> 0, version |-> 0]
Ack(q, pc, v) == [op |-> "EVICT_ACK", query |-> q, pc |-> pc, version |-> v]
Finished(q) == [op |-> "FINISHED", query |-> q, pc |-> 0, version |-> 0]
Error(q) == [op |-> "ERROR", query |-> q, pc |-> 0, version |-> 0]
Msg == [op: {"PATH", "EVICT", "JUNK", "EVICT_ACK", "FINISHED", "ERROR"},
        query: Queries \cup {NoQuery}, pc: Nat, version: Versions]

WorkerProc == [state: {"off", "idle", "running", "stopped", "crashed"},
               query: Queries \cup {NoQuery}, pc: Nat]

\* Where handle_client_thread is, the session pointer and the message it holds;
\* where check_connections_thread is, the Worker and the session it holds.
HandlerState == [at: {"accept", "poll", "send", "free_worker", "remove_session",
                      "apply_ack", "ack_worker", "ended"},
                 query: Queries \cup {NoQuery}, msg: Msg]
MonitorState == [at: {"scan", "check", "find", "remove_worker", "send_error",
                      "close_session"},
                 worker: Workers \cup {NoWorker}, query: Queries \cup {NoQuery}]

Registered(w) == \E i \in DOMAIN workers_list : workers_list[i] = w
Ready(q) == q \in query_sessions /\ ~session[q].is_active
ActiveOn(w) == {q \in query_sessions : /\ session[q].is_active
                                       /\ session[q].worker_socket = w}

\* The first entry of workers_list that is not busy.
FirstIdle(w) ==
  \E i \in DOMAIN workers_list :
    /\ workers_list[i] = w
    /\ ~winfo[w].is_busy
    /\ \A j \in 1 .. i - 1 : winfo[workers_list[j]].is_busy
NoneIdle == \A i \in DOMAIN workers_list : winfo[workers_list[i]].is_busy

Closed(w) == wproc[w].state \in {"stopped", "crashed"}
\* is_connection_active: unread bytes count as an active connection.
Disconnected(w) == Closed(w) /\ to_master[w] = <<>>

CoreInit ==
  /\ next_query_id = 0
  /\ query_sessions = {}
  /\ queries_by_id = {}
  /\ session = [q \in Queries |-> [is_active |-> FALSE,
                  worker_socket |-> NoWorker, priority |-> 0, pc |-> 0,
                  version |-> 0]]
  /\ workers_list = <<>>
  /\ winfo = [w \in Workers |-> IdleWorker]
  /\ worker_count = 0
  /\ handler = [w \in Workers |-> [at |-> "accept", query |-> NoQuery,
                                   msg |-> Junk]]
  /\ monitor = [at |-> "scan", worker |-> NoWorker, query |-> NoQuery]
  /\ to_worker = [w \in Workers |-> <<>>]
  /\ to_master = [w \in Workers |-> <<>>]
  /\ wproc = [w \in Workers |-> [state |-> "off", query |-> NoQuery, pc |-> 0]]
  /\ qc = [q \in Queries |-> "none"]
  /\ confirming = {}
  /\ results = [q \in Queries |-> <<>>]
  /\ reached = [q \in Queries |-> 0]

-----------------------------------------------------------------------------
(***************************************************************************)
(* Query Controls: submit, confirmation, disconnection.                    *)
(***************************************************************************)

\* A Query Control connects and submits; the handler creates the session and
\* lists it under the write lock.
Submit ==
  /\ next_query_id \in Queries
  /\ \E p \in Priorities, v \in UninitVersions :
       session' = [session EXCEPT ![next_query_id] =
                     [is_active |-> FALSE, worker_socket |-> NoWorker,
                      priority |-> p, pc |-> 0, version |-> v]]
  /\ query_sessions' = query_sessions \cup {next_query_id}
  /\ queries_by_id' = queries_by_id \cup {next_query_id}
  /\ next_query_id' = next_query_id + 1
  /\ qc' = [qc EXCEPT ![next_query_id] = "open"]
  /\ confirming' = confirming \cup {next_query_id}
  /\ UNCHANGED <<workerVars, sched, handler, monitor, netVars, wproc, results,
                 reached>>

\* The confirmation is sent (a first send to a closed peer also succeeds).
Confirm(q) ==
  /\ q \in confirming
  /\ confirming' = confirming \ {q}
  /\ UNCHANGED <<sessVars, workerVars, sched, handler, monitor, netVars, wproc,
                 qc, results, reached>>

\* The confirmation cannot be sent: the session is unlisted, unindexed and freed.
ConfirmFails(q) ==
  /\ q \in confirming
  /\ qc[q] = "gone"
  /\ confirming' = confirming \ {q}
  /\ query_sessions' = query_sessions \ {q}
  /\ queries_by_id' = queries_by_id \ {q}
  /\ UNCHANGED <<next_query_id, session, workerVars, sched, handler, monitor,
                 netVars, wproc, qc, results, reached>>

\* The Query Control goes away.  Its client type is never set to
\* CLIENT_TYPE_QUERY_CONTROL, so neither its handler nor the monitor touches
\* its session: they only close the socket.
QueryControlLeaves(q) ==
  /\ "qc_leaves" \in Faults
  /\ qc[q] = "open"
  /\ qc' = [qc EXCEPT ![q] = "gone"]
  /\ UNCHANGED <<sessVars, workerVars, sched, handler, monitor, netVars, wproc,
                 confirming, results, reached>>

\* protocol_send_query_result: a send to a Query Control that left may fail or
\* be accepted by the local socket buffer.
SendResult(q, text) ==
  results' = IF qc[q] = "open" THEN [results EXCEPT ![q] = Append(@, text)]
                               ELSE results
SendResultFails(q) == qc[q] = "gone"

-----------------------------------------------------------------------------
(***************************************************************************)
(* Workers: registration and the handler thread of a Worker connection.    *)
(***************************************************************************)
Register(w) ==
  /\ handler[w].at = "accept"
  /\ handler' = [handler EXCEPT ![w].at = "poll"]
  /\ workers_list' = Append(workers_list, w)
  /\ winfo' = [winfo EXCEPT ![w] = IdleWorker]
  /\ worker_count' = worker_count + 1
  /\ wproc' = [wproc EXCEPT ![w].state = "idle"]
  /\ UNCHANGED <<sessVars, sched, monitor, netVars, clientVars, reached>>

Incoming(w, ops) ==
  /\ handler[w].at = "poll"
  /\ to_master[w] # <<>>
  /\ Head(to_master[w]).op \in ops
  /\ to_master' = [to_master EXCEPT ![w] = Tail(@)]

\* Variant: the session is looked up without comparing sockets.
HandleEndOfAnyQuery(w) ==
  /\ Incoming(w, {"FINISHED", "ERROR"})
  /\ \E q \in query_sessions :
       handler' = [handler EXCEPT ![w] =
                     [at |-> "send", query |-> q, msg |-> Head(to_master[w])]]
  /\ UNCHANGED <<sessVars, workerVars, sched, monitor, to_worker, wproc,
                 clientVars, reached>>

\* QUERY_FINISHED / QUERY_ERROR: the session is looked up by the socket, not by
\* the id in the message; without an active one the message is dropped.
HandleEndOfQuery(w) ==
  /\ Incoming(w, {"FINISHED", "ERROR"})
  /\ \/ /\ ActiveOn(w) = {}
        /\ UNCHANGED handler
     \/ \E q \in ActiveOn(w) :
          handler' = [handler EXCEPT ![w] =
                        [at |-> "send", query |-> q, msg |-> Head(to_master[w])]]
  /\ UNCHANGED <<sessVars, workerVars, sched, monitor, to_worker, wproc,
                 clientVars, reached>>

\* Variant: the session is closed without telling the Query Control.
HandlerSkipsResult(w) ==
  /\ handler[w].at = "send"
  /\ handler' = [handler EXCEPT ![w].at = "free_worker"]
  /\ UNCHANGED <<sessVars, workerVars, sched, monitor, netVars, wproc,
                 clientVars, reached>>

\* The result goes to the Query Control; if it cannot be sent the handler
\* `continue`s with the message already consumed.
HandlerSendResult(w) ==
  /\ handler[w].at = "send"
  /\ \/ /\ SendResult(handler[w].query, handler[w].msg.op)
        /\ handler' = [handler EXCEPT ![w].at = "free_worker"]
     \/ /\ SendResultFails(handler[w].query)
        /\ handler' = [handler EXCEPT ![w].at = "poll"]
        /\ UNCHANGED results
  /\ UNCHANGED <<sessVars, workerVars, sched, monitor, netVars, wproc, qc,
                 confirming, reached>>

HandlerFreeWorker(w) ==
  /\ handler[w].at = "free_worker"
  /\ handler' = [handler EXCEPT ![w].at = "remove_session"]
  /\ winfo' = IF Registered(w) THEN [winfo EXCEPT ![w].is_busy = FALSE]
                               ELSE winfo
  /\ UNCHANGED <<sessVars, workers_list, worker_count, sched, monitor, netVars,
                 wproc, clientVars, reached>>

\* Variant: the session leaves the dictionary and stays in the list.
HandlerUnindexesSession(w) ==
  /\ handler[w].at = "remove_session"
  /\ handler' = [handler EXCEPT ![w].at = "poll"]
  /\ queries_by_id' = queries_by_id \ {handler[w].query}
  /\ UNCHANGED <<next_query_id, query_sessions, session, workerVars, sched,
                 monitor, netVars, wproc, clientVars, reached>>

HandlerRemoveSession(w) ==
  /\ handler[w].at = "remove_session"
  /\ handler' = [handler EXCEPT ![w].at = "poll"]
  /\ query_sessions' = query_sessions \ {handler[w].query}
  /\ queries_by_id' = queries_by_id \ {handler[w].query}
  /\ UNCHANGED <<next_query_id, session, workerVars, sched, monitor, netVars,
                 wproc, clientVars, reached>>

\* EVICT_ACK: lookup by id, and the checks made after the lock is released.
AckValid(m) ==
  /\ m.query \in queries_by_id
  /\ m.version = session[m.query].version
  /\ ~session[m.query].is_active
  /\ session[m.query].worker_socket = NoWorker

HandleEvictAck(w) ==
  /\ Incoming(w, {"EVICT_ACK"})
  /\ LET m == Head(to_master[w]) IN
       handler' = IF AckValid(m)
                  THEN [handler EXCEPT ![w] =
                          [at |-> "apply_ack", query |-> m.query, msg |-> m]]
                  ELSE handler
  /\ UNCHANGED <<sessVars, workerVars, sched, monitor, to_worker, wproc,
                 clientVars, reached>>

HandlerApplyAck(w) ==
  /\ handler[w].at = "apply_ack"
  /\ handler' = [handler EXCEPT ![w].at = "ack_worker"]
  /\ session' = [session EXCEPT ![handler[w].query].pc = handler[w].msg.pc]
  /\ UNCHANGED <<next_query_id, query_sessions, queries_by_id, workerVars,
                 sched, monitor, netVars, wproc, clientVars, reached>>

HandlerAckWorker(w) ==
  /\ handler[w].at = "ack_worker"
  /\ handler' = [handler EXCEPT ![w].at = "poll"]
  /\ winfo' = IF Registered(w) THEN [winfo EXCEPT ![w] = IdleWorker] ELSE winfo
  /\ UNCHANGED <<sessVars, workers_list, worker_count, sched, monitor, netVars,
                 wproc, clientVars, reached>>

\* The Worker's end of the socket is closed.  Usually the loop condition sees
\* it and the thread ends with nothing cleaned up ...
HandlerEnds(w) ==
  /\ handler[w].at = "poll"
  /\ Disconnected(w)
  /\ handler' = [handler EXCEPT ![w].at = "ended"]
  /\ UNCHANGED <<sessVars, workerVars, sched, monitor, netVars, wproc,
                 clientVars, reached>>

\* ... but if the FIN arrives between that test and the peek, the thread marks
\* the Worker idle before it ends.
HandlerEndsAtPeek(w) ==
  /\ handler[w].at = "poll"
  /\ Disconnected(w)
  /\ handler' = [handler EXCEPT ![w].at = "ended"]
  /\ winfo' = IF Registered(w) THEN [winfo EXCEPT ![w] = IdleWorker] ELSE winfo
  /\ UNCHANGED <<sessVars, workers_list, worker_count, sched, monitor, netVars,
                 wproc, clientVars, reached>>

HandlerStep(w) ==
  \/ HandleEndOfQuery(w) \/ HandlerSendResult(w) \/ HandlerFreeWorker(w)
  \/ HandlerRemoveSession(w) \/ HandleEvictAck(w) \/ HandlerApplyAck(w)
  \/ HandlerAckWorker(w) \/ HandlerEnds(w) \/ HandlerEndsAtPeek(w)

-----------------------------------------------------------------------------
(***************************************************************************)
(* Watchdog: phase 2.  Each turn of its loop reads the sessions anew; the  *)
(* Workers write lock it holds from one turn to the next only makes the    *)
(* turns of one scan follow each other.                                    *)
(***************************************************************************)
\* Variants: a Worker with an active session is stale too; a Worker that owes an
\* EVICT_ACK never is.
StaleWhateverRuns(w) ==
  /\ Registered(w)
  /\ winfo[w].is_busy
  /\ winfo[w].awaiting_evict_response => winfo[w].expired
StaleUnlessAwaiting(w) ==
  /\ Registered(w)
  /\ winfo[w].is_busy
  /\ ActiveOn(w) = {}
  /\ ~winfo[w].awaiting_evict_response

Stale(w) ==
  /\ Registered(w)
  /\ winfo[w].is_busy
  /\ ActiveOn(w) = {}
  /\ winfo[w].awaiting_evict_response => winfo[w].expired

Watchdog(w) ==
  /\ Stale(w)
  /\ winfo' = [winfo EXCEPT ![w] = IdleWorker]
  /\ UNCHANGED <<sessVars, workers_list, worker_count, sched, handler, monitor,
                 netVars, wproc, clientVars, reached>>

\* More than 40 s pass since evict_request_time.
EvictDeadline(w) ==
  /\ winfo[w].awaiting_evict_response
  /\ ~winfo[w].expired
  /\ winfo' = [winfo EXCEPT ![w].expired = TRUE]
  /\ UNCHANGED <<sessVars, workers_list, worker_count, sched, handler, monitor,
                 netVars, wproc, clientVars, reached>>

-----------------------------------------------------------------------------
(***************************************************************************)
(* check_connections_thread on a Worker connection.                        *)
(***************************************************************************)
\* Only busy Workers are checked, for 300 ms, after the flag is read.
MonitorPick(w) ==
  /\ monitor.at = "scan"
  /\ Registered(w)
  /\ winfo[w].is_busy
  /\ monitor' = [at |-> "check", worker |-> w, query |-> NoQuery]
  /\ UNCHANGED <<sessVars, workerVars, sched, handler, netVars, wproc,
                 clientVars, reached>>

\* Variant: one failed check, of any kind, is enough.
MonitorTrustsNothing ==
  /\ monitor.at = "check"
  /\ monitor' = [monitor EXCEPT !.at = "find"]
  /\ UNCHANGED <<sessVars, workerVars, sched, handler, netVars, wproc,
                 clientVars, reached>>

MonitorCheck ==
  /\ monitor.at = "check"
  /\ monitor' = IF Disconnected(monitor.worker)
                THEN [monitor EXCEPT !.at = "find"]
                ELSE [at |-> "scan", worker |-> NoWorker, query |-> NoQuery]
  /\ UNCHANGED <<sessVars, workerVars, sched, handler, netVars, wproc,
                 clientVars, reached>>

MonitorFindQuery ==
  /\ monitor.at = "find"
  /\ \/ /\ ActiveOn(monitor.worker) = {}
        /\ monitor' = [monitor EXCEPT !.at = "remove_worker"]
     \/ \E q \in ActiveOn(monitor.worker) :
          monitor' = [monitor EXCEPT !.at = "remove_worker", !.query = q]
  /\ UNCHANGED <<sessVars, workerVars, sched, handler, netVars, wproc,
                 clientVars, reached>>

MonitorRemoveWorker ==
  /\ monitor.at = "remove_worker"
  /\ \E i \in DOMAIN workers_list :
       /\ workers_list[i] = monitor.worker
       /\ workers_list' = SubSeq(workers_list, 1, i - 1)
                            \o SubSeq(workers_list, i + 1, Len(workers_list))
  /\ worker_count' = IF worker_count > 0 THEN worker_count - 1 ELSE 0
  /\ monitor' = IF monitor.query = NoQuery
                THEN [at |-> "scan", worker |-> NoWorker, query |-> NoQuery]
                ELSE [monitor EXCEPT !.at = "send_error"]
  /\ UNCHANGED <<sessVars, winfo, sched, handler, netVars, wproc, clientVars,
                 reached>>

\* Variant: the session is closed without telling the Query Control.
MonitorSkipsError ==
  /\ monitor.at = "send_error"
  /\ monitor' = [monitor EXCEPT !.at = "close_session"]
  /\ UNCHANGED <<sessVars, workerVars, sched, handler, netVars, wproc,
                 clientVars, reached>>

\* The outcome of this send is not looked at.
MonitorSendError ==
  /\ monitor.at = "send_error"
  /\ monitor' = [monitor EXCEPT !.at = "close_session"]
  /\ SendResult(monitor.query, "ERROR")
  /\ UNCHANGED <<sessVars, workerVars, sched, handler, netVars, wproc, qc,
                 confirming, reached>>

\* The session is unlisted and freed, but stays in queries_by_id.
MonitorCloseSession ==
  /\ monitor.at = "close_session"
  /\ monitor' = [at |-> "scan", worker |-> NoWorker, query |-> NoQuery]
  /\ query_sessions' = query_sessions \ {monitor.query}
  /\ UNCHANGED <<next_query_id, queries_by_id, session, workerVars, sched,
                 handler, netVars, wproc, clientVars, reached>>

MonitorStep ==
  \/ \E w \in Workers : MonitorPick(w)
  \/ MonitorCheck \/ MonitorFindQuery \/ MonitorRemoveWorker \/ MonitorSendError
  \/ MonitorCloseSession

-----------------------------------------------------------------------------
(***************************************************************************)
(* The Worker process: main loop, ejecutar_tarea, chequear_desalojo_master.*)
(***************************************************************************)
\* The main loop reads a PATH.  A script that cannot be opened ends the task
\* without a word to the Master; any other message ends the process.
WorkerReceive(w) ==
  /\ wproc[w].state = "idle"
  /\ to_worker[w] # <<>>
  /\ to_worker' = [to_worker EXCEPT ![w] = Tail(@)]
  /\ LET m == Head(to_worker[w]) IN
       wproc' = [wproc EXCEPT ![w] =
         IF m.op # "PATH" THEN [state |-> "stopped", query |-> NoQuery, pc |-> 0]
         ELSE IF m.query \in Unreadable THEN @
         ELSE [state |-> "running", query |-> m.query, pc |-> m.pc]]
  /\ UNCHANGED <<sessVars, workerVars, sched, handler, monitor, to_master,
                 clientVars, reached>>

EvictPending(w) ==
  /\ to_worker[w] # <<>>
  /\ Head(to_worker[w]).op = "EVICT"
  /\ Head(to_worker[w]).query = wproc[w].query

\* Variant: the Worker reports the instruction after the one it did not start.
WorkerYieldsNext(w) ==
  /\ wproc[w].state = "running"
  /\ EvictPending(w)
  /\ to_worker' = [to_worker EXCEPT ![w] = Tail(@)]
  /\ to_master' = [to_master EXCEPT ![w] =
        Append(@, Ack(wproc[w].query, wproc[w].pc + 1, Head(to_worker[w]).version))]
  /\ wproc' = [wproc EXCEPT ![w] = [state |-> "idle", query |-> NoQuery, pc |-> 0]]
  /\ UNCHANGED <<sessVars, workerVars, sched, handler, monitor, clientVars,
                 reached>>

\* Before an instruction the Worker finds an EVICT for its query: it answers
\* with its program counter and goes back to the main loop.
WorkerYields(w) ==
  /\ wproc[w].state = "running"
  /\ EvictPending(w)
  /\ to_worker' = [to_worker EXCEPT ![w] = Tail(@)]
  /\ to_master' = [to_master EXCEPT ![w] =
        Append(@, Ack(wproc[w].query, wproc[w].pc, Head(to_worker[w]).version))]
  /\ wproc' = [wproc EXCEPT ![w] = [state |-> "idle", query |-> NoQuery, pc |-> 0]]
  /\ UNCHANGED <<sessVars, workerVars, sched, handler, monitor, clientVars,
                 reached>>

\* What the check before an instruction swallows when the pending bytes are not
\* an EVICT for the running query.
CheckSwallows(w) ==
  \/ /\ to_worker[w] = <<>>
     /\ UNCHANGED to_worker
  \/ /\ to_worker[w] # <<>>
     /\ Head(to_worker[w]).op # "PATH"
     /\ to_worker' = [to_worker EXCEPT ![w] = Tail(@)]
  \/ /\ to_worker[w] # <<>>
     /\ Head(to_worker[w]).op \in {"PATH", "JUNK"}
     /\ to_worker' = [to_worker EXCEPT ![w] = <<Junk>> \o Tail(@)]

Tell(w, m) == to_master' = [to_master EXCEPT ![w] = Append(@, m)]

\* One instruction: END reports FINISHED, a failing one reports ERROR.
WorkerStep(w) ==
  LET q == wproc[w].query
      i == wproc[w].pc
      free == [state |-> "idle", query |-> NoQuery, pc |-> 0] IN
  /\ wproc[w].state = "running"
  /\ ~EvictPending(w)
  /\ CheckSwallows(w)
  /\ \/ /\ i < Last
        /\ wproc' = [wproc EXCEPT ![w].pc = i + 1]
        /\ UNCHANGED to_master
     \/ /\ i >= Last
        /\ Tell(w, Finished(q))
        /\ wproc' = [wproc EXCEPT ![w] = free]
     \/ /\ "query_error" \in Faults
        /\ i < Last
        /\ Tell(w, Error(q))
        /\ wproc' = [wproc EXCEPT ![w] = free]
  /\ reached' = [reached EXCEPT ![q] = IF i + 1 > @ THEN i + 1 ELSE @]
  /\ UNCHANGED <<sessVars, workerVars, sched, handler, monitor, clientVars>>

WorkerCrash(w) ==
  /\ "worker_crash" \in Faults
  /\ wproc[w].state \in {"idle", "running"}
  /\ wproc' = [wproc EXCEPT ![w] = [state |-> "crashed", query |-> NoQuery, pc |-> 0]]
  /\ UNCHANGED <<sessVars, workerVars, sched, handler, monitor, netVars,
                 clientVars, reached>>

\* A send on a Worker socket: bytes to a closed peer are lost, or the send fails.
SendToWorker(w, m) ==
  to_worker' = IF Closed(w) THEN to_worker
                            ELSE [to_worker EXCEPT ![w] = Append(@, m)]
SendToWorkerFails(w) == Closed(w)

CoreNext ==
  \/ Submit
  \/ \E q \in Queries : Confirm(q) \/ ConfirmFails(q) \/ QueryControlLeaves(q)
  \/ \E w \in Workers :
       \/ Register(w) \/ HandlerStep(w) \/ Watchdog(w) \/ EvictDeadline(w)
       \/ WorkerReceive(w) \/ WorkerYields(w) \/ WorkerStep(w) \/ WorkerCrash(w)
  \/ MonitorStep

-----------------------------------------------------------------------------
(***************************************************************************)
(* Fairness of what does not depend on the scheduler: every thread of the  *)
(* Master polls on a timer, and a Worker that does not crash keeps         *)
(* executing.  The connection monitor visits every connection on every     *)
(* pass (strong fairness of its choice).  Clients and faults owe nothing.  *)
(***************************************************************************)
CoreFairness ==
  /\ \A q \in Queries : WF_vars(Confirm(q))
  /\ \A w \in Workers :
       /\ WF_vars(Register(w))
       /\ WF_vars(HandlerStep(w))
       /\ WF_vars(Watchdog(w))
       /\ WF_vars(EvictDeadline(w))
       /\ WF_vars(WorkerReceive(w) \/ WorkerYields(w) \/ WorkerStep(w))
       /\ SF_vars(MonitorPick(w))
  /\ WF_vars(MonitorCheck \/ MonitorFindQuery \/ MonitorRemoveWorker
             \/ MonitorSendError \/ MonitorCloseSession)

-----------------------------------------------------------------------------
(***************************************************************************)
(* Type invariant                                                          *)
(***************************************************************************)
SessionsTypeOK ==
  /\ next_query_id \in 0 .. NQ
  /\ query_sessions \subseteq Queries
  /\ queries_by_id \subseteq Queries
  /\ session \in [Queries -> Session]

WorkersTypeOK ==
  /\ workers_list \in Seq(Workers)
  /\ winfo \in [Workers -> WorkerInfo]
  /\ worker_count \in Nat

ThreadsTypeOK ==
  /\ handler \in [Workers -> HandlerState]
  /\ monitor \in MonitorState

NetTypeOK ==
  /\ to_worker \in [Workers -> Seq(Msg)]
  /\ to_master \in [Workers -> Seq(Msg)]

ProcessesTypeOK ==
  /\ wproc \in [Workers -> WorkerProc]
  /\ reached \in [Queries -> Nat]

ClientsTypeOK ==
  /\ qc \in [Queries -> {"none", "open", "gone"}]
  /\ confirming \subseteq Queries
  /\ results \in [Queries -> Seq({"FINISHED", "ERROR"})]

CoreTypeOK ==
  /\ SessionsTypeOK /\ WorkersTypeOK /\ ThreadsTypeOK
  /\ NetTypeOK /\ ProcessesTypeOK /\ ClientsTypeOK

(***************************************************************************)
(* Safety                                                                  *)
(***************************************************************************)
\* A Worker never starts or resumes a query beyond the instructions that were
\* executed: whatever PATH, EVICT_ACK and saved pc it came through, in whatever
\* order they were applied, no instruction is ever skipped.
NoSkippedInstruction ==
  \A w \in Workers :
    wproc[w].state = "running" => wproc[w].pc <= reached[wproc[w].query]

\* No instruction is executed twice: the pc a Worker runs is the first one that
\* was not executed, and no other Worker runs the same query.
RunsEachInstructionOnce ==
  \A w \in Workers : wproc[w].state = "running" =>
    /\ wproc[w].pc = reached[wproc[w].query]
    /\ \A x \in Workers \ {w} :
         wproc[x].state = "running" => wproc[x].query # wproc[w].query

\* The tokens of an eviction: the EVICT on its way, the EVICT_ACK on its way
\* back, the ACK a handler has validated and not applied.
Carrying(channel, op, q, v) ==
  {x \in UNION {{w} \X DOMAIN channel[w] : w \in Workers} :
     LET m == channel[x[1]][x[2]] IN m.op = op /\ m.query = q /\ m.version = v}
Applying(q, v) ==
  {w \in Workers : /\ handler[w].at = "apply_ack"
                   /\ handler[w].query = q
                   /\ handler[w].msg.version = v}
EvictionTokens(q, v) ==
  Cardinality(Carrying(to_worker, "EVICT", q, v))
  + Cardinality(Carrying(to_master, "EVICT_ACK", q, v))
  + Cardinality(Applying(q, v))

\* The version fence: a version of a session names one eviction of it.  No two
\* answers to one request can both pass the version test, and no answer is
\* ahead of the session.
OneAnswerPerEviction ==
  \A q \in Queries, v \in 0 .. MaxVersion + 1 :
    EvictionTokens(q, v) <= IF v <= session[q].version THEN 1 ELSE 0

\* The list and the dictionary agree one way: a listed session is found by id.
ListedIsIndexed == query_sessions \subseteq queries_by_id

\* A Query Control is told SUCCESS only of a script that ran to its END.
SuccessMeansEnd ==
  \A q \in Queries : \A i \in DOMAIN results[q] :
    results[q][i] = "FINISHED" => reached[q] = Last + 1

\* ERROR is reported only of a query that failed or whose Worker ended.
NoSpuriousError ==
  \A q \in Queries : \A i \in DOMAIN results[q] :
    results[q][i] = "ERROR" =>
      \/ "query_error" \in Faults
      \/ \E w \in Workers : Closed(w)

\* A Worker's process ends on a message it does not expect only once some query
\* was evicted, another Worker crashed or a Query Control left: an EVICT that
\* crossed the end of its query, what is left of a message that came while it
\* looked for an EVICT, or a second query handed to it because the session of the
\* first was closed on behalf of the Worker that crashed, or because its
\* confirmation could not be sent to a Query Control that had left.
StopsOnlyAfterTrouble ==
  \A w \in Workers : wproc[w].state = "stopped" =>
    \/ \E q \in 0 .. next_query_id - 1 : session[q].version \notin UninitVersions
    \/ \E x \in Workers \ {w} : wproc[x].state = "crashed"
    \/ \E q \in Queries : qc[q] = "gone"

\* No session disappears silently: one that leaves the list got its result, or
\* its Query Control had left.
NoSilentDrop ==
  \A q \in 0 .. next_query_id - 1 :
    q \in query_sessions \/ results[q] # <<>> \/ qc[q] = "gone"

\* A Worker marked idle has no active session, so that the scheduler never gives
\* a second query to one that is executing.
IdleMeansFree ==
  \A w \in Workers :
    (Registered(w) /\ ~winfo[w].is_busy /\ handler[w].at # "remove_session")
      => ActiveOn(w) = {}

\* The session pointers the handlers and the monitor dereference are listed,
\* that is, not freed by another thread.
NoDanglingPointer ==
  /\ \A w \in Workers :
       handler[w].at \in {"send", "free_worker", "remove_session", "apply_ack"}
         => handler[w].query \in query_sessions
  /\ monitor.at \in {"send_error", "close_session"}
       => monitor.query \in query_sessions

(***************************************************************************)
(* Liveness                                                                *)
(***************************************************************************)
\* A Worker marked busy that no active session uses does not stay so: the ACK,
\* the watchdog or a new assignment ends it.
BusyWithoutSessionIsReleased ==
  \A w \in Workers :
    (winfo[w].is_busy /\ ActiveOn(w) = {})
      ~> (~winfo[w].is_busy \/ ActiveOn(w) # {} \/ ~Registered(w))

\* Every query that is submitted gets its result.
EveryQueryAnswered ==
  \A q \in Queries : (q \in query_sessions) ~> (results[q] # <<>>)
=============================================================================
