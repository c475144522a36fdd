------------------------- MODULE QueryServiceProofs -------------------------
(***************************************************************************)
(* The Master with the priority scheduler implements QueryService: its     *)
(* first states are first states of the service and each of its steps is a *)
(* step of the service or leaves the service as it is.                     *)
(***************************************************************************)
EXTENDS MasterPriorityProofs

ServerOf(q) == IF Executing(q) THEN session[q].worker_socket ELSE NoWorker
Left(q) == qc[q] = "gone"

\* The Worker the scheduler is about to assign is one.
ChosenIsWorker == sched.at \in {"assign", "send_path", "revert"} => sched.worker \in Workers

\* Everything the refinement needs to know of a reachable state.
RefInv ==
  /\ TypeInv /\ FullPcInv /\ DropInv /\ ChosenIsWorker
  /\ query_sessions \subseteq SubmittedIds

\* What a step does to the service, by query.
Unseen(q) == Phase(q)' = Phase(q) /\ ServerOf(q)' = ServerOf(q)
SeenOnlyAt(q) == \A p \in Queries \ {q} : Unseen(p)
Quiet == reached' = reached /\ results' = results /\ \A q \in Queries : Left(q)' = Left(q)

-----------------------------------------------------------------------------
(***************************************************************************)
(* The steps of the service, from what they do to each query.              *)
(***************************************************************************)
LEMMA ServiceStutters ==
  ASSUME \A q \in Queries : Unseen(q), Quiet
  PROVE  UNCHANGED QS!svars
BY DEF QS!svars, Unseen, Quiet, ServerOf, Left

LEMMA ServiceSubmits ==
  ASSUME NEW q \in Queries, SeenOnlyAt(q), Quiet,
         Phase(q) = "unknown", \A p \in Queries : p < q => Phase(p) # "unknown",
         Phase(q)' = "waiting", ServerOf(q)' = ServerOf(q)
  PROVE  QS!Submit(q)
BY DEF QS!Submit, QS!Ids, Queries, SeenOnlyAt, Unseen, Quiet, ServerOf, Left

LEMMA ServiceStarts ==
  ASSUME NEW q \in Queries, SeenOnlyAt(q), Quiet, NEW w \in Workers,
         Phase(q) = "waiting", Phase(q)' = "executing", ServerOf(q)' = w
  PROVE  QS!Start(q, w)
BY DEF QS!Start, SeenOnlyAt, Unseen, Quiet, ServerOf, Left

LEMMA ServiceYields ==
  ASSUME NEW q \in Queries, SeenOnlyAt(q), Quiet,
         Phase(q) = "executing", Phase(q)' = "waiting", ServerOf(q)' = NoWorker
  PROVE  QS!Yield(q)
BY DEF QS!Yield, SeenOnlyAt, Unseen, Quiet, ServerOf, Left

LEMMA ServiceCloses ==
  ASSUME NEW q \in Queries, SeenOnlyAt(q), Quiet,
         Phase(q) \in {"waiting", "executing"}, Told(q),
         Phase(q)' = "closed", ServerOf(q)' = NoWorker
  PROVE  QS!Close(q)
BY DEF QS!Close, SeenOnlyAt, Unseen, Quiet, ServerOf, Left, Told

LEMMA ServiceReports ==
  ASSUME NEW q \in Queries, NEW r \in {"FINISHED", "ERROR"},
         \A p \in Queries : Unseen(p), Phase(q) # "unknown",
         reached' = reached, \A p \in Queries : Left(p)' = Left(p),
         results' = [results EXCEPT ![q] = Append(@, r)]
  PROVE  QS!Report(q, r)
BY DEF QS!Report, Unseen, ServerOf, Left

LEMMA ServiceLeaves ==
  ASSUME NEW q \in Queries, \A p \in Queries : Unseen(p), Phase(q) # "unknown",
         reached' = reached, results' = results,
         qc' = [qc EXCEPT ![q] = "gone"], qc \in [Queries -> {"none", "open", "gone"}]
  PROVE  QS!Leave(q)
BY DEF QS!Leave, Unseen, ServerOf

LEMMA ServiceExecutes ==
  ASSUME NEW q \in Queries, \A p \in Queries : Unseen(p), results' = results,
         \A p \in Queries : Left(p)' = Left(p),
         reached' = [reached EXCEPT ![q] = @ + 1]
  PROVE  QS!Execute(q)
BY DEF QS!Execute, Unseen, ServerOf, Left

ServiceStep == QS!Next \/ UNCHANGED QS!svars

LEMMA IsService ==
  ASSUME NEW q \in Queries,
         \/ QS!Submit(q) \/ QS!Yield(q) \/ QS!Execute(q) \/ QS!Close(q) \/ QS!Leave(q)
         \/ \E w \in Workers : QS!Start(q, w)
         \/ \E r \in {"FINISHED", "ERROR"} : QS!Report(q, r)
  PROVE  ServiceStep
BY DEF ServiceStep, QS!Next, QS!Ids, Queries

-----------------------------------------------------------------------------
(***************************************************************************)
(* What is known of a reachable state.                                     *)
(***************************************************************************)
LEMMA ListedAreSubmitted ==
  ASSUME TypeInv, query_sessions \subseteq SubmittedIds, [Next]_vars
  PROVE  query_sessions' \subseteq SubmittedIds'
<1>1. CASE CoreNext
  BY <1>1, CoreListsSubmitted DEF TypeInv
<1>2. CASE SchedStep \/ Age
  BY <1>2, SchedLeaves DEF SubmittedIds
<1>3. CASE UNCHANGED vars
  BY <1>3 DEF vars, sessVars, SubmittedIds
<1> QED BY <1>1, <1>2, <1>3 DEF Next

LEMMA ChosenStaysWorker ==
  ASSUME TypeInv, ChosenIsWorker, [Next]_vars
  PROVE  ChosenIsWorker'
<1>0. sched \in SchedState
  BY DEF TypeInv, TypeOK, SchedState
<1>1. CASE UNCHANGED sched
  BY <1>1 DEF ChosenIsWorker
<1>2. Idle.at = "idle" /\ Idle \in [at: {"idle"}, query: {NoQuery}, worker: {NoWorker},
                                     victim: {NoQuery}, pc: Nat]
  BY DEF Idle
<1>3. CASE SchedSnapshot
  BY <1>0, <1>2, <1>3 DEF SchedSnapshot, ChosenIsWorker, SchedState
<1>4. CASE SchedChooseVictim
  BY <1>0, <1>2, <1>4 DEF SchedChooseVictim, ChosenIsWorker, SchedState
<1>5. CASE SchedEvictSession
  BY <1>0, <1>2, <1>5 DEF SchedEvictSession, ChosenIsWorker, SchedState
<1>6. CASE SchedMarkAwaiting
  BY <1>0, <1>2, <1>6 DEF SchedMarkAwaiting, ChosenIsWorker, SchedState
<1>7. CASE SchedSendEvict
  BY <1>0, <1>2, <1>7 DEF SchedSendEvict, ChosenIsWorker, SchedState
<1>8. CASE SchedEvictFailed
  BY <1>0, <1>2, <1>8 DEF SchedEvictFailed, ChosenIsWorker, SchedState
<1>9. CASE SchedSearch
  BY <1>0, <1>2, <1>9 DEF SchedSearch, ChosenIsWorker, SchedState
<1>10. CASE SchedAssign
  BY <1>0, <1>2, <1>10 DEF SchedAssign, ChosenIsWorker, SchedState
<1>11. CASE SchedSendPath
  BY <1>0, <1>2, <1>11 DEF SchedSendPath, ChosenIsWorker, SchedState
<1>12. CASE SchedRevert
  BY <1>0, <1>2, <1>12 DEF SchedRevert, ChosenIsWorker, SchedState
<1> QED BY <1>1, <1>3, <1>4, <1>5, <1>6, <1>7, <1>8, <1>9, <1>10, <1>11, <1>12, CoreLeavesSched
        DEF Next, SchedStep, Age, vars

LEMMA Reachable == Spec => []RefInv
<1> DEFINE I == ChosenIsWorker /\ query_sessions \subseteq SubmittedIds
<1>1. Init => I
  BY DEF Init, CoreInit, Idle, ChosenIsWorker
<1>2. TypeInv /\ I /\ [Next]_vars => I'
  BY ListedAreSubmitted, ChosenStaysWorker
<1>3. TypeInv /\ FullPcInv /\ DropInv /\ I => RefInv
  BY DEF RefInv
<1> HIDE DEF I
<1> QED BY <1>1, <1>2, <1>3, TypeInvariant, PcInvariant, DropInvariant, PTL DEF Spec

\* A query whose client is known was submitted.
LEMMA KnownIsSubmitted ==
  ASSUME RefInv, NEW q \in Queries, qc[q] # "none"
  PROVE  Phase(q) # "unknown"
<1>1. ~ q >= next_query_id
  BY DEF RefInv, DropInv, ClientsKnown
<1> QED BY <1>1 DEF Phase

\* A listed query is waiting or executing.
LEMMA ListedIsOpen ==
  ASSUME RefInv, NEW q \in query_sessions
  PROVE  /\ q \in Queries
         /\ Phase(q) = IF session[q].is_active THEN "executing" ELSE "waiting"
<1>1. /\ next_query_id \in 0 .. NQ /\ q \in SubmittedIds
      /\ query_sessions \subseteq Queries
  BY DEF RefInv, TypeInv, CoreTypeInv, CoreTypeOK, SessionsTypeOK
<1>2. ~ q >= next_query_id
  BY <1>1 DEF SubmittedIds
<1> QED BY <1>1, <1>2 DEF Phase

\* What leaves the sessions alone, or the fields the service sees, is not seen.
LEMMA NotSeen ==
  ASSUME NEW q \in Queries, UNCHANGED <<next_query_id, query_sessions>>,
         \/ session' = session
         \/ /\ session'[q].is_active = session[q].is_active
            /\ session'[q].worker_socket = session[q].worker_socket
  PROVE  Unseen(q)
<1>1. Phase(q)' = Phase(q)
  BY DEF Phase
<1>2. ServerOf(q)' = ServerOf(q)
  BY DEF ServerOf, Executing
<1> QED BY <1>1, <1>2 DEF Unseen

\* A session that is unlisted, its client being told or gone, is closed.
LEMMA Unlisting ==
  ASSUME RefInv, NEW q \in Queries, q \in query_sessions => Told(q),
         query_sessions' = query_sessions \ {q},
         UNCHANGED <<next_query_id, session, reached, results, qc>>
  PROVE  QS!Close(q) \/ UNCHANGED QS!svars
<1>1. Quiet
  BY DEF Quiet, Left
<1>2. CASE q \notin query_sessions
  <2>1. query_sessions' = query_sessions
    BY <1>2
  <2> QED BY <1>1, <2>1, NotSeen, ServiceStutters
<1>3. CASE q \in query_sessions
  <2>1. SeenOnlyAt(q)
    <3> SUFFICES ASSUME NEW p \in Queries \ {q} PROVE Unseen(p)
      BY DEF SeenOnlyAt
    <3>1. p \in query_sessions' <=> p \in query_sessions
      OBVIOUS
    <3> QED BY <3>1 DEF Unseen, Phase, ServerOf, Executing
  <2>2. Phase(q) \in {"waiting", "executing"}
    BY <1>3, ListedIsOpen
  <2>3. ~ q >= next_query_id
    BY <2>2 DEF Phase
  <2>4. Phase(q)' = "closed" /\ ServerOf(q)' = NoWorker
    BY <2>3 DEF Phase, ServerOf, Executing
  <2> QED BY <1>1, <1>3, <2>1, <2>2, <2>4, ServiceCloses
<1> QED BY <1>2, <1>3

-----------------------------------------------------------------------------
(***************************************************************************)
(* Every step is a step of the service or is not seen.                     *)
(***************************************************************************)
LEMMA UnseenKeeps ==
  ASSUME UNCHANGED <<next_query_id, query_sessions, reached, results, qc>>,
         \A q \in Queries :
           \/ session' = session
           \/ /\ session'[q].is_active = session[q].is_active
              /\ session'[q].worker_socket = session[q].worker_socket
  PROVE  UNCHANGED QS!svars
<1>1. Quiet
  BY DEF Quiet, Left
<1>2. \A q \in Queries : Unseen(q)
  BY NotSeen
<1> QED BY <1>1, <1>2, ServiceStutters

LEMMA UnseenStep ==
  ASSUME UNCHANGED <<next_query_id, query_sessions, reached, results, qc>>,
         \A q \in Queries :
           \/ session' = session
           \/ /\ session'[q].is_active = session[q].is_active
              /\ session'[q].worker_socket = session[q].worker_socket
  PROVE  ServiceStep
BY UnseenKeeps DEF ServiceStep

\* A session that is told its result.
LEMMA Telling ==
  ASSUME RefInv, NEW q \in Queries, qc[q] # "none", NEW r \in {"FINISHED", "ERROR"},
         SendResult(q, r),
         UNCHANGED <<next_query_id, query_sessions, session, reached, qc>>
  PROVE  ServiceStep
<1>1. \A p \in Queries : Unseen(p) /\ Left(p)' = Left(p)
  BY NotSeen DEF Left
<1>2. Phase(q) # "unknown"
  BY KnownIsSubmitted
<1>3. CASE results' = results
  BY <1>3, UnseenStep
<1>4. CASE results' = [results EXCEPT ![q] = Append(@, r)]
  BY <1>1, <1>2, <1>4, ServiceReports, IsService
<1> QED BY <1>3, <1>4 DEF SendResult

\* A submission.
LEMMA SubmitServes ==
  ASSUME RefInv, Submit
  PROVE  \E q \in Queries : QS!Submit(q)
<1>0. /\ session \in [Queries -> Session] /\ query_sessions \subseteq SubmittedIds
      /\ qc \in [Queries -> {"none", "open", "gone"}] /\ next_query_id \in Int
      /\ query_sessions \subseteq Queries
  BY DEF RefInv, TypeInv, CoreTypeInv, CoreTypeOK, SessionsTypeOK, ClientsTypeOK
<1>1. PICK q \in Queries : q = next_query_id /\ q \notin query_sessions
  BY <1>0 DEF Submit, SubmittedIds
<1>2. /\ query_sessions' = query_sessions \cup {q} /\ next_query_id' = q + 1
      /\ ~session'[q].is_active
      /\ \A p \in Queries \ {q} : session'[p] = session[p]
      /\ qc' = [qc EXCEPT ![q] = "open"]
      /\ UNCHANGED <<reached, results>>
  BY <1>0, <1>1 DEF Submit
<1>3. SeenOnlyAt(q)
  <2> SUFFICES ASSUME NEW p \in Queries \ {q} PROVE Unseen(p)
    BY DEF SeenOnlyAt
  <2>1. /\ p \in query_sessions' <=> p \in query_sessions
        /\ p >= next_query_id' <=> p >= next_query_id
        /\ session'[p] = session[p]
    BY <1>0, <1>1, <1>2 DEF Queries
  <2> QED BY <2>1 DEF Unseen, Phase, ServerOf, Executing
<1>4. qc[q] = "none"
  BY <1>0, <1>1 DEF RefInv, DropInv, ClientsKnown, Queries
<1>5. Quiet
  BY <1>0, <1>1, <1>2, <1>4 DEF Quiet, Left
<1>6. Phase(q) = "unknown" /\ ServerOf(q) = NoWorker
  BY <1>0, <1>1 DEF Phase, ServerOf, Executing
<1>7. Phase(q)' = "waiting" /\ ServerOf(q)' = NoWorker
  BY <1>0, <1>1, <1>2 DEF Phase, ServerOf, Executing
<1>8. \A p \in Queries : p < q => Phase(p) # "unknown"
  BY <1>0, <1>1 DEF Phase, Queries
<1> QED BY <1>1, <1>3, <1>5, <1>6, <1>7, <1>8, ServiceSubmits

LEMMA ClientsServed ==
  ASSUME RefInv, Submit \/ \E q \in Queries : \/ Confirm(q) \/ ConfirmFails(q)
                                             \/ QueryControlLeaves(q)
  PROVE  ServiceStep
<1>0. qc \in [Queries -> {"none", "open", "gone"}]
  BY DEF RefInv, TypeInv, CoreTypeInv, CoreTypeOK, ClientsTypeOK
<1>1. CASE Submit
  BY <1>1, SubmitServes, IsService
<1>2. ASSUME NEW q \in Queries, Confirm(q) PROVE ServiceStep
  BY <1>2, UnseenStep DEF Confirm, sessVars
<1>3. ASSUME NEW q \in Queries, ConfirmFails(q) PROVE ServiceStep
  BY <1>3, Unlisting, IsService DEF ConfirmFails, Told, ServiceStep
<1>4. ASSUME NEW q \in Queries, QueryControlLeaves(q) PROVE ServiceStep
  <2>1. qc[q] # "none" /\ \A p \in Queries : Unseen(p)
    BY <1>4, NotSeen DEF QueryControlLeaves, sessVars
  <2> QED BY <1>0, <1>4, <2>1, KnownIsSubmitted, ServiceLeaves, IsService
          DEF QueryControlLeaves
<1> QED BY <1>1, <1>2, <1>3, <1>4

LEMMA HandlersServe ==
  ASSUME RefInv, NEW w \in Workers, Register(w) \/ HandlerStep(w)
  PROVE  ServiceStep
<1>0. session \in [Queries -> Session] /\ handler \in [Workers -> HandlerState]
  BY DEF RefInv, TypeInv, CoreTypeInv, CoreTypeOK, SessionsTypeOK, ThreadsTypeOK
<1>1. CASE \/ Register(w) \/ HandleEndOfQuery(w) \/ HandlerFreeWorker(w)
           \/ HandleEvictAck(w) \/ HandlerAckWorker(w) \/ HandlerEnds(w)
           \/ HandlerEndsAtPeek(w)
  BY <1>1, UnseenStep
     DEF Register, HandleEndOfQuery, HandlerFreeWorker, HandleEvictAck,
         HandlerAckWorker, HandlerEnds, HandlerEndsAtPeek, sessVars, clientVars
<1>2. CASE HandlerSendResult(w)
  <2> DEFINE q == handler[w].query
  <2>1. q \in Queries /\ qc[q] # "none" /\ handler[w].msg.op \in {"FINISHED", "ERROR"}
    BY <1>2 DEF HandlerSendResult, RefInv, DropInv, HandlersTold, TypeInv, CoreTypeInv,
                SendsAnEnd
  <2>2. CASE SendResult(q, handler[w].msg.op)
    BY <1>2, <2>1, <2>2, Telling DEF HandlerSendResult, sessVars
  <2>3. CASE UNCHANGED results
    BY <1>2, <2>3, UnseenStep DEF HandlerSendResult, sessVars
  <2> QED BY <1>2, <2>2, <2>3 DEF HandlerSendResult
<1>3. CASE HandlerRemoveSession(w)
  <2>1. handler[w].query \in Queries /\ Told(handler[w].query)
    BY <1>3 DEF HandlerRemoveSession, RefInv, DropInv, HandlersTold
  <2> QED BY <1>3, <2>1, Unlisting, IsService
          DEF HandlerRemoveSession, clientVars, ServiceStep
<1>4. CASE HandlerApplyAck(w)
  <2>1. \A q \in Queries : /\ session'[q].is_active = session[q].is_active
                           /\ session'[q].worker_socket = session[q].worker_socket
    BY <1>0, <1>4 DEF HandlerApplyAck, Session
  <2> QED BY <1>4, <2>1, UnseenStep DEF HandlerApplyAck, clientVars
<1> QED BY <1>1, <1>2, <1>3, <1>4 DEF HandlerStep

LEMMA MonitorServes ==
  ASSUME RefInv, MonitorStep
  PROVE  ServiceStep
<1>0. monitor.query \in Queries \cup {NoQuery}
  BY DEF RefInv, TypeInv, CoreTypeInv, CoreTypeOK, ThreadsTypeOK, MonitorState
<1>1. CASE \/ \E w \in Workers : MonitorPick(w)
           \/ MonitorCheck \/ MonitorFindQuery \/ MonitorRemoveWorker
  BY <1>1, UnseenStep
     DEF MonitorPick, MonitorCheck, MonitorFindQuery, MonitorRemoveWorker, sessVars,
         clientVars
<1>2. CASE MonitorSendError
  <2>1. monitor.query \in Queries /\ qc[monitor.query] # "none"
    BY <1>0, <1>2 DEF MonitorSendError, RefInv, DropInv, MonitorTold
  <2> QED BY <1>2, <2>1, Telling DEF MonitorSendError, sessVars
<1>3. CASE MonitorCloseSession
  <2>1. monitor.query \in Queries /\ Told(monitor.query)
    BY <1>0, <1>3 DEF MonitorCloseSession, RefInv, DropInv, MonitorTold
  <2> QED BY <1>3, <2>1, Unlisting, IsService
          DEF MonitorCloseSession, clientVars, ServiceStep
<1> QED BY <1>1, <1>2, <1>3 DEF MonitorStep

LEMMA WorkersServe ==
  ASSUME RefInv, NEW w \in Workers,
         \/ Watchdog(w) \/ EvictDeadline(w) \/ WorkerReceive(w) \/ WorkerYields(w)
         \/ WorkerStep(w) \/ WorkerCrash(w)
  PROVE  ServiceStep
<1>1. CASE \/ Watchdog(w) \/ EvictDeadline(w) \/ WorkerReceive(w) \/ WorkerYields(w)
           \/ WorkerCrash(w)
  BY <1>1, UnseenStep
     DEF Watchdog, EvictDeadline, WorkerReceive, WorkerYields, WorkerCrash, sessVars,
         clientVars
<1>2. CASE WorkerStep(w)
  <2> DEFINE q == wproc[w].query
             i == wproc[w].pc
  <2>1. /\ q \in Queries /\ i \in Nat /\ i <= reached[q]
        /\ reached \in [Queries -> Nat]
    BY <1>2 DEF WorkerStep, RefInv, FullPcInv, PcInv, WorkersBehind, TypeInv, CoreTypeInv,
                CoreTypeOK, ProcessesTypeOK, WorkerProc
  <2>2. /\ reached' = [reached EXCEPT ![q] = IF i + 1 > @ THEN i + 1 ELSE @]
        /\ UNCHANGED <<sessVars, clientVars>>
    BY <1>2 DEF WorkerStep
  <2>3. reached' = reached \/ reached' = [reached EXCEPT ![q] = @ + 1]
    <3>1. CASE i + 1 > reached[q]
      <4>1. i + 1 = reached[q] + 1
        BY <2>1, <3>1
      <4> QED BY <2>1, <2>2, <3>1, <4>1
    <3>2. CASE ~(i + 1 > reached[q])
      BY <2>1, <2>2, <3>2
    <3> QED BY <3>1, <3>2
  <2>4. \A p \in Queries : Unseen(p) /\ Left(p)' = Left(p)
    BY <2>2, NotSeen DEF sessVars, clientVars, Left
  <2>5. CASE reached' = reached
    BY <2>2, <2>5, UnseenStep DEF sessVars, clientVars
  <2>6. CASE reached' = [reached EXCEPT ![q] = @ + 1]
    BY <2>1, <2>2, <2>4, <2>6, ServiceExecutes, IsService DEF clientVars
  <2> QED BY <2>3, <2>5, <2>6
<1> QED BY <1>1, <1>2

\* An assignment.
LEMMA AssignServes ==
  ASSUME RefInv, SchedAssign
  PROVE  \/ UNCHANGED session
         \/ \E q \in Queries, w \in Workers : w = sched.worker /\ QS!Start(q, w)
<1>0. /\ session \in [Queries -> Session] /\ query_sessions \subseteq Queries
  BY DEF RefInv, TypeInv, CoreTypeInv, CoreTypeOK, SessionsTypeOK
<1>1. /\ UNCHANGED <<next_query_id, query_sessions, reached, results, qc>>
      /\ Quiet
  BY SchedLeaves DEF SchedStep, Quiet, Left
<1>2. ASSUME Ready(sched.query),
             session' = [session EXCEPT ![sched.query].is_active = TRUE,
                                        ![sched.query].worker_socket = sched.worker]
      PROVE  \E q \in Queries, w \in Workers : w = sched.worker /\ QS!Start(q, w)
  <2>1. PICK q \in query_sessions : q = sched.query /\ ~session[q].is_active
    BY <1>2 DEF Ready
  <2>2. PICK w \in Workers : w = sched.worker
    BY DEF SchedAssign, RefInv, ChosenIsWorker
  <2>3. /\ q \in Queries /\ \A p \in Queries \ {q} : session'[p] = session[p]
        /\ session'[q].is_active = TRUE /\ session'[q].worker_socket = w
    BY <1>0, <1>2, <2>1, <2>2 DEF Session
  <2>4. Phase(q) = "waiting" /\ ~ q >= next_query_id
    BY <2>1, ListedIsOpen DEF Phase
  <2>5. Phase(q)' = "executing" /\ ServerOf(q)' = w
    BY <1>1, <2>1, <2>3, <2>4 DEF Phase, ServerOf, Executing
  <2>6. SeenOnlyAt(q)
    BY <1>1, <2>3 DEF SeenOnlyAt, Unseen, Phase, ServerOf, Executing
  <2>7. QS!Start(q, w)
    BY <1>1, <2>3, <2>4, <2>5, <2>6, ServiceStarts
  <2> QED BY <2>2, <2>3, <2>7
<1> QED BY <1>2 DEF SchedAssign

LEMMA SchedulerServes ==
  ASSUME RefInv, SchedStep \/ Age
  PROVE  ServiceStep
<1>0. /\ session \in [Queries -> Session] /\ query_sessions \subseteq Queries
      /\ sched \in SchedState
  BY DEF RefInv, TypeInv, CoreTypeInv, CoreTypeOK, TypeOK, SessionsTypeOK, SchedState
<1>1. /\ UNCHANGED <<next_query_id, query_sessions, reached, results, qc>>
      /\ Quiet
  BY SchedLeaves DEF Quiet, Left
<1>2. CASE session' = session
  BY <1>1, <1>2, UnseenStep
<1>3. ASSUME NEW q \in Queries,
             \A p \in Queries \ {q} : session'[p] = session[p],
             session'[q].is_active = FALSE, session'[q].worker_socket = NoWorker
      PROVE  ServiceStep
  <2>1. SeenOnlyAt(q)
    BY <1>1, <1>3 DEF SeenOnlyAt, Unseen, Phase, ServerOf, Executing
  <2>2. CASE q \in query_sessions /\ session[q].is_active
    <3>1. Phase(q) = "executing" /\ ~ q >= next_query_id
      BY <2>2, ListedIsOpen DEF Phase
    <3>2. Phase(q)' = "waiting" /\ ServerOf(q)' = NoWorker
      BY <1>1, <1>3, <2>2, <3>1 DEF Phase, ServerOf, Executing
    <3> QED BY <1>1, <2>1, <3>1, <3>2, ServiceYields, IsService
  <2>3. CASE ~(q \in query_sessions /\ session[q].is_active)
    <3>1. Unseen(q)
      BY <1>1, <1>3, <2>3 DEF Unseen, Phase, ServerOf, Executing
    <3> QED BY <1>1, <2>1, <3>1, ServiceStutters DEF ServiceStep, SeenOnlyAt
  <2> QED BY <2>2, <2>3
<1>4. CASE SchedEvictSession
  <2>1. sched.victim \in Queries
    BY <1>4 DEF SchedEvictSession, RefInv, TypeInv, PointersKnown
  <2>2. /\ \A p \in Queries \ {sched.victim} : session'[p] = session[p]
        /\ session'[sched.victim].is_active = FALSE
        /\ session'[sched.victim].worker_socket = NoWorker
    BY <1>0, <1>4, <2>1 DEF SchedEvictSession, Session
  <2> QED BY <1>3, <2>1, <2>2
<1>5. CASE SchedRevert
  <2>1. CASE sched.query \notin query_sessions
    BY <1>2, <1>5, <2>1 DEF SchedRevert
  <2>2. CASE sched.query \in query_sessions
    <3>1. /\ sched.query \in Queries
          /\ \A p \in Queries \ {sched.query} : session'[p] = session[p]
          /\ session'[sched.query].is_active = FALSE
          /\ session'[sched.query].worker_socket = NoWorker
      BY <1>0, <1>5, <2>2 DEF SchedRevert, Session
    <3> QED BY <1>3, <3>1
  <2> QED BY <2>1, <2>2
<1>6. CASE SchedAssign
  BY <1>2, <1>6, AssignServes, IsService
<1>7. CASE Age
  <2>1. \A q \in Queries : /\ session'[q].is_active = session[q].is_active
                           /\ session'[q].worker_socket = session[q].worker_socket
    BY <1>0, <1>7 DEF Age, Session
  <2> QED BY <1>1, <2>1, UnseenStep
<1>8. CASE \/ SchedSnapshot \/ SchedChooseVictim \/ SchedMarkAwaiting
           \/ SchedSendEvict \/ SchedEvictFailed \/ SchedSearch \/ SchedSendPath
  BY <1>2, <1>8
     DEF SchedSnapshot, SchedChooseVictim, SchedMarkAwaiting, SchedSendEvict,
         SchedEvictFailed, SchedSearch, SchedSendPath, sessVars
<1> QED BY <1>4, <1>5, <1>6, <1>7, <1>8 DEF SchedStep

LEMMA ServiceInit == Init => QS!Init
<1> SUFFICES ASSUME Init PROVE QS!Init
  OBVIOUS
<1>1. \A q \in Queries : Phase(q) = "unknown" /\ ~Executing(q) /\ ~Left(q)
  BY DEF Init, CoreInit, Phase, Executing, Left, Queries
<1>2. reached = [q \in Queries |-> 0] /\ results = [q \in Queries |-> <<>>]
  BY DEF Init, CoreInit
<1> QED BY <1>1, <1>2 DEF QS!Init, QS!Ids, Queries, Left

\* Whatever the numbers of queries, Workers and priorities and whatever fails,
\* the Master and its Workers, seen through sessions, results and executed
\* instructions, behave as the service.
THEOREM Implements == Spec => ImplementsService
<1>1. Init => QS!Init
  BY ServiceInit
<1>2. RefInv /\ [Next]_vars => [QS!Next]_(QS!svars)
  <2> SUFFICES ASSUME RefInv, [Next]_vars PROVE ServiceStep
    BY DEF ServiceStep
  <2>1. CASE CoreNext
    BY <2>1, ClientsServed, HandlersServe, MonitorServes, WorkersServe DEF CoreNext
  <2>2. CASE SchedStep \/ Age
    BY <2>2, SchedulerServes
  <2>3. CASE UNCHANGED vars
    BY <2>3, UnseenStep DEF vars, sessVars, clientVars
  <2> QED BY <2>1, <2>2, <2>3 DEF Next
<1> QED BY <1>1, <1>2, Reachable, PTL DEF Spec, ImplementsService, QS!Spec

-----------------------------------------------------------------------------
(***************************************************************************)
(* With one priority and no failure: the calm service.                     *)
(***************************************************************************)
CalmStepServed == QS!CalmNext \/ UNCHANGED QS!svars

LEMMA IsCalmService ==
  ASSUME NEW q \in Queries,
         \/ QS!Submit(q) \/ QS!Close(q)
         \/ \E w \in Workers : QS!Start(q, w) /\ QS!Serving(w) = {}
         \/ QS!Execute(q) /\ Phase(q) = "executing" /\ reached[q] < Last + 1
         \/ QS!Report(q, "FINISHED") /\ Phase(q) = "executing" /\ reached[q] = Last + 1
                                     /\ results[q] = <<>>
  PROVE  CalmStepServed
BY DEF CalmStepServed, QS!CalmNext, QS!Ids, Queries

CalmRefInv == RefInv /\ UndisturbedInv /\ NobodyFails

\* A session that is active is that of an executing query.
LEMMA ActiveExecutes ==
  ASSUME RefInv, NEW w \in Workers, NEW q \in ActiveOn(w)
  PROVE  q \in Queries /\ Phase(q) = "executing"
BY ListedIsOpen DEF ActiveOn

LEMMA HandlersServeCalmly ==
  ASSUME CalmRefInv, NEW w \in Workers, Register(w) \/ HandlerStep(w)
  PROVE  CalmStepServed
<1>0. /\ RefInv /\ CalmInv /\ NobodyFails
      /\ session \in [Queries -> Session] /\ handler \in [Workers -> HandlerState]
      /\ \A q \in Queries : qc[q] # "gone"
  BY DEF CalmRefInv, UndisturbedInv, RanksInv, Calm, RefInv, TypeInv, CoreTypeInv, CoreTypeOK,
         SessionsTypeOK, ThreadsTypeOK
<1>1. CASE \/ Register(w) \/ HandleEndOfQuery(w) \/ HandlerFreeWorker(w)
           \/ HandleEvictAck(w) \/ HandlerAckWorker(w) \/ HandlerEnds(w)
           \/ HandlerEndsAtPeek(w)
  <2>1. UNCHANGED QS!svars
    BY <1>1, UnseenKeeps
       DEF Register, HandleEndOfQuery, HandlerFreeWorker, HandleEvictAck,
           HandlerAckWorker, HandlerEnds, HandlerEndsAtPeek, sessVars, clientVars
  <2> QED BY <2>1 DEF CalmStepServed
<1>2. CASE HandlerSendResult(w)
  <2>1. PICK q \in Queries :
          /\ q = handler[w].query /\ handler[w].at = "send"
          /\ ActiveOn(w) = {q} /\ Closing(w, q) /\ Untold(w, q)
    BY <1>0, <1>2, ClosingWith DEF HandlerSendResult
  <2>2. handler[w].msg.op = "FINISHED" /\ qc[q] = "open"
    <3>1. /\ qc \in [Queries -> {"none", "open", "gone"}] /\ SendsAnEnd
          /\ qc[handler[w].query] # "none"
      BY <1>0, <2>1 DEF RefInv, TypeInv, CoreTypeInv, CoreTypeOK, ClientsTypeOK, DropInv,
                        HandlersTold
    <3> QED BY <1>0, <2>1, <3>1 DEF NobodyFails, SendsAnEnd
  <2>3. reached[q] = Last + 1 /\ results[q] = <<>> /\ Phase(q) = "executing"
    BY <1>0, <2>1, <2>2, ActiveExecutes DEF Closing, Ended, Untold
  <2>4. /\ results' = [results EXCEPT ![q] = Append(@, "FINISHED")]
        /\ UNCHANGED <<sessVars, qc, reached>>
    BY <1>0, <1>2, <2>1, <2>2 DEF HandlerSendResult, SendResult, SendResultFails
  <2>5. \A p \in Queries : Unseen(p) /\ Left(p)' = Left(p)
    BY <2>4, NotSeen DEF sessVars, Left
  <2>6. QS!Report(q, "FINISHED")
    BY <2>3, <2>4, <2>5, ServiceReports
  <2> QED BY <2>3, <2>6, IsCalmService
<1>3. CASE HandlerRemoveSession(w)
  <2>1. PICK q \in Queries : q = handler[w].query /\ Told(q)
    BY <1>0, <1>3 DEF HandlerRemoveSession, RefInv, DropInv, HandlersTold
  <2>2. QS!Close(q) \/ UNCHANGED QS!svars
    BY <1>0, <1>3, <2>1, Unlisting DEF HandlerRemoveSession, clientVars
  <2> QED BY <2>1, <2>2, IsCalmService DEF CalmStepServed
<1>4. CASE HandlerApplyAck(w)
  <2>1. \A q \in Queries : /\ session'[q].is_active = session[q].is_active
                           /\ session'[q].worker_socket = session[q].worker_socket
    BY <1>0, <1>4 DEF HandlerApplyAck, Session
  <2>2. UNCHANGED QS!svars
    BY <1>4, <2>1, UnseenKeeps DEF HandlerApplyAck, clientVars
  <2> QED BY <2>2 DEF CalmStepServed
<1> QED BY <1>1, <1>2, <1>3, <1>4 DEF HandlerStep

LEMMA WorkersServeCalmly ==
  ASSUME CalmRefInv, NEW w \in Workers,
         \/ Watchdog(w) \/ EvictDeadline(w) \/ WorkerReceive(w) \/ WorkerYields(w)
         \/ WorkerStep(w) \/ WorkerCrash(w)
  PROVE  CalmStepServed
<1>0. /\ RefInv /\ CalmInv /\ Last \in Nat /\ reached \in [Queries -> Nat]
  BY MasterAssumption
     DEF CalmRefInv, UndisturbedInv, RefInv, TypeInv, CoreTypeInv, CoreTypeOK, ProcessesTypeOK
<1>1. CASE \/ Watchdog(w) \/ EvictDeadline(w) \/ WorkerReceive(w) \/ WorkerYields(w)
           \/ WorkerCrash(w)
  <2>1. UNCHANGED QS!svars
    BY <1>1, UnseenKeeps
       DEF Watchdog, EvictDeadline, WorkerReceive, WorkerYields, WorkerCrash, sessVars,
           clientVars
  <2> QED BY <2>1 DEF CalmStepServed
<1>2. CASE WorkerStep(w)
  <2>1. PICK q \in Queries : /\ q = wproc[w].query /\ Executed(w, q) /\ q \in ActiveOn(w)
    BY <1>0, <1>2, ExecutesOwn DEF WorkerStep
  <2>2. PICK i \in Nat : wproc[w].pc = i /\ i = reached[q] /\ i <= Last
    BY <1>0, <2>1 DEF Executed
  <2>3. /\ reached' = [reached EXCEPT ![q] = IF i + 1 > @ THEN i + 1 ELSE @]
        /\ UNCHANGED <<sessVars, clientVars>>
    BY <1>2, <2>1, <2>2 DEF WorkerStep
  <2>4. reached' = [reached EXCEPT ![q] = @ + 1]
    <3>1. i + 1 > reached[q] /\ i + 1 = reached[q] + 1
      BY <2>2
    <3> QED BY <2>3, <3>1
  <2>5. \A p \in Queries : Unseen(p) /\ Left(p)' = Left(p)
    BY <2>3, NotSeen DEF sessVars, clientVars, Left
  <2>6. QS!Execute(q)
    BY <2>3, <2>4, <2>5, ServiceExecutes DEF clientVars
  <2>7. Phase(q) = "executing" /\ reached[q] < Last + 1
    BY <1>0, <2>1, <2>2, ActiveExecutes
  <2> QED BY <2>6, <2>7, IsCalmService
<1> QED BY <1>1, <1>2

LEMMA SchedulerServesCalmly ==
  ASSUME Undisturbed, CalmRefInv, SchedStep \/ Age
  PROVE  CalmStepServed
<1>0. /\ RefInv /\ CalmInv /\ CalmSched /\ sched.at # "evict"
      /\ \A q \in Queries : qc[q] # "gone"
  BY DEF CalmRefInv, UndisturbedInv, RanksInv, Calm, CalmInv
<1>1. CASE session' = session
  <2>1. UNCHANGED QS!svars
    BY <1>1, SchedLeaves, UnseenKeeps
  <2> QED BY <2>1 DEF CalmStepServed
<1>2. CASE SchedAssign
  <2>1. ASSUME NEW q \in Queries, NEW w \in Workers, w = sched.worker, QS!Start(q, w)
        PROVE  CalmStepServed
    <3>1. FreeWorker(w)
      BY <1>0, <1>2, <2>1 DEF SchedAssign, CalmSched, CalmInv, CalmWorkers, CalmWorker,
                              BusyWorker
    <3>2. ASSUME NEW p \in Queries, ServerOf(p) = w PROVE results[p] # <<>>
      <4>1. p \in ActiveOn(w)
        BY <3>2, MasterAssumption DEF ServerOf, Executing, ActiveOn
      <4>2. handler[w].at = "remove_session" /\ handler[w].query = p
        BY <3>1, <4>1 DEF FreeWorker, InCharge, Leaving
      <4> QED BY <1>0, <4>2 DEF RefInv, DropInv, HandlersTold, Told
    <3>3. QS!Serving(w) = {}
      BY <3>2 DEF QS!Serving, QS!Ids, Queries, ServerOf
    <3> QED BY <2>1, <3>3, IsCalmService
  <2> QED BY <1>0, <1>1, <1>2, <2>1, AssignServes
<1>3. ~SchedEvictSession /\ ~SchedRevert
  BY <1>0 DEF SchedEvictSession, SchedRevert, CalmSched
<1>4. ~Age
  BY DEF Undisturbed, Age
<1>5. CASE \/ SchedSnapshot \/ SchedChooseVictim \/ SchedMarkAwaiting
           \/ SchedSendEvict \/ SchedEvictFailed \/ SchedSearch \/ SchedSendPath
  BY <1>1, <1>5
     DEF SchedSnapshot, SchedChooseVictim, SchedMarkAwaiting, SchedSendEvict,
         SchedEvictFailed, SchedSearch, SchedSendPath, sessVars
<1> QED BY <1>2, <1>3, <1>4, <1>5 DEF SchedStep

\* With queries of one priority, no aging and nothing that fails, every step of the
\* Master and its Workers is one of the calm service: a Worker starts a query when
\* it serves no other, executes it once and to the end, and the one result follows.
THEOREM ImplementsCalm ==
  ASSUME Undisturbed, "query_error" \notin Faults
  PROVE  Spec => ImplementsCalmService
<1>1. Init => QS!Init
  BY ServiceInit
<1>2. CalmRefInv /\ [Next]_vars => [QS!CalmNext]_(QS!svars)
  <2> SUFFICES ASSUME CalmRefInv, [Next]_vars PROVE CalmStepServed
    BY DEF CalmStepServed
  <2>0. RefInv /\ CalmMonitor /\ \A q \in Queries : qc[q] # "gone"
    BY DEF CalmRefInv, UndisturbedInv, RanksInv, Calm, CalmInv
  <2>1. CASE Submit
    BY <2>0, <2>1, SubmitServes, IsCalmService
  <2>2. ASSUME NEW q \in Queries, Confirm(q) \/ ConfirmFails(q) \/ QueryControlLeaves(q)
        PROVE  CalmStepServed
    <3>1. Confirm(q)
      BY <2>0, <2>2 DEF ConfirmFails, QueryControlLeaves, Undisturbed
    <3>2. UNCHANGED QS!svars
      BY <3>1, UnseenKeeps DEF Confirm, sessVars
    <3> QED BY <3>2 DEF CalmStepServed
  <2>3. CASE MonitorStep
    <3>1. ~MonitorSendError /\ ~MonitorCloseSession
      BY <2>0 DEF CalmMonitor, MonitorSendError, MonitorCloseSession
    <3>2. UNCHANGED QS!svars
      BY <2>3, <3>1, UnseenKeeps
         DEF MonitorStep, MonitorPick, MonitorCheck, MonitorFindQuery, MonitorRemoveWorker,
             sessVars, clientVars
    <3> QED BY <3>2 DEF CalmStepServed
  <2>4. CASE CoreNext
    BY <2>1, <2>2, <2>3, <2>4, HandlersServeCalmly, WorkersServeCalmly DEF CoreNext
  <2>5. CASE SchedStep \/ Age
    BY <2>5, SchedulerServesCalmly
  <2>6. CASE UNCHANGED vars
    <3>1. UNCHANGED QS!svars
      BY <2>6, UnseenKeeps DEF vars, sessVars, clientVars
    <3> QED BY <3>1 DEF CalmStepServed
  <2> QED BY <2>4, <2>5, <2>6 DEF Next
<1>3. RefInv /\ UndisturbedInv /\ ErrorInv => CalmRefInv
  BY DEF CalmRefInv, ErrorInv
<1> QED BY <1>1, <1>2, <1>3, Reachable, UndisturbedInvariant, ErrorInvariant, PTL
        DEF Spec, ImplementsCalmService, QS!CalmSpec
=============================================================================
