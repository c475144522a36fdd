------------------------ MODULE MasterPriorityProofs ------------------------
(***************************************************************************)
(* Theorems about the Master with the priority scheduler, for any number   *)
(* of queries, Workers, evictions and instructions and any faults.         *)
(***************************************************************************)
EXTENDS MasterPriority, MasterCoreProofs

\* The pointers the scheduler keeps designate sessions in the states that use
\* them.
PointersKnown ==
  /\ sched.at \in {"choose_victim", "send_path"} => sched.query \in Queries
  /\ sched.at \in {"evict", "await", "send_evict"} => sched.victim \in Queries

\* The copy of the pc the scheduler is about to send is behind too.
SchedBehind == sched.at = "send_path" => sched.pc <= reached[sched.query]

TypeInv == CoreTypeInv /\ TypeOK /\ PointersKnown
FullPcInv == PcInv /\ SchedBehind

SchedState ==
  [at: {"idle", "choose_victim", "evict", "await", "send_evict",
        "evict_failed", "search", "assign", "send_path", "revert"},
   query: Queries \cup {NoQuery}, worker: Workers \cup {NoWorker},
   victim: Queries \cup {NoQuery}, pc: Nat]

\* The scheduler and the aging thread leave these alone.
LEMMA SchedLeaves ==
  SchedStep \/ Age =>
    UNCHANGED <<next_query_id, query_sessions, queries_by_id, workers_list,
                worker_count, to_master, handler, monitor, wproc, qc, confirming,
                results, reached>>
BY DEF SchedStep, SchedSnapshot, SchedChooseVictim, SchedEvictSession,
   SchedMarkAwaiting, SchedSendEvict, SchedEvictFailed, SchedSearch, SchedAssign,
   SchedSendPath, SchedRevert, Age, coreExceptSched, sessVars, workerVars, netVars,
   clientVars

-----------------------------------------------------------------------------
(***************************************************************************)
(* Types                                                                   *)
(***************************************************************************)
\* A scheduler step changes the types of four variables at most.
LEMMA SchedTypesSuffice ==
  ASSUME TypeInv, SchedStep \/ Age,
         session' \in [Queries -> Session],
         winfo' \in [Workers -> WorkerInfo],
         to_worker' \in [Workers -> Seq(Msg)],
         sched' \in SchedState, PointersKnown'
  PROVE  TypeInv'
<1>1. /\ SessionsTypeOK' /\ WorkersTypeOK' /\ NetTypeOK'
  BY SchedLeaves DEF TypeInv, CoreTypeInv, CoreTypeOK, SessionsTypeOK, WorkersTypeOK,
     NetTypeOK
<1>2. ThreadsTypeOK' /\ SendsAnEnd' /\ ProcessesTypeOK' /\ ClientsTypeOK'
  BY SchedLeaves, Frame DEF TypeInv, CoreTypeInv, CoreTypeOK, clientVars
<1> QED BY <1>1, <1>2 DEF TypeInv, CoreTypeInv, CoreTypeOK, TypeOK, SchedState

LEMMA SchedTypes == TypeInv /\ (SchedStep \/ Age) => TypeInv'
<1> SUFFICES ASSUME TypeInv, SchedStep \/ Age PROVE TypeInv'
  OBVIOUS
<1>0. /\ session \in [Queries -> Session] /\ query_sessions \subseteq Queries
      /\ winfo \in [Workers -> WorkerInfo]
      /\ to_worker \in [Workers -> Seq(Msg)]
      /\ sched \in SchedState
      /\ PointersKnown
      /\ Idle \in SchedState /\ Idle.at = "idle"
  BY DEF TypeInv, CoreTypeInv, CoreTypeOK, TypeOK, SessionsTypeOK, WorkersTypeOK,
     NetTypeOK, SchedState, Idle
<1>1. CASE SchedSnapshot
  <2>1. sched' \in SchedState /\ PointersKnown'
    BY <1>0, <1>1 DEF SchedSnapshot, SchedState, Idle, PointersKnown
  <2> QED BY <1>0, <1>1, <2>1, SchedTypesSuffice
          DEF SchedSnapshot, sessVars, workerVars, netVars
<1>2. CASE SchedChooseVictim
  <2>1. \A v \in Evictable(sched.query) :
           v \in Queries /\ session[v].worker_socket \in Workers \cup {NoWorker}
    BY <1>0 DEF Evictable, Session
  <2>2. sched' \in SchedState /\ PointersKnown'
    BY <1>0, <1>2, <2>1 DEF SchedChooseVictim, SchedState, PointersKnown
  <2> QED BY <1>0, <1>2, <2>2, SchedTypesSuffice
          DEF SchedChooseVictim, sessVars, workerVars, netVars
<1>3. CASE SchedEvictSession
  <2>1. sched.victim \in Queries /\ session[sched.victim].version + 1 \in Nat
    BY <1>0, <1>3 DEF SchedEvictSession, PointersKnown, Session, Versions
  <2>2. session' \in [Queries -> Session]
    <3> DEFINE s == [session[sched.victim] EXCEPT !.version = session[sched.victim].version + 1,
                       !.is_active = FALSE, !.worker_socket = NoWorker]
    <3>1. session[sched.victim] \in Session
      BY <1>0, <2>1
    <3>2. s \in Session
      BY <2>1, <3>1 DEF Session, Versions
    <3>3. session' = [session EXCEPT ![sched.victim] = s]
      BY <1>3 DEF SchedEvictSession
    <3>4. QED
      BY <1>0, <3>2, <3>3
  <2>3. sched' \in SchedState /\ PointersKnown'
    BY <1>0, <1>3 DEF SchedEvictSession, SchedState, PointersKnown
  <2> QED BY <1>0, <1>3, <2>2, <2>3, SchedTypesSuffice
          DEF SchedEvictSession, workerVars, netVars
<1>4. CASE SchedMarkAwaiting
  <2>1. winfo' \in [Workers -> WorkerInfo]
    BY <1>0, <1>4, WorkerUpdates DEF SchedMarkAwaiting
  <2>2. sched' \in SchedState /\ PointersKnown'
    BY <1>0, <1>4 DEF SchedMarkAwaiting, SchedState, PointersKnown
  <2> QED BY <1>0, <1>4, <2>1, <2>2, SchedTypesSuffice
          DEF SchedMarkAwaiting, sessVars, netVars
<1>5. CASE SchedSendEvict
  <2>1. Evict(sched.victim, session[sched.victim].version) \in Msg
    <3>1. sched.victim \in Queries /\ session[sched.victim].version \in Nat
      BY <1>0, <1>5 DEF SchedSendEvict, PointersKnown, Session, Versions
    <3> QED BY <3>1, Messages
  <2>2. to_worker' \in [Workers -> Seq(Msg)]
    <3>1. UNCHANGED to_worker
          \/ SendToWorker(sched.worker,
                          Evict(sched.victim, session[sched.victim].version))
      BY <1>5 DEF SchedSendEvict
    <3> QED BY <1>0, <2>1, <3>1, SendTypes
  <2>3. sched' \in SchedState /\ PointersKnown'
    BY <1>0, <1>5 DEF SchedSendEvict, SchedState, PointersKnown
  <2> QED BY <1>0, <1>5, <2>2, <2>3, SchedTypesSuffice
          DEF SchedSendEvict, sessVars, workerVars
<1>6. CASE SchedEvictFailed
  <2>1. winfo' \in [Workers -> WorkerInfo]
    BY <1>0, <1>6, WorkerUpdates DEF SchedEvictFailed
  <2>2. sched' \in SchedState /\ PointersKnown'
    BY <1>0, <1>6 DEF SchedEvictFailed, SchedState, PointersKnown
  <2> QED BY <1>0, <1>6, <2>1, <2>2, SchedTypesSuffice
          DEF SchedEvictFailed, sessVars, netVars
<1>7. CASE SchedSearch
  <2>1. sched' \in SchedState /\ PointersKnown'
    BY <1>0, <1>7 DEF SchedSearch, SchedState, PointersKnown
  <2> QED BY <1>0, <1>7, <2>1, SchedTypesSuffice
          DEF SchedSearch, sessVars, workerVars, netVars
<1>8. CASE SchedAssign
  <2>1. Ready(sched.query) =>
          /\ sched.query \in Queries
          /\ session[sched.query].pc \in Nat
    BY <1>0 DEF Ready, Session
  <2>2. sched' \in SchedState /\ PointersKnown'
    <3>1. CASE sched' = Idle
      BY <1>0, <3>1 DEF PointersKnown
    <3>2. CASE Ready(sched.query) /\ sched' = [sched EXCEPT !.at = "send_path",
                                                 !.pc = session[sched.query].pc]
      <4>1. sched' \in SchedState
        BY <1>0, <2>1, <3>2 DEF SchedState
      <4>2. sched'.at = "send_path" /\ sched'.query = sched.query
        BY <1>0, <3>2 DEF SchedState
      <4> QED BY <2>1, <3>2, <4>1, <4>2 DEF PointersKnown
    <3> QED BY <1>8, <3>1, <3>2 DEF SchedAssign
  <2>3. session' \in [Queries -> Session]
    <3>1. sched.worker \in Workers \cup {NoWorker}
      BY <1>0 DEF SchedState
    <3>2. CASE UNCHANGED session
      BY <1>0, <3>2
    <3>3. CASE Ready(sched.query) /\ session' = [session EXCEPT
                 ![sched.query].is_active = TRUE,
                 ![sched.query].worker_socket = sched.worker]
      BY <1>0, <2>1, <3>1, <3>3 DEF Session
    <3> QED BY <1>8, <3>2, <3>3 DEF SchedAssign
  <2>4. winfo' \in [Workers -> WorkerInfo]
    <3>1. PICK b \in BOOLEAN : winfo' = [winfo EXCEPT ![sched.worker].is_busy = b]
      BY <1>8 DEF SchedAssign
    <3>2. [winfo EXCEPT ![sched.worker].is_busy = b] \in [Workers -> WorkerInfo]
      BY <1>0, WorkerUpdates
    <3> QED BY <3>1, <3>2
  <2> QED BY <1>0, <1>8, <2>2, <2>3, <2>4, SchedTypesSuffice DEF SchedAssign, netVars
<1>9. CASE SchedSendPath
  <2>1. Path(sched.query, sched.pc) \in Msg
    BY <1>0, Messages DEF SchedState
  <2>2. to_worker' \in [Workers -> Seq(Msg)]
    <3>1. UNCHANGED to_worker
          \/ SendToWorker(sched.worker, Path(sched.query, sched.pc))
      BY <1>9 DEF SchedSendPath
    <3> QED BY <1>0, <2>1, <3>1, SendTypes
  <2>3. sched' \in SchedState /\ PointersKnown'
    BY <1>0, <1>9 DEF SchedSendPath, SchedState, PointersKnown
  <2> QED BY <1>0, <1>9, <2>2, <2>3, SchedTypesSuffice
          DEF SchedSendPath, sessVars, workerVars
<1>10. CASE SchedRevert
  <2>1. session' \in [Queries -> Session]
    BY <1>0, <1>10 DEF SchedRevert, Session
  <2>2. winfo' \in [Workers -> WorkerInfo]
    BY <1>0, <1>10, WorkerUpdates DEF SchedRevert
  <2>3. sched' \in SchedState /\ PointersKnown'
    BY <1>0, <1>10 DEF SchedRevert, PointersKnown
  <2> QED BY <1>0, <1>10, <2>1, <2>2, <2>3, SchedTypesSuffice DEF SchedRevert, netVars
<1>11. CASE Age
  <2>1. session' \in [Queries -> Session]
    <3>1. PICK aged \in SUBSET {q \in query_sessions : /\ Ready(q)
                                                       /\ session[q].priority > 1} :
            session' = [q \in Queries |->
               IF q \in aged THEN [session[q] EXCEPT !.priority = @ - 1]
                             ELSE session[q]]
      BY <1>11 DEF Age
    <3>2. \A q \in aged : [session[q] EXCEPT !.priority = @ - 1] \in Session
      <4> SUFFICES ASSUME NEW q \in aged
                   PROVE  [session[q] EXCEPT !.priority = @ - 1] \in Session
        OBVIOUS
      <4>1. session[q] \in Session /\ session[q].priority > 1
        BY <1>0
      <4>2. session[q].priority - 1 \in Nat
        BY <4>1 DEF Session
      <4> QED BY <4>1, <4>2 DEF Session
    <3> QED BY <1>0, <3>1, <3>2
  <2>2. PointersKnown'
    BY <1>0, <1>11 DEF Age, PointersKnown
  <2> QED BY <1>0, <1>11, <2>1, <2>2, SchedTypesSuffice
          DEF Age, workerVars, netVars
<1> QED BY <1>1, <1>2, <1>3, <1>4, <1>5, <1>6, <1>7, <1>8, <1>9, <1>10, <1>11
        DEF SchedStep

\* The types are an inductive invariant.
LEMMA TypeInvariant == Spec => []TypeInv
<1>1. Init => TypeInv
  <2> SUFFICES ASSUME Init PROVE TypeInv
    OBVIOUS
  <2>1. CoreTypeInv
    BY CoreTypeInit DEF Init
  <2>2. sched \in SchedState /\ PointersKnown
    BY DEF Init, Idle, SchedState, PointersKnown
  <2> QED BY <2>1, <2>2 DEF TypeInv, TypeOK, CoreTypeInv, SchedState
<1>2. TypeInv /\ [Next]_vars => TypeInv'
  <2> SUFFICES ASSUME TypeInv, [Next]_vars PROVE TypeInv'
    OBVIOUS
  <2>1. CASE CoreNext
    <3>1. CoreTypeInv'
      BY <2>1, CoreTypeStep DEF TypeInv
    <3>2. UNCHANGED sched
      BY <2>1, CoreLeavesSched
    <3> QED BY <3>1, <3>2 DEF TypeInv, TypeOK, CoreTypeInv, PointersKnown
  <2>2. CASE SchedStep \/ Age
    BY <2>2, SchedTypes
  <2>3. CASE UNCHANGED vars
    <3>1. CoreTypeInv'
      BY <2>3, Frame DEF vars, TypeInv, CoreTypeInv, CoreTypeOK
    <3> QED BY <2>3, <3>1 DEF vars, TypeInv, TypeOK, CoreTypeInv, PointersKnown
  <2> QED BY <2>1, <2>2, <2>3 DEF Next
<1> QED BY <1>1, <1>2, PTL DEF Spec

\* Every reachable state has the types of the C structures it models.
THEOREM TypeCorrect == Spec => []TypeOK
<1>1. TypeInv => TypeOK
  BY DEF TypeInv
<1> QED BY <1>1, TypeInvariant, PTL

-----------------------------------------------------------------------------
(***************************************************************************)
(* No instruction is skipped                                               *)
(***************************************************************************)
LEMMA SchedPc == TypeInv /\ TypeInv' /\ FullPcInv /\ (SchedStep \/ Age) => FullPcInv'
<1> SUFFICES ASSUME TypeInv, TypeInv', FullPcInv, SchedStep \/ Age PROVE FullPcInv'
  OBVIOUS
<1>0. /\ session \in [Queries -> Session] /\ query_sessions \subseteq Queries
      /\ to_worker \in [Workers -> Seq(Msg)] /\ sched \in SchedState /\ PointersKnown
      /\ SessionsBehind /\ ChannelsBehind /\ SchedBehind /\ PcInv
  BY DEF TypeInv, CoreTypeInv, CoreTypeOK, TypeOK, SessionsTypeOK, NetTypeOK,
     SchedState, FullPcInv, PcInv
<1>1. HandlersBehind' /\ WorkersBehind' /\ UNCHANGED <<reached, to_master>>
  BY SchedLeaves, PcFrame DEF FullPcInv, PcInv
<1>2. ASSUME UNCHANGED session PROVE SessionsBehind'
  BY <1>0, <1>1, <1>2, PcFrame
<1>3. ASSUME UNCHANGED to_worker PROVE ChannelsBehind'
  BY <1>0, <1>1, <1>3, PcFrame
<1>4. ASSUME NEW w, NEW m \in TrueMsg, SendToWorker(w, m) \/ UNCHANGED to_worker
      PROVE  ChannelsBehind'
  <2>1. UNCHANGED TrueMsg
    BY <1>1 DEF TrueMsg
  <2>2. \A x \in Workers : Append(to_worker[x], m) \in Seq(TrueMsg)
    BY <1>0, <1>4, OneMore DEF ChannelsBehind
  <2>3. \A x \in Workers : to_worker'[x] \in {to_worker[x], Append(to_worker[x], m)}
    BY <1>0, <1>4 DEF SendToWorker
  <2> QED BY <1>0, <1>1, <2>1, <2>2, <2>3 DEF ChannelsBehind
<1>5. ASSUME UNCHANGED sched PROVE SchedBehind'
  BY <1>0, <1>1, <1>5 DEF SchedBehind
<1>6. CASE SchedSnapshot
  <2>1. SchedBehind'
    BY <1>6 DEF SchedSnapshot, SchedBehind, Idle
  <2> QED BY <1>1, <1>2, <1>3, <1>6, <2>1
          DEF SchedSnapshot, FullPcInv, PcInv, sessVars, netVars
<1>7. CASE SchedChooseVictim
  <2>1. SchedBehind'
    BY <1>0, <1>7 DEF SchedChooseVictim, SchedBehind, SchedState
  <2> QED BY <1>1, <1>2, <1>3, <1>7, <2>1
          DEF SchedChooseVictim, FullPcInv, PcInv, sessVars, netVars
<1>8. CASE SchedEvictSession
  <2>1. SchedBehind'
    BY <1>0, <1>8 DEF SchedEvictSession, SchedBehind, SchedState
  <2>2. SessionsBehind'
    BY <1>0, <1>1, <1>8 DEF SchedEvictSession, SessionsBehind, Session
  <2> QED BY <1>1, <1>3, <1>8, <2>1, <2>2 DEF SchedEvictSession, FullPcInv, PcInv, netVars
<1>9. CASE SchedMarkAwaiting \/ SchedEvictFailed \/ SchedSearch
  <2>1. SchedBehind'
    <3>1. CASE SchedMarkAwaiting
      BY <1>0, <3>1 DEF SchedMarkAwaiting, SchedBehind, SchedState
    <3>2. CASE SchedEvictFailed
      BY <1>0, <3>2 DEF SchedEvictFailed, SchedBehind, SchedState
    <3>3. CASE SchedSearch
      <4>1. \/ \E w \in Workers : sched' = [sched EXCEPT !.at = "assign", !.worker = w]
            \/ sched' = Idle
        BY <3>3 DEF SchedSearch
      <4>2. sched'.at # "send_path"
        <5>1. ASSUME NEW w \in Workers,
                     sched' = [sched EXCEPT !.at = "assign", !.worker = w]
              PROVE  sched'.at = "assign"
          BY <1>0, <5>1 DEF SchedState
        <5>2. CASE sched' = Idle
          BY <5>2 DEF Idle
        <5> QED BY <4>1, <5>1, <5>2
      <4> QED BY <4>2 DEF SchedBehind
    <3> QED BY <1>9, <3>1, <3>2, <3>3
  <2> QED BY <1>1, <1>2, <1>3, <1>9, <2>1
          DEF SchedMarkAwaiting, SchedEvictFailed, SchedSearch, FullPcInv, PcInv,
              sessVars, netVars
<1>10. CASE SchedSendEvict
  <2>1. SchedBehind'
    BY <1>0, <1>10 DEF SchedSendEvict, SchedBehind, SchedState
  <2> DEFINE m == Evict(sched.victim, session[sched.victim].version)
  <2>2. m \in TrueMsg
    <3>1. sched.victim \in Queries /\ session[sched.victim].version \in Nat
      BY <1>0, <1>10 DEF SchedSendEvict, PointersKnown, Session, Versions
    <3>2. m \in Msg
      BY <3>1, Messages
    <3> QED BY <3>2 DEF TrueMsg, Evict
  <2>3. SendToWorker(sched.worker, m) \/ UNCHANGED to_worker
    BY <1>10 DEF SchedSendEvict
  <2>4. ChannelsBehind'
    BY <1>4, <2>2, <2>3
  <2> QED BY <1>1, <1>2, <1>10, <2>1, <2>4
          DEF SchedSendEvict, FullPcInv, PcInv, sessVars
<1>11. CASE SchedAssign
  <2>1. SchedBehind'
    <3>1. CASE sched' = Idle
      BY <3>1 DEF SchedBehind, Idle
    <3>2. CASE Ready(sched.query) /\ sched' = [sched EXCEPT !.at = "send_path",
                                                 !.pc = session[sched.query].pc]
      <4>1. sched.query \in Queries
        BY <1>0, <3>2 DEF Ready
      <4>2. sched'.pc = session[sched.query].pc /\ sched'.query = sched.query
        BY <1>0, <3>2 DEF SchedState
      <4>3. session[sched.query].pc <= reached[sched.query]
        BY <1>0, <4>1 DEF SessionsBehind
      <4> QED BY <1>1, <4>2, <4>3 DEF SchedBehind
    <3> QED BY <1>11, <3>1, <3>2 DEF SchedAssign
  <2>2. \A q \in Queries : session'[q].pc = session[q].pc
    <3>1. sched.query \in Queries => session[sched.query] \in Session
      BY <1>0
    <3>2. \/ UNCHANGED session
          \/ session' = [session EXCEPT ![sched.query].is_active = TRUE,
                                       ![sched.query].worker_socket = sched.worker]
      BY <1>11 DEF SchedAssign
    <3> QED BY <1>0, <3>1, <3>2 DEF Session
  <2>3. SessionsBehind'
    BY <1>0, <1>1, <2>2 DEF SessionsBehind
  <2> QED BY <1>1, <1>3, <1>11, <2>1, <2>3 DEF SchedAssign, FullPcInv, PcInv, netVars
<1>12. CASE SchedSendPath
  <2>1. SchedBehind'
    BY <1>0, <1>12 DEF SchedSendPath, SchedBehind, SchedState, Idle
  <2> DEFINE m == Path(sched.query, sched.pc)
  <2>2. m \in TrueMsg
    <3>1. sched.query \in Queries /\ sched.pc \in Nat /\ sched.pc <= reached[sched.query]
      BY <1>0, <1>12 DEF SchedSendPath, PointersKnown, SchedState, SchedBehind
    <3>2. m \in Msg
      BY <3>1, Messages
    <3> QED BY <3>1, <3>2 DEF TrueMsg, Path
  <2>3. SendToWorker(sched.worker, m) \/ UNCHANGED to_worker
    BY <1>12 DEF SchedSendPath
  <2>4. ChannelsBehind'
    BY <1>4, <2>2, <2>3
  <2> QED BY <1>1, <1>2, <1>12, <2>1, <2>4
          DEF SchedSendPath, FullPcInv, PcInv, sessVars
<1>13. CASE SchedRevert
  <2>1. SchedBehind'
    BY <1>13 DEF SchedRevert, SchedBehind, Idle
  <2>2. \A q \in Queries : session'[q].pc = session[q].pc
    BY <1>0, <1>13 DEF SchedRevert, Session
  <2>3. SessionsBehind'
    BY <1>0, <1>1, <2>2 DEF SessionsBehind
  <2> QED BY <1>1, <1>3, <1>13, <2>1, <2>3 DEF SchedRevert, FullPcInv, PcInv, netVars
<1>14. CASE Age
  <2>1. \A q \in Queries : session'[q].pc = session[q].pc
    BY <1>0, <1>14 DEF Age, Session
  <2>2. SessionsBehind'
    BY <1>0, <1>1, <2>1 DEF SessionsBehind
  <2> QED BY <1>1, <1>3, <1>5, <1>14, <2>2 DEF Age, FullPcInv, PcInv, netVars
<1> QED BY <1>6, <1>7, <1>8, <1>9, <1>10, <1>11, <1>12, <1>13, <1>14 DEF SchedStep

\* Every program counter kept or on its way is behind what was executed.
LEMMA PcInvariant == Spec => []FullPcInv
<1>1. Init => FullPcInv
  BY PcInit DEF Init, Idle, FullPcInv, SchedBehind
<1>2. TypeInv /\ TypeInv' /\ FullPcInv /\ [Next]_vars => FullPcInv'
  <2> SUFFICES ASSUME TypeInv, TypeInv', FullPcInv, [Next]_vars PROVE FullPcInv'
    OBVIOUS
  <2>1. CASE CoreNext
    <3>1. PcInv' /\ UNCHANGED sched
      BY <2>1, PcStep, CoreLeavesSched DEF TypeInv, FullPcInv
    <3>2. \A q \in Queries : reached[q] <= reached'[q]
      <4> SUFFICES ASSUME NEW q \in Queries PROVE reached[q] <= reached'[q]
        OBVIOUS
      <4>1. reached \in [Queries -> Nat] /\ reached' \in [Queries -> Nat]
        BY DEF TypeInv, CoreTypeInv, CoreTypeOK, ProcessesTypeOK
      <4>2. ASSUME NEW w \in Workers, WorkerStep(w) PROVE reached[q] <= reached'[q]
        BY <4>1, <4>2 DEF WorkerStep, TypeInv, CoreTypeInv, CoreTypeOK,
           ProcessesTypeOK, WorkerProc
      <4>3. CASE UNCHANGED reached
        BY <4>1, <4>3
      <4> QED BY <2>1, <4>2, <4>3 DEF CoreNext, Submit, Confirm, ConfirmFails,
             QueryControlLeaves, Register, HandlerStep, HandleEndOfQuery,
             HandlerSendResult, HandlerFreeWorker, HandlerRemoveSession,
             HandleEvictAck, HandlerApplyAck, HandlerAckWorker, HandlerEnds,
             HandlerEndsAtPeek, Watchdog, EvictDeadline, WorkerReceive, WorkerYields,
             WorkerCrash, MonitorStep, MonitorPick, MonitorCheck, MonitorFindQuery,
             MonitorRemoveWorker, MonitorSendError, MonitorCloseSession
    <3>3. SchedBehind'
      <4>1. /\ \A q \in Queries : reached[q] \in Nat /\ reached'[q] \in Nat
            /\ sched.pc \in Nat
        BY DEF TypeInv, CoreTypeInv, CoreTypeOK, ProcessesTypeOK, TypeOK
      <4> QED BY <3>1, <3>2, <4>1 DEF SchedBehind, FullPcInv, TypeInv, PointersKnown
    <3> QED BY <3>1, <3>3 DEF FullPcInv
  <2>2. CASE SchedStep \/ Age
    BY <2>2, SchedPc
  <2>3. CASE UNCHANGED vars
    BY <2>3, PcFrame DEF vars, sessVars, netVars, FullPcInv, PcInv, SchedBehind
  <2> QED BY <2>1, <2>2, <2>3 DEF Next
<1> QED BY <1>1, <1>2, TypeInvariant, PTL DEF Spec

\* Whatever the interleaving of evictions, answers, reassignments, failures and
\* restarts, a Worker never runs a query from beyond what was executed of it.
THEOREM SkipsNoInstruction == Spec => []NoSkippedInstruction
<1>1. FullPcInv => NoSkippedInstruction
  BY DEF FullPcInv, PcInv, WorkersBehind, NoSkippedInstruction
<1> QED BY <1>1, PcInvariant, PTL

-----------------------------------------------------------------------------
(***************************************************************************)
(* Sessions                                                                *)
(***************************************************************************)
\* Whoever is about to unlist a session has told its Query Control.
LEMMA DropInvariant == Spec => []DropInv
<1>1. Init => DropInv
  BY DropInit DEF Init
<1>2. TypeInv /\ DropInv /\ [Next]_vars => DropInv'
  <2> SUFFICES ASSUME TypeInv, DropInv, [Next]_vars PROVE DropInv'
    OBVIOUS
  <2>1. CASE CoreNext
    BY <2>1, DropStep DEF TypeInv
  <2>2. CASE SchedStep \/ Age
    BY <2>2, SchedLeaves, DropStutters
  <2>3. CASE UNCHANGED vars
    BY <2>3, DropStutters DEF vars, sessVars, clientVars
  <2> QED BY <2>1, <2>2, <2>3 DEF Next
<1> QED BY <1>1, <1>2, TypeInvariant, PTL DEF Spec

\* A session that leaves the list got its result, or its Query Control left,
\* whoever unlisted it.
THEOREM DropsNoSession == Spec => []NoSilentDrop
<1>1. DropInv => NoSilentDrop
  BY DEF DropInv
<1> QED BY <1>1, DropInvariant, PTL

\* A listed session is found by its id, whoever unlists and unindexes sessions.
THEOREM ListedAreIndexed == Spec => []ListedIsIndexed
<1>1. Init => ListedIsIndexed
  BY DEF Init, CoreInit, ListedIsIndexed
<1>2. ListedIsIndexed /\ [Next]_vars => ListedIsIndexed'
  <2> SUFFICES ASSUME ListedIsIndexed, [Next]_vars PROVE ListedIsIndexed'
    OBVIOUS
  <2>1. CASE UNCHANGED <<query_sessions, queries_by_id>>
    BY <2>1 DEF ListedIsIndexed
  <2>2. CASE Submit
    BY <2>2 DEF Submit, ListedIsIndexed
  <2>3. ASSUME NEW q \in Queries, ConfirmFails(q) PROVE ListedIsIndexed'
    BY <2>3 DEF ConfirmFails, ListedIsIndexed
  <2>4. ASSUME NEW w \in Workers, HandlerRemoveSession(w) PROVE ListedIsIndexed'
    BY <2>4 DEF HandlerRemoveSession, ListedIsIndexed
  <2>5. CASE MonitorCloseSession
    BY <2>5 DEF MonitorCloseSession, ListedIsIndexed
  <2>6. CASE SchedStep \/ Age
    BY <2>6, SchedLeaves DEF ListedIsIndexed
  <2>7. CASE CoreNext
    BY <2>1, <2>2, <2>3, <2>4, <2>5, <2>7
       DEF CoreNext, Confirm, QueryControlLeaves, Register, HandlerStep,
           HandleEndOfQuery, HandlerSendResult, HandlerFreeWorker, HandleEvictAck,
           HandlerApplyAck, HandlerAckWorker, HandlerEnds, HandlerEndsAtPeek, Watchdog,
           EvictDeadline, WorkerReceive, WorkerYields, WorkerStep, WorkerCrash,
           MonitorStep, MonitorPick, MonitorCheck, MonitorFindQuery,
           MonitorRemoveWorker, MonitorSendError, sessVars
  <2>8. CASE UNCHANGED vars
    BY <2>1, <2>8 DEF vars, sessVars
  <2> QED BY <2>6, <2>7, <2>8 DEF Next
<1> QED BY <1>1, <1>2, PTL DEF Spec

-----------------------------------------------------------------------------
(***************************************************************************)
(* Victims                                                                 *)
(***************************************************************************)
\* The strengthening of EvictsOnlyWorse: the victim is active, so aging passes
\* over it, and both queries were submitted, so no new submission takes their
\* place.
VictimInv ==
  /\ query_sessions \subseteq SubmittedIds
  /\ sched.at = "choose_victim" => sched.query \in SubmittedIds
  /\ sched.at = "evict" =>
       /\ sched.query \in SubmittedIds /\ sched.victim \in SubmittedIds
       /\ session[sched.victim].is_active
       /\ session[sched.victim].priority > session[sched.query].priority

LEMMA VictimInvariant == Spec => []VictimInv
<1>1. Init => VictimInv
  BY DEF Init, CoreInit, Idle, VictimInv
<1>2. TypeInv /\ VictimInv /\ [Next]_vars => VictimInv'
  <2> SUFFICES ASSUME TypeInv, VictimInv, [Next]_vars PROVE VictimInv'
    OBVIOUS
  <2>0. /\ session \in [Queries -> Session] /\ next_query_id \in Int
        /\ SubmittedIds \subseteq Queries
    BY MasterAssumption
       DEF TypeInv, CoreTypeInv, CoreTypeOK, SessionsTypeOK, SubmittedIds, Queries
  <2>1. CASE CoreNext
    BY <2>1, CoreLeavesSched, CoreKeepsRanks, CoreListsSubmitted DEF TypeInv, VictimInv
  <2>2. ASSUME UNCHANGED <<next_query_id, query_sessions>>
        PROVE  SubmittedIds' = SubmittedIds /\ query_sessions' \subseteq SubmittedIds'
    BY <2>2 DEF SubmittedIds, VictimInv
  <2>3. CASE SchedSnapshot
    BY <2>2, <2>3 DEF SchedSnapshot, Idle, sessVars, VictimInv
  <2>4. CASE SchedChooseVictim
    <3>1. \A v \in Evictable(sched.query) :
            /\ v \in SubmittedIds /\ session[v].is_active
            /\ session[v].priority > session[sched.query].priority
      BY DEF Evictable, VictimInv
    <3>2. sched \in SchedState
      BY DEF TypeInv, TypeOK, SchedState
    <3>3. UNCHANGED <<next_query_id, query_sessions, session>>
      BY <2>4 DEF SchedChooseVictim, sessVars
    <3>4. /\ sched'.at # "choose_victim"
          /\ sched'.at = "evict" =>
               /\ sched'.query = sched.query
               /\ sched'.victim \in Evictable(sched.query)
      BY <2>4, <3>2 DEF SchedChooseVictim, SchedState
    <3>5. sched.query \in SubmittedIds
      BY <2>4 DEF SchedChooseVictim, VictimInv
    <3> QED BY <2>2, <3>1, <3>3, <3>4, <3>5 DEF VictimInv
  <2>5. CASE \/ SchedEvictSession \/ SchedMarkAwaiting \/ SchedSendEvict
             \/ SchedEvictFailed \/ SchedSearch \/ SchedAssign \/ SchedSendPath
             \/ SchedRevert
    <3>1. sched \in SchedState
      BY DEF TypeInv, TypeOK, SchedState
    <3>2. sched'.at \notin {"choose_victim", "evict"}
      <4>0. Idle.at = "idle"
        BY DEF Idle
      <4>1. CASE SchedEvictSession
        BY <3>1, <4>0, <4>1 DEF SchedEvictSession, SchedState
      <4>2. CASE SchedMarkAwaiting
        BY <3>1, <4>0, <4>2 DEF SchedMarkAwaiting, SchedState
      <4>3. CASE SchedSendEvict
        BY <3>1, <4>0, <4>3 DEF SchedSendEvict, SchedState
      <4>4. CASE SchedEvictFailed
        BY <3>1, <4>0, <4>4 DEF SchedEvictFailed, SchedState
      <4>5. CASE SchedSearch
        BY <3>1, <4>0, <4>5 DEF SchedSearch, SchedState
      <4>6. CASE SchedAssign
        BY <3>1, <4>0, <4>6 DEF SchedAssign, SchedState
      <4>7. CASE SchedSendPath
        BY <3>1, <4>0, <4>7 DEF SchedSendPath, SchedState
      <4>8. CASE SchedRevert
        BY <3>1, <4>0, <4>8 DEF SchedRevert, SchedState
      <4> QED BY <2>5, <4>1, <4>2, <4>3, <4>4, <4>5, <4>6, <4>7, <4>8
    <3> QED BY <2>2, <2>5, <3>2, SchedLeaves DEF VictimInv, SchedStep
  <2>6. CASE Age
    <3>1. UNCHANGED <<next_query_id, query_sessions, sched>>
      BY <2>6 DEF Age
    <3>2. \A q \in Queries :
            /\ session'[q].is_active = session[q].is_active
            /\ session'[q].priority <= session[q].priority
            /\ session[q].is_active => session'[q].priority = session[q].priority
      <4> SUFFICES ASSUME NEW q \in Queries
                   PROVE /\ session'[q].is_active = session[q].is_active
                         /\ session'[q].priority <= session[q].priority
                         /\ session[q].is_active =>
                              session'[q].priority = session[q].priority
        OBVIOUS
      <4>1. session[q] \in Session
        BY <2>0
      <4>2. \/ session'[q] = session[q]
            \/ /\ ~session[q].is_active
               /\ session'[q] = [session[q] EXCEPT !.priority = @ - 1]
        BY <2>6 DEF Age, Ready
      <4> QED BY <4>1, <4>2 DEF Session
    <3>3. session' \in [Queries -> Session]
      BY <2>6, SchedTypes DEF TypeInv, CoreTypeInv, CoreTypeOK, SessionsTypeOK
    <3>4. \A q \in Queries : session[q].priority \in Nat /\ session'[q].priority \in Nat
      BY <2>0, <3>3 DEF Session
    <3> QED BY <2>0, <2>2, <3>1, <3>2, <3>4 DEF VictimInv
  <2>7. CASE UNCHANGED vars
    BY <2>2, <2>7 DEF vars, sessVars, VictimInv
  <2> QED BY <2>1, <2>3, <2>4, <2>5, <2>6, <2>7 DEF Next, SchedStep
<1> QED BY <1>1, <1>2, TypeInvariant, PTL DEF Spec

\* Whatever ages, is submitted, answered or closed between the choice of the
\* victim and its eviction, the query it makes room for is still better.
THEOREM EvictsOnlyTheWorse == Spec => []EvictsOnlyWorse
<1>1. VictimInv => EvictsOnlyWorse
  BY DEF VictimInv, EvictsOnlyWorse
<1> QED BY <1>1, VictimInvariant, PTL

\* No step makes the priority of a listed query worse, or better by more than
\* one level, or better than 1.
THEOREM PrioritiesImprove == Spec => PriorityOnlyImproves
<1> DEFINE Better ==
      \A q \in query_sessions :
        q \in query_sessions' =>
          session'[q].priority \in {session[q].priority}
             \cup {p \in 1 .. session[q].priority : p = session[q].priority - 1}
<1>1. TypeInv /\ VictimInv /\ [Next]_vars => [Better]_vars
  <2> SUFFICES ASSUME TypeInv, VictimInv, Next, NEW q \in query_sessions
               PROVE session'[q].priority \in {session[q].priority}
                       \cup {p \in 1 .. session[q].priority :
                               p = session[q].priority - 1}
    OBVIOUS
  <2>0. /\ session \in [Queries -> Session] /\ q \in Queries /\ q \in SubmittedIds
        /\ session[q].priority \in Nat
    BY DEF TypeInv, CoreTypeInv, CoreTypeOK, SessionsTypeOK, VictimInv, Session
  <2>1. CASE CoreNext
    BY <2>0, <2>1, CoreKeepsRanks DEF TypeInv
  <2>2. CASE Age
    <3>1. \/ session'[q] = session[q]
          \/ /\ session[q].priority > 1
             /\ session'[q] = [session[q] EXCEPT !.priority = @ - 1]
      BY <2>0, <2>2 DEF Age
    <3>2. session[q] \in Session
      BY <2>0
    <3>3. \/ session'[q].priority = session[q].priority
          \/ /\ session[q].priority > 1
             /\ session'[q].priority = session[q].priority - 1
      BY <3>1, <3>2 DEF Session
    <3> QED BY <2>0, <3>3
  <2>3. CASE SchedStep
    <3>0. session[q] \in Session
      BY <2>0
    <3>1. CASE SchedEvictSession
      BY <2>0, <3>0, <3>1 DEF SchedEvictSession, Session
    <3>2. CASE SchedAssign
      BY <2>0, <3>0, <3>2 DEF SchedAssign, Session
    <3>3. CASE SchedRevert
      BY <2>0, <3>0, <3>3 DEF SchedRevert, Session
    <3>4. CASE UNCHANGED session
      BY <2>0, <3>4
    <3> QED BY <2>3, <3>1, <3>2, <3>3, <3>4
            DEF SchedStep, SchedSnapshot, SchedChooseVictim, SchedMarkAwaiting,
                SchedSendEvict, SchedEvictFailed, SchedSearch, SchedSendPath, sessVars
  <2> QED BY <2>1, <2>2, <2>3 DEF Next
<1> QED BY <1>1, TypeInvariant, VictimInvariant, PTL DEF Spec, PriorityOnlyImproves

-----------------------------------------------------------------------------
(***************************************************************************)
(* Errors                                                                  *)
(***************************************************************************)
LEMMA ErrorInvariant == Spec => []ErrorInv
<1>1. Init => ErrorInv
  BY ErrorInit DEF Init
<1>2. TypeInv /\ ErrorInv /\ [Next]_vars => ErrorInv'
  <2> SUFFICES ASSUME TypeInv, ErrorInv, [Next]_vars PROVE ErrorInv'
    OBVIOUS
  <2>1. CASE CoreNext
    BY <2>1, ErrorStep DEF TypeInv
  <2>2. CASE SchedStep \/ Age
    BY <2>2, SchedLeaves, ErrorStutters
  <2>3. CASE UNCHANGED vars
    BY <2>3, ErrorStutters DEF vars, netVars, clientVars
  <2> QED BY <2>1, <2>2, <2>3 DEF Next
<1> QED BY <1>1, <1>2, TypeInvariant, PTL DEF Spec

\* An ERROR that reaches a Query Control comes from an instruction that failed,
\* or from the monitor, which is right about the Worker: it read everything the
\* Worker had sent, and a Worker that ended does not come back.
THEOREM ReportsNoSpuriousError == Spec => []NoSpuriousError
BY ErrorInvariant, ErrorMeans, PTL

-----------------------------------------------------------------------------
(***************************************************************************)
(* The version fence                                                       *)
(***************************************************************************)
\* The strengthening of OneAnswerPerEviction: there are tokens only of versions
\* whose EVICT was sent, which the present one is not between the eviction and
\* its EVICT.
Asked(q, v) ==
  /\ q \in SubmittedIds
  /\ v <= session[q].version
  /\ sched.at \in {"await", "send_evict"} /\ sched.victim = q => v # session[q].version
TokensInv == \A q \in Queries, v \in Nat : OneToken(q, v) /\ (NoToken(q, v) \/ Asked(q, v))
VictimSubmitted == sched.at \in {"await", "send_evict"} => sched.victim \in SubmittedIds
FenceInv == TokensInv /\ VictimSubmitted

\* A step that sends no EVICT and keeps what was asked.
LEMMA SameTokens ==
  ASSUME FenceInv, UNCHANGED <<to_worker, to_master, handler>>,
         \A q \in Queries, v \in Nat : Asked(q, v) => Asked(q, v)'
  PROVE  TokensInv'
BY DEF FenceInv, TokensInv, OneToken, NoToken, NobodyApplies, Applies, Absent, Single

LEMMA SchedFence ==
  ASSUME TypeInv, TypeInv', VictimInv, FenceInv, SchedStep \/ Age
  PROVE  FenceInv'
<1>0. /\ sched \in SchedState /\ session \in [Queries -> Session]
      /\ to_worker \in [Workers -> Seq(Msg)] /\ SubmittedIds \subseteq Queries
      /\ Idle.at = "idle" /\ CoreTypeInv
  BY MasterAssumption
     DEF TypeInv, CoreTypeInv, CoreTypeOK, SessionsTypeOK, NetTypeOK, TypeOK,
         SchedState, Idle, SubmittedIds, Queries
<1>a. \A q \in Queries : session[q].version \in Nat
  BY <1>0 DEF Session, Versions
<1>1. UNCHANGED <<to_master, handler, SubmittedIds>>
  BY SchedLeaves DEF SubmittedIds
<1>2. ASSUME \A q \in Queries : session'[q].version = session[q].version,
             \/ sched'.at \notin {"await", "send_evict"}
             \/ sched.at = "await" /\ sched'.victim = sched.victim
             \/ UNCHANGED sched,
             UNCHANGED to_worker
      PROVE  FenceInv'
  <2>1. VictimSubmitted'
    BY <1>1, <1>2 DEF FenceInv, VictimSubmitted
  <2>2. \A q \in Queries, v \in Nat : Asked(q, v) => Asked(q, v)'
    BY <1>1, <1>2 DEF Asked
  <2> QED BY <1>1, <1>2, <2>1, <2>2, SameTokens DEF FenceInv
<1>3. CASE SchedSnapshot
  <2>1. sched'.at \in {"assign", "choose_victim"}
    BY <1>3 DEF SchedSnapshot, Idle
  <2> QED BY <1>2, <1>3, <2>1 DEF SchedSnapshot, sessVars, netVars
<1>4. CASE SchedChooseVictim
  <2>1. sched'.at \in {"evict", "search"}
    BY <1>0, <1>4 DEF SchedChooseVictim, SchedState
  <2> QED BY <1>2, <1>4, <2>1 DEF SchedChooseVictim, sessVars, netVars
<1>5. CASE SchedEvictSession
  <2> DEFINE p == sched.victim
  <2>1. /\ sched.at = "evict" /\ sched'.at = "await" /\ sched'.victim = p
        /\ UNCHANGED to_worker /\ p \in SubmittedIds
    BY <1>0, <1>5 DEF SchedEvictSession, SchedState, netVars, VictimInv
  <2>2. /\ session'[p].version = session[p].version + 1
        /\ \A q \in Queries \ {p} : session'[q] = session[q]
    BY <1>0, <1>5, <2>1 DEF SchedEvictSession, Session
  <2> HIDE DEF p
  <2>3. ASSUME NEW q \in Queries, NEW v \in Nat, Asked(q, v) PROVE Asked(q, v)'
    <3>1. CASE q = p
      BY <1>0, <1>a, <1>1, <2>1, <2>2, <2>3, <3>1 DEF Asked
    <3>2. CASE q # p
      BY <1>1, <2>1, <2>2, <2>3, <3>2 DEF Asked
    <3> QED BY <3>1, <3>2
  <2>4. VictimSubmitted'
    BY <1>1, <2>1 DEF VictimSubmitted
  <2> QED BY <1>1, <2>1, <2>3, <2>4, SameTokens DEF FenceInv
<1>6. CASE SchedMarkAwaiting
  <2>1. sched.at = "await" /\ sched'.victim = sched.victim
    BY <1>0, <1>6 DEF SchedMarkAwaiting, SchedState
  <2> QED BY <1>2, <1>6, <2>1 DEF SchedMarkAwaiting, sessVars, netVars
<1>7. CASE SchedSendEvict
  <2> DEFINE p == sched.victim
             n == session[p].version
             m == Evict(p, n)
  <2>1. /\ sched.at = "send_evict" /\ sched'.at \in {"search", "evict_failed"}
        /\ UNCHANGED session /\ p \in SubmittedIds /\ p \in Queries /\ n \in Nat
    BY <1>0, <1>a, <1>7
       DEF SchedSendEvict, SchedState, sessVars, FenceInv, VictimSubmitted
  <2>2. CASE UNCHANGED to_worker
    BY <1>2, <2>1, <2>2
  <2>3. CASE ~UNCHANGED to_worker
    <3>1. /\ Added(to_worker, to_worker', sched.worker, m) /\ sched'.at = "search"
      BY <1>0, <1>7, <2>3 DEF SchedSendEvict, SendToWorker, Added, SchedState
    <3>2. sched.worker \in Workers
      BY <1>0, <2>3, <3>1 DEF Added
    <3>3. m \in Msg /\ m.op = "EVICT" /\ m.query = p /\ m.version = n
      BY <2>1, Messages DEF Evict
    <3>4. VictimSubmitted'
      BY <3>1 DEF VictimSubmitted
    <3> HIDE DEF m, n
    <3>5. ASSUME NEW q \in Queries, NEW v \in Nat
          PROVE  OneToken(q, v)' /\ (NoToken(q, v)' \/ Asked(q, v)')
      <4>1. CASE q = p /\ v = n
        <5>1. NoToken(q, v)
          BY <2>1, <4>1 DEF Asked, FenceInv, TokensInv, n
        <5>2. Single(to_worker', Evicts(q, v))
          BY <1>0, <3>1, <3>2, <3>3, <5>1, LastComes DEF NoToken
        <5>3. Absent(to_master', Acks(q, v)) /\ NobodyApplies(q, v)'
          BY <1>1, <5>1 DEF NoToken, NobodyApplies, Applies
        <5>4. Asked(q, v)'
          BY <1>1, <2>1, <3>1, <4>1 DEF Asked, n
        <5> QED BY <5>2, <5>3, <5>4, AbsentIsSingle DEF OneToken, NobodyApplies
      <4>2. CASE ~(q = p /\ v = n)
        <5>1. m \notin Evicts(q, v)
          BY <3>3, <4>2 DEF Evicts, KindAt, Kind
        <5>2. /\ Absent(to_worker, Evicts(q, v)) => Absent(to_worker', Evicts(q, v))
              /\ Single(to_worker, Evicts(q, v)) => Single(to_worker', Evicts(q, v))
          BY <1>0, <3>1, <3>2, <3>3, <5>1, LastComes
        <5>3. /\ OneToken(q, v) => OneToken(q, v)'
              /\ NoToken(q, v) => NoToken(q, v)'
          BY <1>1, <5>2, FewerTokens DEF Applies
        <5>4. Asked(q, v) => Asked(q, v)'
          BY <1>1, <2>1, <3>1 DEF Asked
        <5> QED BY <5>3, <5>4 DEF FenceInv, TokensInv
      <4> QED BY <4>1, <4>2
    <3> QED BY <3>4, <3>5 DEF FenceInv, TokensInv
  <2> QED BY <2>2, <2>3
<1>8. CASE SchedEvictFailed
  <2>1. sched'.at = "search"
    BY <1>0, <1>8 DEF SchedEvictFailed, SchedState
  <2> QED BY <1>2, <1>8, <2>1 DEF SchedEvictFailed, sessVars, netVars
<1>9. CASE SchedSearch
  <2>1. sched'.at \in {"assign", "idle"}
    BY <1>0, <1>9 DEF SchedSearch, SchedState
  <2> QED BY <1>2, <1>9, <2>1 DEF SchedSearch, sessVars, netVars
\* The two steps below change sessions, and no version.
<1>10. CASE SchedAssign
  <2>1. sched'.at \in {"send_path", "idle"} /\ UNCHANGED to_worker
    BY <1>0, <1>10 DEF SchedAssign, SchedState, netVars
  <2>2. \A q \in Queries : session'[q].version = session[q].version
    <3> SUFFICES ASSUME NEW q \in Queries PROVE session'[q].version = session[q].version
      OBVIOUS
    <3>1. session[q] \in Session
      BY <1>0
    <3>2. \/ session'[q] = session[q]
          \/ session'[q] = [session[q] EXCEPT !.is_active = TRUE, !.worker_socket = sched.worker]
      BY <1>0, <1>10 DEF SchedAssign
    <3> QED BY <3>1, <3>2 DEF Session
  <2> QED BY <1>2, <2>1, <2>2
<1>11. CASE SchedRevert
  <2>1. sched'.at = "idle" /\ UNCHANGED to_worker
    BY <1>0, <1>11 DEF SchedRevert, netVars
  <2>2. \A q \in Queries : session'[q].version = session[q].version
    <3> SUFFICES ASSUME NEW q \in Queries PROVE session'[q].version = session[q].version
      OBVIOUS
    <3>1. session[q] \in Session
      BY <1>0
    <3>2. \/ session'[q] = session[q]
          \/ session'[q] = [session[q] EXCEPT !.is_active = FALSE, !.worker_socket = NoWorker]
      BY <1>0, <1>11 DEF SchedRevert
    <3> QED BY <3>1, <3>2 DEF Session
  <2> QED BY <1>2, <2>1, <2>2
<1>12. CASE SchedSendPath
  <2>1. sched'.at \in {"idle", "revert"} /\ UNCHANGED session
    BY <1>0, <1>12 DEF SchedSendPath, SchedState, sessVars
  <2>2. VictimSubmitted' /\ \A q \in Queries, v \in Nat : Asked(q, v) => Asked(q, v)'
    BY <1>1, <2>1 DEF VictimSubmitted, Asked
  <2>3. CASE UNCHANGED to_worker
    BY <1>2, <2>1, <2>3
  <2>4. CASE ~UNCHANGED to_worker
    <3> DEFINE m == Path(sched.query, sched.pc)
    <3>1. /\ Added(to_worker, to_worker', sched.worker, m)
      BY <1>12, <2>4 DEF SchedSendPath, SendToWorker, Added
    <3>2. sched.worker \in Workers
      BY <1>0, <2>4, <3>1 DEF Added
    <3>3. m \in Msg /\ m.op = "PATH"
      BY <1>0, Messages DEF SchedState, Path
    <3> HIDE DEF m
    <3>4. ASSUME NEW q \in Queries, NEW v \in Nat
          PROVE  /\ OneToken(q, v) => OneToken(q, v)'
                 /\ NoToken(q, v) => NoToken(q, v)'
      <4>1. m \notin Evicts(q, v)
        BY <3>3 DEF Evicts, KindAt, Kind
      <4>2. /\ Absent(to_worker, Evicts(q, v)) => Absent(to_worker', Evicts(q, v))
            /\ Single(to_worker, Evicts(q, v)) => Single(to_worker', Evicts(q, v))
        BY <1>0, <3>1, <3>2, <3>3, <4>1, LastComes
      <4> QED BY <1>1, <4>2, FewerTokens DEF Applies
    <3> QED BY <2>2, <3>4 DEF FenceInv, TokensInv
  <2> QED BY <2>3, <2>4
<1>13. CASE Age
  <2>1. UNCHANGED <<sched, to_worker>>
    BY <1>13 DEF Age, netVars
  <2>2. \A q \in Queries : session'[q].version = session[q].version
    <3> SUFFICES ASSUME NEW q \in Queries PROVE session'[q].version = session[q].version
      OBVIOUS
    <3>1. \/ session'[q] = session[q]
          \/ session'[q] = [session[q] EXCEPT !.priority = @ - 1]
      BY <1>13 DEF Age
    <3>2. session[q] \in Session
      BY <1>0
    <3> QED BY <3>1, <3>2 DEF Session
  <2> QED BY <1>2, <2>1, <2>2
<1> QED BY <1>3, <1>4, <1>5, <1>6, <1>7, <1>8, <1>9, <1>10, <1>11, <1>12, <1>13
        DEF SchedStep

LEMMA FenceInvariant == Spec => []FenceInv
<1>1. Init => FenceInv
  <2> SUFFICES ASSUME Init PROVE FenceInv
    OBVIOUS
  <2>1. \A q \in Queries, v \in Nat : OneToken(q, v) /\ NoToken(q, v)
    BY DEF Init, CoreInit, OneToken, NoToken, NobodyApplies, Applies, Absent, Single
  <2> QED BY <2>1 DEF Init, Idle, FenceInv, TokensInv, VictimSubmitted
<1>2. TypeInv /\ TypeInv' /\ VictimInv /\ FenceInv /\ [Next]_vars => FenceInv'
  <2> SUFFICES ASSUME TypeInv, TypeInv', VictimInv, FenceInv, [Next]_vars PROVE FenceInv'
    OBVIOUS
  <2>1. CASE CoreNext
    <3>1. UNCHANGED sched /\ SubmittedIds \subseteq SubmittedIds'
          /\ \A q \in SubmittedIds : session'[q].version = session[q].version
      BY <2>1, CoreLeavesSched, CoreKeepsVersions, CoreListsSubmitted
         DEF TypeInv, VictimInv
    <3>2. \A q \in Queries, v \in Nat : Asked(q, v) => Asked(q, v)'
      BY <3>1 DEF Asked
    <3>3. TokensInv'
      BY <2>1, <3>2, CoreTokens DEF FenceInv, TokensInv, TypeInv
    <3> QED BY <3>1, <3>3 DEF FenceInv, VictimSubmitted
  <2>2. CASE SchedStep \/ Age
    BY <2>2, SchedFence
  <2>3. CASE UNCHANGED vars
    <3>1. UNCHANGED <<next_query_id, session, to_worker, to_master, handler, sched>>
      BY <2>3 DEF vars, sessVars, netVars
    <3>2. TokensInv'
      BY <3>1, SameTokens DEF Asked, SubmittedIds
    <3> QED BY <3>1, <3>2 DEF FenceInv, VictimSubmitted, SubmittedIds
  <2> QED BY <2>1, <2>2, <2>3 DEF Next
<1> QED BY <1>1, <1>2, TypeInvariant, VictimInvariant, PTL DEF Spec

\* However late an EVICT_ACK comes, however often its query was evicted in the
\* meantime and whoever runs it now, no two answers name the same eviction, and
\* none names one that has not happened: the version test lets one through.
THEOREM AnswersEachEvictionOnce == Spec => []OneAnswerPerEviction
<1>1. TypeInv /\ FenceInv => OneAnswerPerEviction
  <2> SUFFICES ASSUME TypeInv, FenceInv, NEW q \in Queries, NEW v \in 0 .. MaxVersion + 1
               PROVE  EvictionTokens(q, v) <= IF v <= session[q].version THEN 1 ELSE 0
    BY DEF OneAnswerPerEviction
  <2>1. v \in Nat
    BY MasterAssumption
  <2>2. OneToken(q, v) /\ (NoToken(q, v) \/ v <= session[q].version)
    BY <2>1 DEF FenceInv, TokensInv, Asked
  <2>3. EvictionTokens(q, v) \in {0, 1} /\ (NoToken(q, v) => EvictionTokens(q, v) = 0)
    BY <2>1, <2>2, TokensCounted DEF TypeInv
  <2> QED BY <2>2, <2>3
<1> QED BY <1>1, TypeInvariant, FenceInvariant, PTL
-----------------------------------------------------------------------------
(***************************************************************************)
(* While nothing has gone wrong                                            *)
(***************************************************************************)
\* No query was evicted, no Worker crashed and no Query Control left.
Calm ==
  /\ \A q \in SubmittedIds : session[q].version \in UninitVersions
  /\ \A w \in Workers : wproc[w].state # "crashed"
  /\ \A q \in Queries : qc[q] # "gone"

\* The query whose session w's handler is about to close, after it has freed w,
\* and the others that are active on w.
Leaving(w) == IF handler[w].at = "remove_session" THEN {handler[w].query} ELSE {}
InCharge(w) == ActiveOn(w) \ Leaving(w)
Sending(w) == sched.at = "send_path" /\ sched.worker = w
Listening(w) == handler[w].at \in {"poll", "remove_session"}
NothingSent(w) == to_worker[w] = <<>> /\ to_master[w] = <<>>

\* A Worker without a query, and the stages of one with q: the PATH is about to be
\* sent, is on its way, is being executed, was ignored, is executed; the handler
\* is closing it.
FreeWorker(w) ==
  /\ ~winfo[w].is_busy /\ InCharge(w) = {}
  /\ NothingSent(w) /\ ~Sending(w)
  /\ \/ handler[w].at = "accept" /\ wproc[w].state = "off"
     \/ Listening(w) /\ wproc[w].state = "idle"
Starting(w, q) ==
  /\ Sending(w) /\ sched.query = q /\ sched.pc = 0 /\ reached[q] = 0
  /\ NothingSent(w) /\ Listening(w) /\ wproc[w].state = "idle"
OnItsWay(w, q) ==
  /\ ~Sending(w) /\ to_worker[w] = <<Path(q, 0)>> /\ to_master[w] = <<>> /\ reached[q] = 0
  /\ Listening(w) /\ wproc[w].state = "idle"
Executed(w, q) ==
  /\ ~Sending(w) /\ NothingSent(w) /\ Listening(w)
  /\ wproc[w] = [state |-> "running", query |-> q, pc |-> reached[q]]
  /\ reached[q] <= Last
Ignored(w, q) ==
  /\ ~Sending(w) /\ NothingSent(w) /\ Listening(w)
  /\ wproc[w].state = "idle" /\ q \in Unreadable
Ended(q, m) == m.op = "FINISHED" => reached[q] = Last + 1
Reported(w, q) ==
  /\ ~Sending(w) /\ to_worker[w] = <<>>
  /\ \E m \in {Finished(q), Error(q)} : to_master[w] = <<m>> /\ Ended(q, m)
  /\ Listening(w) /\ wproc[w].state = "idle"
Closing(w, q) ==
  /\ ~Sending(w) /\ NothingSent(w) /\ wproc[w].state = "idle"
  /\ handler[w].at \in {"send", "free_worker"} /\ handler[w].query = q
  /\ Ended(q, handler[w].msg)
Stage(w, q) ==
  \/ Starting(w, q) \/ OnItsWay(w, q) \/ Executed(w, q) \/ Ignored(w, q)
  \/ Reported(w, q) \/ Closing(w, q)
Untold(w, q) == results[q] = <<>> <=> handler[w].at # "free_worker"
BusyWorker(w) ==
  /\ winfo[w].is_busy
  /\ \E q \in Queries : InCharge(w) = {q} /\ Stage(w, q) /\ Untold(w, q)

CalmWorker(w) ==
  /\ Leaving(w) \subseteq ActiveOn(w)
  /\ FreeWorker(w) \/ BusyWorker(w)
  /\ Registered(w) <=> handler[w].at # "accept"
CalmWorkers == \A w \in Workers : CalmWorker(w)
CalmSched ==
  /\ sched.at \in {"idle", "choose_victim", "evict", "search", "assign", "send_path"}
  /\ sched.at \in {"choose_victim", "evict", "search", "assign"} => Ready(sched.query)
  /\ sched.at \in {"assign", "send_path"} => sched.worker \in Workers
  /\ sched.at = "assign" => Registered(sched.worker) /\ ~winfo[sched.worker].is_busy
CalmSessions ==
  /\ query_sessions \subseteq SubmittedIds
  /\ \A q \in Queries : session[q].pc = 0
  /\ \A q \in Queries : q \notin SubmittedIds \/ Ready(q) =>
                          reached[q] = 0 /\ results[q] = <<>>
CalmMonitor ==
  /\ monitor.at \in {"scan", "check"}
  /\ monitor.at = "check" => monitor.worker \in Workers
CalmInv == CalmWorkers /\ CalmSched /\ CalmSessions /\ CalmMonitor

\* The Master between the steps: what this proof knows of a reachable state.
Known == TypeInv /\ DropInv /\ VictimInv
CalmKnown == Known /\ Calm /\ CalmInv

\* Nobody's process ended.
LEMMA NobodyEnded ==
  ASSUME NEW w \in Workers, CalmInv
  PROVE  wproc[w].state \in {"off", "idle", "running"}
<1>1. CASE FreeWorker(w)
  BY <1>1 DEF FreeWorker
<1>2. ASSUME NEW q \in Queries, Stage(w, q) PROVE wproc[w].state \in {"idle", "running"}
  <2>1. CASE Executed(w, q)
    BY <2>1 DEF Executed
  <2> QED BY <1>2, <2>1 DEF Stage, Starting, OnItsWay, Ignored, Reported, Closing
<1> QED BY <1>1, <1>2 DEF CalmInv, CalmWorkers, CalmWorker, BusyWorker

\* What concerns a Worker is left alone.
SameQueries(w) ==
  /\ ActiveOn(w)' = ActiveOn(w)
  /\ \A q \in ActiveOn(w) : reached'[q] = reached[q] /\ results'[q] = results[q]
SameWorker(w) ==
  /\ handler'[w] = handler[w] /\ wproc'[w] = wproc[w]
  /\ winfo'[w].is_busy = winfo[w].is_busy
  /\ to_worker'[w] = to_worker[w] /\ to_master'[w] = to_master[w]
  /\ Registered(w)' <=> Registered(w)
SameSending(w) ==
  \/ UNCHANGED sched
  \/ ~Sending(w) /\ ~Sending(w)'

LEMMA WorkerStays ==
  ASSUME NEW w \in Workers, CalmWorker(w), SameQueries(w), SameWorker(w), SameSending(w)
  PROVE  CalmWorker(w)'
<1>1. /\ Leaving(w)' = Leaving(w) /\ InCharge(w)' = InCharge(w)
      /\ Listening(w)' <=> Listening(w)
      /\ NothingSent(w)' <=> NothingSent(w)
      /\ Sending(w)' <=> Sending(w)
  BY DEF SameQueries, SameWorker, SameSending, Leaving, InCharge, Listening, NothingSent, Sending
<1>2. FreeWorker(w) => FreeWorker(w)'
  BY <1>1 DEF FreeWorker, SameWorker
<1>3. ASSUME BusyWorker(w) PROVE BusyWorker(w)'
  <2>1. PICK q \in Queries : InCharge(w) = {q} /\ Stage(w, q) /\ Untold(w, q)
    BY <1>3 DEF BusyWorker
  <2>2. reached'[q] = reached[q] /\ results'[q] = results[q]
    BY <2>1 DEF SameQueries, InCharge
  <2>3. Untold(w, q)'
    BY <2>1, <2>2 DEF Untold, SameWorker
  <2>4. Starting(w, q) => Starting(w, q)'
    BY <1>1, <2>2 DEF Starting, SameWorker, SameSending
  <2>5. OnItsWay(w, q) => OnItsWay(w, q)'
    BY <1>1, <2>2 DEF OnItsWay, SameWorker
  <2>6. /\ Executed(w, q) => Executed(w, q)'
        /\ Ignored(w, q) => Ignored(w, q)'
    BY <1>1, <2>2 DEF Executed, Ignored, SameWorker
  <2>7. /\ Reported(w, q) => Reported(w, q)'
        /\ Closing(w, q) => Closing(w, q)'
    BY <1>1, <2>2 DEF Reported, Closing, Ended, SameWorker
  <2>8. Stage(w, q)'
    BY <2>1, <2>4, <2>5, <2>6, <2>7 DEF Stage
  <2> QED BY <1>1, <1>3, <2>1, <2>3, <2>8 DEF BusyWorker, SameWorker
<1> QED BY <1>1, <1>2, <1>3 DEF CalmWorker, SameQueries, SameWorker

\* A step of w's Worker or of its handler: only w and what is active on w change.
ChangesOnly(w) ==
  /\ UNCHANGED <<next_query_id, session, sched, monitor>>
  /\ query_sessions' \subseteq query_sessions
  /\ query_sessions \subseteq query_sessions' \cup ActiveOn(w)
  /\ \A q \in Queries \ ActiveOn(w) : reached'[q] = reached[q] /\ results'[q] = results[q]
  /\ \A x \in Workers \ {w} : SameWorker(x)

LEMMA OneWorkerMoves ==
  ASSUME TypeInv, VictimInv, CalmInv, NEW w \in Workers, ChangesOnly(w), CalmWorker(w)',
         Registered(w) => Registered(w)' /\ (winfo'[w].is_busy => winfo[w].is_busy)
  PROVE  CalmInv'
<1>0. /\ query_sessions \subseteq Queries /\ ActiveOn(w) \subseteq query_sessions
      /\ SubmittedIds' = SubmittedIds /\ query_sessions \subseteq SubmittedIds
  BY DEF TypeInv, CoreTypeInv, CoreTypeOK, SessionsTypeOK, ActiveOn, VictimInv, ChangesOnly,
     SubmittedIds
<1>1. ASSUME NEW x \in Workers \ {w} PROVE CalmWorker(x)'
  <2>1. ActiveOn(x) \cap ActiveOn(w) = {}
    BY DEF ActiveOn
  <2>2. ActiveOn(x)' = ActiveOn(x)
    BY <2>1 DEF ActiveOn, ChangesOnly
  <2>3. SameQueries(x)
    BY <1>0, <2>1, <2>2 DEF SameQueries, ChangesOnly, ActiveOn
  <2> QED BY <2>3, WorkerStays DEF ChangesOnly, SameSending, CalmInv, CalmWorkers
<1>2. \A q \in Queries : Ready(q)' <=> Ready(q)
  BY <1>0 DEF Ready, ChangesOnly, ActiveOn
<1>3. CalmSched'
  <2>1. Ready(sched.query)' <=> Ready(sched.query)
    BY <1>0 DEF Ready, ChangesOnly, ActiveOn
  <2>2. \A x \in Workers : Registered(x) => Registered(x)' /\ (winfo'[x].is_busy => winfo[x].is_busy)
    BY DEF ChangesOnly, SameWorker
  <2> QED BY <2>1, <2>2 DEF CalmInv, CalmSched, ChangesOnly
<1>4. CalmSessions'
  <2>1. \A q \in Queries : q \notin SubmittedIds \/ Ready(q) => q \notin ActiveOn(w)
    BY <1>0 DEF Ready, ActiveOn
  <2>2. \A q \in Queries : q \notin SubmittedIds' \/ Ready(q)' => q \notin SubmittedIds \/ Ready(q)
    BY <1>0, <1>2
  <2>3. query_sessions' \subseteq SubmittedIds' /\ \A q \in Queries : session'[q].pc = 0
    BY <1>0 DEF ChangesOnly, CalmInv, CalmSessions
  <2> QED BY <2>1, <2>2, <2>3 DEF CalmInv, CalmSessions, ChangesOnly
<1>5. CalmMonitor'
  BY DEF CalmInv, CalmMonitor, ChangesOnly
<1> QED BY <1>1, <1>3, <1>4, <1>5 DEF CalmInv, CalmWorkers

-----------------------------------------------------------------------------
\* What a busy Worker's query is, and what its handler's state says of the stage.
LEMMA BusyWith ==
  ASSUME NEW w \in Workers, CalmInv, winfo[w].is_busy
  PROVE  \E q \in Queries : /\ InCharge(w) = {q} /\ Stage(w, q) /\ Untold(w, q)
                            /\ q \in ActiveOn(w)
BY DEF CalmInv, CalmWorkers, CalmWorker, FreeWorker, BusyWorker, InCharge

LEMMA ClosingWith ==
  ASSUME NEW w \in Workers, CalmInv, handler[w].at \in {"send", "free_worker"}
  PROVE  /\ handler[w].query \in Queries /\ winfo[w].is_busy
         /\ ActiveOn(w) = {handler[w].query}
         /\ Closing(w, handler[w].query) /\ Untold(w, handler[w].query)
<1>1. ~FreeWorker(w)
  BY DEF FreeWorker, Listening
<1>2. PICK q \in Queries : /\ InCharge(w) = {q} /\ Stage(w, q) /\ Untold(w, q)
                           /\ winfo[w].is_busy
  BY <1>1 DEF CalmInv, CalmWorkers, CalmWorker, BusyWorker
<1>3. Closing(w, q)
  BY <1>2 DEF Stage, Starting, OnItsWay, Executed, Ignored, Reported, Listening
<1> QED BY <1>2, <1>3 DEF Closing, InCharge, Leaving

LEMMA HandlersCalm ==
  ASSUME CalmKnown, NEW w \in Workers, Register(w) \/ HandlerStep(w)
  PROVE  CalmInv'
<1>0. /\ handler \in [Workers -> HandlerState] /\ wproc \in [Workers -> WorkerProc]
      /\ winfo \in [Workers -> WorkerInfo]
      /\ to_worker \in [Workers -> Seq(Msg)] /\ to_master \in [Workers -> Seq(Msg)]
      /\ results \in [Queries -> Seq({"FINISHED", "ERROR"})]
      /\ workers_list \in Seq(Workers)
      /\ TypeInv /\ VictimInv /\ CalmInv /\ CalmWorker(w) /\ DropInv
      /\ ActiveOn(w) \subseteq query_sessions
      /\ \A q \in Queries : qc[q] # "gone"
  BY DEF CalmKnown, Known, Calm, CalmInv, CalmWorkers, TypeInv, CoreTypeInv, CoreTypeOK,
     ThreadsTypeOK, ProcessesTypeOK, WorkersTypeOK, NetTypeOK, ClientsTypeOK, ActiveOn
<1>1. CASE Register(w)
  <2>1. /\ handler[w].at = "accept" /\ handler' = [handler EXCEPT ![w].at = "poll"]
        /\ workers_list' = Append(workers_list, w)
        /\ winfo' = [winfo EXCEPT ![w] = IdleWorker]
        /\ wproc' = [wproc EXCEPT ![w].state = "idle"]
        /\ UNCHANGED <<sessVars, sched, monitor, netVars, clientVars, reached>>
    BY <1>1 DEF Register
  <2>2. ~BusyWorker(w)
    BY <2>1 DEF BusyWorker, Stage, Starting, OnItsWay, Executed, Ignored, Reported, Closing,
                Listening
  <2>3. FreeWorker(w) /\ ~Registered(w)
    BY <1>0, <2>1, <2>2 DEF CalmWorker
  <2>4. /\ handler'[w].at = "poll" /\ wproc'[w].state = "idle" /\ ~winfo'[w].is_busy
        /\ \A x \in Workers \ {w} : /\ handler'[x] = handler[x] /\ wproc'[x] = wproc[x]
                                    /\ winfo'[x] = winfo[x]
    BY <1>0, <2>1 DEF HandlerState, WorkerProc, IdleWorker
  <2>5. /\ Registered(w)'
        /\ \A x \in Workers \ {w} : Registered(x)' <=> Registered(x)
    <3>1. /\ Len(workers_list) \in Nat /\ DOMAIN workers_list = 1 .. Len(workers_list)
          /\ DOMAIN workers_list' = 1 .. Len(workers_list) + 1
          /\ workers_list'[Len(workers_list) + 1] = w
          /\ \A i \in 1 .. Len(workers_list) : workers_list'[i] = workers_list[i]
      BY <1>0, <2>1
    <3>2. Registered(w)'
      BY <3>1 DEF Registered
    <3>3. ASSUME NEW x \in Workers \ {w} PROVE Registered(x)' <=> Registered(x)
      BY <3>1, <3>3 DEF Registered
    <3> QED BY <3>2, <3>3
  <2>6. ChangesOnly(w)
    BY <2>1, <2>4, <2>5 DEF ChangesOnly, SameWorker, sessVars, clientVars, netVars
  <2>7. FreeWorker(w)'
    BY <2>1, <2>3, <2>4 DEF FreeWorker, InCharge, Leaving, ActiveOn, NothingSent, Sending,
                             Listening, sessVars, netVars
  <2>8. CalmWorker(w)'
    BY <2>4, <2>5, <2>7 DEF CalmWorker, Leaving
  <2> QED BY <1>0, <2>3, <2>6, <2>8, OneWorkerMoves
<1>2. CASE HandleEndOfQuery(w)
  <2>1. /\ handler[w].at = "poll" /\ to_master[w] # <<>>
        /\ to_master' = [to_master EXCEPT ![w] = Tail(@)]
        /\ UNCHANGED <<sessVars, workerVars, sched, monitor, to_worker, wproc, clientVars,
                       reached>>
    BY <1>2 DEF HandleEndOfQuery, Incoming
  <2>2. BusyWorker(w) /\ Leaving(w) = {}
    BY <1>0, <2>1 DEF CalmWorker, FreeWorker, NothingSent, Leaving
  <2>3. PICK q \in Queries : InCharge(w) = {q} /\ Reported(w, q) /\ Untold(w, q)
    BY <2>1, <2>2 DEF BusyWorker, Stage, Starting, OnItsWay, Executed, Ignored, Closing,
                      NothingSent
  <2>4. ActiveOn(w) = {q}
    BY <2>2, <2>3 DEF InCharge
  <2>5. PICK m \in {Finished(q), Error(q)} : to_master[w] = <<m>> /\ Ended(q, m)
    BY <2>3 DEF Reported
  <2>6. Head(to_master[w]) = m /\ Tail(to_master[w]) = <<>>
    BY <2>5
  <2>7. handler' = [handler EXCEPT ![w] = [at |-> "send", query |-> q, msg |-> m]]
    BY <1>2, <2>4, <2>6 DEF HandleEndOfQuery
  <2>8. /\ handler'[w].at = "send" /\ handler'[w].query = q /\ handler'[w].msg = m
        /\ to_master'[w] = <<>>
        /\ \A x \in Workers \ {w} : handler'[x] = handler[x] /\ to_master'[x] = to_master[x]
    BY <1>0, <2>1, <2>6, <2>7
  <2>9. ChangesOnly(w) /\ (Registered(w)' <=> Registered(w)) /\ UNCHANGED winfo
    BY <2>1, <2>8 DEF ChangesOnly, SameWorker, Registered, sessVars, workerVars, clientVars
  <2>10. /\ ActiveOn(w)' = {q} /\ Leaving(w)' = {} /\ InCharge(w)' = {q}
         /\ ~Sending(w)' /\ NothingSent(w)'
    BY <2>1, <2>3, <2>4, <2>8 DEF ActiveOn, Leaving, InCharge, Sending, NothingSent, Reported,
                                  sessVars
  <2>11. Closing(w, q)' /\ Untold(w, q)'
    BY <2>1, <2>3, <2>5, <2>8, <2>10 DEF Closing, Untold, Reported, Ended, clientVars
  <2>12. BusyWorker(w)'
    BY <2>2, <2>9, <2>10, <2>11 DEF BusyWorker, Stage
  <2>13. CalmWorker(w)'
    BY <1>0, <2>1, <2>8, <2>9, <2>10, <2>12 DEF CalmWorker
  <2> QED BY <1>0, <2>9, <2>13, OneWorkerMoves
<1>3. CASE HandlerSendResult(w)
  <2>1. PICK q \in Queries :
          /\ q = handler[w].query /\ winfo[w].is_busy /\ ActiveOn(w) = {q}
          /\ Closing(w, q) /\ Untold(w, q) /\ handler[w].at = "send"
    BY <1>0, <1>3, ClosingWith DEF HandlerSendResult
  <2>2. /\ SendResult(q, handler[w].msg.op)
        /\ handler' = [handler EXCEPT ![w].at = "free_worker"]
        /\ UNCHANGED <<sessVars, workerVars, sched, monitor, netVars, wproc, qc, confirming,
                       reached>>
    BY <1>0, <1>3, <2>1 DEF HandlerSendResult, SendResultFails
  <2>3. handler[w].msg.op \in {"FINISHED", "ERROR"} /\ qc[q] = "open"
    <3>1. qc \in [Queries -> {"none", "open", "gone"}] /\ SendsAnEnd
      BY <1>0 DEF TypeInv, CoreTypeInv, CoreTypeOK, ClientsTypeOK
    <3>2. qc[q] # "none"
      BY <1>0, <2>1 DEF DropInv, HandlersTold
    <3> QED BY <1>0, <2>1, <3>1, <3>2 DEF SendsAnEnd
  <2>4. /\ results'[q] # <<>> /\ \A p \in Queries \ {q} : results'[p] = results[p]
        /\ handler'[w].at = "free_worker" /\ handler'[w].query = q
        /\ handler'[w].msg = handler[w].msg
        /\ \A x \in Workers \ {w} : handler'[x] = handler[x]
    <3>1. results' = [results EXCEPT ![q] = Append(@, handler[w].msg.op)]
      BY <2>2, <2>3 DEF SendResult
    <3>2. results[q] \in Seq({"FINISHED", "ERROR"})
      BY <1>0, <2>1
    <3>3. results'[q] = Append(results[q], handler[w].msg.op)
      BY <1>0, <2>1, <3>1
    <3>4. results'[q] # <<>>
      BY <2>3, <3>2, <3>3
    <3> QED BY <1>0, <2>1, <2>2, <3>1, <3>4 DEF HandlerState
  <2>5. ChangesOnly(w) /\ (Registered(w)' <=> Registered(w)) /\ UNCHANGED winfo
    BY <2>1, <2>2, <2>4 DEF ChangesOnly, SameWorker, Registered, sessVars, workerVars, netVars
  <2>6. /\ ActiveOn(w)' = {q} /\ Leaving(w)' = {} /\ InCharge(w)' = {q}
    BY <2>1, <2>2, <2>4 DEF ActiveOn, Leaving, InCharge, sessVars
  <2>7. Closing(w, q)' /\ Untold(w, q)'
    BY <2>1, <2>2, <2>4 DEF Closing, Untold, Ended, Sending, NothingSent, netVars
  <2>8. BusyWorker(w)'
    BY <2>1, <2>5, <2>6, <2>7 DEF BusyWorker, Stage
  <2>9. CalmWorker(w)'
    BY <1>0, <2>1, <2>4, <2>5, <2>6, <2>8 DEF CalmWorker
  <2> QED BY <1>0, <2>5, <2>9, OneWorkerMoves
<1>4. CASE HandlerFreeWorker(w)
  <2> DEFINE q == handler[w].query
  <2>1. /\ q \in Queries /\ winfo[w].is_busy /\ ActiveOn(w) = {q}
        /\ Closing(w, q) /\ Untold(w, q) /\ handler[w].at = "free_worker" /\ Registered(w)
    BY <1>0, <1>4, ClosingWith DEF HandlerFreeWorker, CalmWorker
  <2>2. /\ handler' = [handler EXCEPT ![w].at = "remove_session"]
        /\ winfo' = [winfo EXCEPT ![w].is_busy = FALSE]
        /\ UNCHANGED <<sessVars, workers_list, worker_count, sched, monitor, netVars, wproc,
                       clientVars, reached>>
    BY <1>4, <2>1 DEF HandlerFreeWorker
  <2>3. /\ handler'[w].at = "remove_session" /\ handler'[w].query = q
        /\ ~winfo'[w].is_busy
        /\ \A x \in Workers \ {w} : handler'[x] = handler[x] /\ winfo'[x] = winfo[x]
    BY <1>0, <2>2 DEF HandlerState, WorkerInfo
  <2>4. ChangesOnly(w) /\ (Registered(w)' <=> Registered(w))
    BY <2>2, <2>3 DEF ChangesOnly, SameWorker, Registered, sessVars, clientVars, netVars
  <2>5. ActiveOn(w)' = {q} /\ Leaving(w)' = {q} /\ InCharge(w)' = {} /\ Listening(w)'
    BY <2>1, <2>2, <2>3 DEF ActiveOn, Leaving, InCharge, Listening, sessVars
  <2>6. FreeWorker(w)'
    BY <2>1, <2>2, <2>3, <2>5 DEF FreeWorker, Closing, NothingSent, Sending, netVars
  <2>7. CalmWorker(w)'
    BY <2>1, <2>3, <2>4, <2>5, <2>6 DEF CalmWorker
  <2> QED BY <1>0, <2>3, <2>4, <2>7, OneWorkerMoves
<1>5. CASE HandlerRemoveSession(w)
  <2> DEFINE q == handler[w].query
  <2>1. /\ handler[w].at = "remove_session"
        /\ handler' = [handler EXCEPT ![w].at = "poll"]
        /\ query_sessions' = query_sessions \ {q}
        /\ UNCHANGED <<next_query_id, session, workerVars, sched, monitor, netVars, wproc,
                       clientVars, reached>>
    BY <1>5 DEF HandlerRemoveSession
  <2>2. Leaving(w) = {q} /\ q \in ActiveOn(w) /\ q \in query_sessions
    BY <1>0, <2>1 DEF Leaving, CalmWorker
  <2>3. /\ handler'[w].at = "poll"
        /\ \A x \in Workers \ {w} : handler'[x] = handler[x]
    BY <1>0, <2>1 DEF HandlerState
  <2>4. ChangesOnly(w) /\ (Registered(w)' <=> Registered(w)) /\ UNCHANGED winfo
    BY <2>1, <2>2, <2>3 DEF ChangesOnly, SameWorker, Registered, clientVars, netVars, workerVars
  <2>5. Leaving(w)' = {} /\ InCharge(w)' = InCharge(w) /\ Listening(w)' /\ Listening(w)
    BY <2>1, <2>2, <2>3 DEF ActiveOn, Leaving, InCharge, Listening
  <2>6. NothingSent(w)' = NothingSent(w) /\ (Sending(w)' <=> Sending(w))
    BY <2>1 DEF NothingSent, Sending, netVars
  <2>7. FreeWorker(w) => FreeWorker(w)'
    BY <2>1, <2>3, <2>4, <2>5, <2>6 DEF FreeWorker
  <2>8. ASSUME BusyWorker(w) PROVE BusyWorker(w)'
    <3>1. PICK p \in Queries : InCharge(w) = {p} /\ Stage(w, p) /\ Untold(w, p)
      BY <2>8 DEF BusyWorker
    <3>2. Untold(w, p)'
      BY <2>1, <2>3, <3>1 DEF Untold, clientVars
    <3>3. ~Closing(w, p)
      BY <2>1 DEF Closing
    <3>4. /\ Starting(w, p) => Starting(w, p)'
          /\ OnItsWay(w, p) => OnItsWay(w, p)'
      BY <2>1, <2>5, <2>6 DEF Starting, OnItsWay, netVars
    <3>5. /\ Executed(w, p) => Executed(w, p)'
          /\ Ignored(w, p) => Ignored(w, p)'
          /\ Reported(w, p) => Reported(w, p)'
      BY <2>1, <2>5, <2>6 DEF Executed, Ignored, Reported, Ended, netVars
    <3>6. Stage(w, p)'
      BY <3>1, <3>3, <3>4, <3>5 DEF Stage
    <3> QED BY <2>4, <2>5, <2>8, <3>1, <3>2, <3>6 DEF BusyWorker
  <2>9. CalmWorker(w)'
    BY <1>0, <2>1, <2>3, <2>4, <2>5, <2>7, <2>8 DEF CalmWorker
  <2> QED BY <1>0, <2>4, <2>9, OneWorkerMoves
<1>6. ~HandleEvictAck(w)
  <2> SUFFICES ASSUME HandleEvictAck(w) PROVE FALSE
    OBVIOUS
  <2>1. handler[w].at = "poll" /\ to_master[w] # <<>> /\ Head(to_master[w]).op = "EVICT_ACK"
    BY DEF HandleEvictAck, Incoming
  <2>2. BusyWorker(w)
    BY <1>0, <2>1 DEF CalmWorker, FreeWorker, NothingSent
  <2>3. PICK q \in Queries : Reported(w, q)
    BY <2>1, <2>2 DEF BusyWorker, Stage, Starting, OnItsWay, Executed, Ignored, Closing,
                      NothingSent
  <2>4. PICK m \in {Finished(q), Error(q)} : to_master[w] = <<m>>
    BY <2>3 DEF Reported
  <2>5. Head(to_master[w]) = m
    BY <2>4
  <2> QED BY <2>1, <2>5 DEF Finished, Error
<1>7. ~HandlerApplyAck(w) /\ ~HandlerAckWorker(w)
  BY <1>0 DEF HandlerApplyAck, HandlerAckWorker, CalmWorker, FreeWorker, BusyWorker, Stage,
              Starting, OnItsWay, Executed, Ignored, Reported, Closing, Listening
<1>8. ~HandlerEnds(w) /\ ~HandlerEndsAtPeek(w)
  BY <1>0, NobodyEnded DEF HandlerEnds, HandlerEndsAtPeek, Disconnected, Closed
<1> QED BY <1>1, <1>2, <1>3, <1>4, <1>5, <1>6, <1>7, <1>8 DEF HandlerStep

\* A Worker that executes has the query of a session of its own, and nothing else.
LEMMA ExecutesOwn ==
  ASSUME NEW w \in Workers, CalmInv, wproc[w].state = "running"
  PROVE  /\ wproc[w].query \in Queries /\ Executed(w, wproc[w].query)
         /\ wproc[w].query \in ActiveOn(w) /\ winfo[w].is_busy
         /\ InCharge(w) = {wproc[w].query} /\ Untold(w, wproc[w].query)
<1>1. ~FreeWorker(w)
  BY DEF FreeWorker
<1>2. PICK q \in Queries : /\ InCharge(w) = {q} /\ Stage(w, q) /\ Untold(w, q)
                           /\ winfo[w].is_busy
  BY <1>1 DEF CalmInv, CalmWorkers, CalmWorker, BusyWorker
<1>3. Executed(w, q)
  BY <1>2 DEF Stage, Starting, OnItsWay, Ignored, Reported, Closing
<1>4. wproc[w].query = q
  BY <1>3 DEF Executed
<1> QED BY <1>2, <1>3, <1>4 DEF InCharge

LEMMA WorkersCalm ==
  ASSUME CalmKnown, NEW w \in Workers,
         Watchdog(w) \/ EvictDeadline(w) \/ WorkerReceive(w) \/ WorkerYields(w)
         \/ WorkerStep(w)
  PROVE  CalmInv'
<1>0. /\ wproc \in [Workers -> WorkerProc] /\ reached \in [Queries -> Nat]
      /\ winfo \in [Workers -> WorkerInfo]
      /\ to_worker \in [Workers -> Seq(Msg)] /\ to_master \in [Workers -> Seq(Msg)]
      /\ TypeInv /\ VictimInv /\ CalmInv /\ CalmWorker(w) /\ Last \in Nat
      /\ ActiveOn(w) \subseteq query_sessions
  BY MasterAssumption
     DEF CalmKnown, Known, CalmInv, CalmWorkers, TypeInv, CoreTypeInv, CoreTypeOK,
         ProcessesTypeOK, WorkersTypeOK, NetTypeOK, ActiveOn
<1>1. ~Watchdog(w)
  BY <1>0, BusyWith DEF Watchdog, Stale
<1>2. CASE EvictDeadline(w)
  <2>1. /\ winfo' = [winfo EXCEPT ![w].expired = TRUE]
        /\ UNCHANGED <<sessVars, workers_list, worker_count, sched, handler, monitor, netVars,
                       wproc, clientVars, reached>>
    BY <1>2 DEF EvictDeadline
  <2>2. \A x \in Workers : winfo'[x].is_busy = winfo[x].is_busy
    BY <1>0, <2>1 DEF WorkerInfo
  <2>3. \A x \in Workers : SameWorker(x) /\ SameSending(x) /\ SameQueries(x)
    BY <2>1, <2>2 DEF SameWorker, Registered, SameSending, SameQueries, ActiveOn, sessVars,
                      netVars, clientVars
  <2>4. ChangesOnly(w) /\ CalmWorker(w)'
    BY <1>0, <2>1, <2>3, WorkerStays DEF ChangesOnly, sessVars, clientVars
  <2> QED BY <1>0, <2>2, <2>3, <2>4, OneWorkerMoves DEF SameWorker
<1>3. CASE WorkerReceive(w)
  <2>1. /\ wproc[w].state = "idle" /\ to_worker[w] # <<>>
        /\ to_worker' = [to_worker EXCEPT ![w] = Tail(@)]
        /\ UNCHANGED <<sessVars, workerVars, sched, handler, monitor, to_master, clientVars,
                       reached>>
    BY <1>3 DEF WorkerReceive
  <2>2. BusyWorker(w)
    BY <1>0, <2>1 DEF CalmWorker, FreeWorker, NothingSent
  <2>3. PICK q \in Queries : InCharge(w) = {q} /\ OnItsWay(w, q) /\ Untold(w, q)
    BY <2>1, <2>2 DEF BusyWorker, Stage, Starting, Executed, Ignored, Reported, Closing,
                      NothingSent
  <2>4. /\ to_worker[w] = <<Path(q, 0)>> /\ Head(to_worker[w]) = Path(q, 0)
        /\ Tail(to_worker[w]) = <<>>
    BY <2>3 DEF OnItsWay
  <2>5. wproc' = [wproc EXCEPT ![w] = IF q \in Unreadable THEN @
                    ELSE [state |-> "running", query |-> q, pc |-> 0]]
    <3>1. wproc' = [wproc EXCEPT ![w] =
             IF Head(to_worker[w]).op # "PATH"
             THEN [state |-> "stopped", query |-> NoQuery, pc |-> 0]
             ELSE IF Head(to_worker[w]).query \in Unreadable THEN @
             ELSE [state |-> "running", query |-> Head(to_worker[w]).query,
                   pc |-> Head(to_worker[w]).pc]]
      BY <1>3 DEF WorkerReceive
    <3>2. Path(q, 0).op = "PATH" /\ Path(q, 0).query = q /\ Path(q, 0).pc = 0
      BY DEF Path
    <3> QED BY <2>4, <3>1, <3>2
  <2>6. /\ to_worker'[w] = <<>>
        /\ wproc'[w] = IF q \in Unreadable THEN wproc[w]
                       ELSE [state |-> "running", query |-> q, pc |-> 0]
        /\ \A x \in Workers \ {w} : to_worker'[x] = to_worker[x] /\ wproc'[x] = wproc[x]
    BY <1>0, <2>1, <2>4, <2>5
  <2>7. /\ ChangesOnly(w) /\ (Registered(w)' <=> Registered(w)) /\ UNCHANGED winfo
        /\ InCharge(w)' = {q} /\ Leaving(w)' = Leaving(w) /\ ActiveOn(w)' = ActiveOn(w)
    BY <2>1, <2>3, <2>6 DEF ChangesOnly, SameWorker, Registered, sessVars, workerVars,
                            clientVars, InCharge, Leaving, ActiveOn
  <2>8. /\ ~Sending(w)' /\ NothingSent(w)' /\ Listening(w)' /\ reached'[q] = 0
    BY <2>1, <2>3, <2>6 DEF OnItsWay, Sending, NothingSent, Listening
  <2>9. Executed(w, q)' \/ Ignored(w, q)'
    BY <1>0, <2>1, <2>6, <2>8 DEF Executed, Ignored
  <2>10. Untold(w, q)'
    BY <2>1, <2>3 DEF Untold, clientVars
  <2>11. CalmWorker(w)'
    BY <1>0, <2>1, <2>2, <2>7, <2>9, <2>10 DEF CalmWorker, BusyWorker, Stage
  <2> QED BY <1>0, <2>7, <2>11, OneWorkerMoves
<1>4. ~WorkerYields(w)
  BY <1>0, ExecutesOwn DEF WorkerYields, EvictPending, Executed, NothingSent
<1>5. CASE WorkerStep(w)
  <2> DEFINE free == [state |-> "idle", query |-> NoQuery, pc |-> 0]
  <2>1. PICK q \in Queries :
          /\ wproc[w].state = "running" /\ wproc[w].query = q
          /\ Executed(w, q) /\ q \in ActiveOn(w) /\ winfo[w].is_busy
          /\ InCharge(w) = {q} /\ Untold(w, q)
    BY <1>0, <1>5, ExecutesOwn DEF WorkerStep
  <2>2. PICK i \in Nat : wproc[w].pc = i /\ i = reached[q] /\ i <= Last
    BY <1>0, <2>1 DEF Executed
  <2>3. /\ to_worker[w] = <<>> /\ to_master[w] = <<>> /\ to_worker' = to_worker
        /\ ~Sending(w) /\ Listening(w) /\ handler[w].at # "free_worker"
    BY <1>5, <2>1 DEF WorkerStep, CheckSwallows, Executed, NothingSent, Listening
  <2>4. /\ UNCHANGED <<sessVars, workerVars, sched, handler, monitor, clientVars>>
        /\ reached' = [reached EXCEPT ![q] = i + 1]
    <3>1. reached' = [reached EXCEPT ![q] = IF i + 1 > @ THEN i + 1 ELSE @]
      BY <1>5, <2>1, <2>2 DEF WorkerStep
    <3>2. i + 1 > reached[q]
      BY <2>2
    <3>3. UNCHANGED <<sessVars, workerVars, sched, handler, monitor, clientVars>>
      BY <1>5 DEF WorkerStep
    <3> QED BY <3>1, <3>2, <3>3
  <2>5. /\ reached'[q] = i + 1
        /\ \A p \in Queries \ {q} : reached'[p] = reached[p]
    BY <1>0, <2>4
  <2>6. \/ /\ i < Last /\ to_master' = to_master
           /\ wproc' = [wproc EXCEPT ![w].pc = i + 1]
        \/ \E m \in {Finished(q), Error(q)} :
             /\ m.op = "FINISHED" => i = Last
             /\ to_master' = [to_master EXCEPT ![w] = Append(@, m)]
             /\ wproc' = [wproc EXCEPT ![w] = free]
    <3>1. \/ i < Last /\ wproc' = [wproc EXCEPT ![w].pc = i + 1] /\ UNCHANGED to_master
          \/ i >= Last /\ Tell(w, Finished(q)) /\ wproc' = [wproc EXCEPT ![w] = free]
          \/ i < Last /\ Tell(w, Error(q)) /\ wproc' = [wproc EXCEPT ![w] = free]
      BY <1>5, <2>1, <2>2 DEF WorkerStep
    <3>2. Error(q).op # "FINISHED" /\ (i >= Last => i = Last)
      BY <1>0, <2>2 DEF Error
    <3> QED BY <3>1, <3>2 DEF Tell
  <2>7. \A x \in Workers \ {w} : wproc'[x] = wproc[x] /\ to_master'[x] = to_master[x]
    BY <1>0, <2>6
  <2>8. /\ ChangesOnly(w) /\ (Registered(w)' <=> Registered(w)) /\ UNCHANGED winfo
        /\ InCharge(w)' = {q} /\ Leaving(w)' = Leaving(w) /\ ActiveOn(w)' = ActiveOn(w)
    BY <2>1, <2>3, <2>4, <2>5, <2>7
       DEF ChangesOnly, SameWorker, Registered, sessVars, workerVars, clientVars, InCharge,
           Leaving, ActiveOn
  <2>9. ~Sending(w)' /\ Listening(w)' /\ Untold(w, q)'
    BY <2>1, <2>3, <2>4 DEF Sending, Listening, Untold, clientVars
  <2>10. ASSUME i < Last, to_master' = to_master, wproc' = [wproc EXCEPT ![w].pc = i + 1]
         PROVE  CalmWorker(w)'
    <3>1. wproc'[w] = [state |-> "running", query |-> q, pc |-> i + 1]
      BY <1>0, <2>1, <2>10 DEF WorkerProc
    <3>2. NothingSent(w)'
      BY <2>3, <2>10 DEF NothingSent
    <3>3. i + 1 <= Last
      BY <1>0, <2>2, <2>10
    <3>4. Executed(w, q)'
      BY <2>5, <2>9, <3>1, <3>2, <3>3 DEF Executed
    <3> QED BY <1>0, <2>1, <2>4, <2>8, <2>9, <3>4 DEF CalmWorker, BusyWorker, Stage
  <2>11. ASSUME NEW m \in {Finished(q), Error(q)}, m.op = "FINISHED" => i = Last,
                to_master' = [to_master EXCEPT ![w] = Append(@, m)],
                wproc' = [wproc EXCEPT ![w] = free]
         PROVE  CalmWorker(w)'
    <3>1. to_master'[w] = <<m>> /\ wproc'[w].state = "idle"
      BY <1>0, <2>3, <2>11
    <3>2. Reported(w, q)'
      BY <2>3, <2>5, <2>9, <2>11, <3>1 DEF Reported, Ended
    <3> QED BY <1>0, <2>1, <2>4, <2>8, <2>9, <3>2 DEF CalmWorker, BusyWorker, Stage
  <2>12. CalmWorker(w)'
    BY <2>6, <2>10, <2>11
  <2> QED BY <1>0, <2>8, <2>12, OneWorkerMoves
<1> QED BY <1>1, <1>2, <1>3, <1>4, <1>5

LEMMA MonitorCalm ==
  ASSUME CalmKnown, MonitorStep
  PROVE  CalmInv'
<1>0. /\ CalmInv /\ CalmMonitor /\ monitor \in MonitorState
  BY DEF CalmKnown, Known, CalmInv, TypeInv, CoreTypeInv, CoreTypeOK, ThreadsTypeOK
<1>1. CASE \/ \E w \in Workers : MonitorPick(w)
           \/ MonitorCheck
  <2>1. UNCHANGED <<sessVars, workerVars, sched, handler, netVars, wproc, clientVars, reached>>
    BY <1>1 DEF MonitorPick, MonitorCheck
  <2>2. CalmMonitor'
    <3>1. ASSUME NEW w \in Workers, MonitorPick(w) PROVE CalmMonitor'
      BY <3>1 DEF MonitorPick, CalmMonitor
    <3>2. ASSUME MonitorCheck PROVE CalmMonitor'
      <4>1. monitor.worker \in Workers
        BY <1>0, <3>2 DEF MonitorCheck, CalmMonitor
      <4>2. ~Disconnected(monitor.worker)
        BY <1>0, <4>1, NobodyEnded DEF Disconnected, Closed
      <4> QED BY <3>2, <4>2 DEF MonitorCheck, CalmMonitor
    <3> QED BY <1>1, <3>1, <3>2
  <2>3. \A w \in Workers : CalmWorker(w)'
    <3> SUFFICES ASSUME NEW w \in Workers PROVE CalmWorker(w)'
      OBVIOUS
    <3>1. SameQueries(w) /\ SameWorker(w) /\ SameSending(w)
      BY <2>1 DEF SameQueries, SameWorker, SameSending, ActiveOn, Registered, sessVars,
                  workerVars, netVars, clientVars
    <3> QED BY <1>0, <3>1, WorkerStays DEF CalmInv, CalmWorkers
  <2>4. CalmSched' /\ CalmSessions'
    BY <1>0, <2>1 DEF CalmInv, CalmSched, CalmSessions, Ready, Registered, SubmittedIds,
                      sessVars, workerVars, clientVars
  <2> QED BY <2>2, <2>3, <2>4 DEF CalmInv, CalmWorkers
<1>2. ~(\/ MonitorFindQuery \/ MonitorRemoveWorker \/ MonitorSendError
        \/ MonitorCloseSession)
  BY <1>0 DEF CalmMonitor, MonitorFindQuery, MonitorRemoveWorker, MonitorSendError,
              MonitorCloseSession
<1> QED BY <1>1, <1>2 DEF MonitorStep

LEMMA ClientsCalm ==
  ASSUME CalmKnown, Calm',
         Submit \/ \E q \in Queries : Confirm(q) \/ ConfirmFails(q) \/ QueryControlLeaves(q)
  PROVE  CalmInv'
<1>0. /\ CalmInv /\ query_sessions \subseteq SubmittedIds /\ SubmittedIds \subseteq Queries
      /\ next_query_id \in Nat /\ session \in [Queries -> Session]
      /\ qc \in [Queries -> {"none", "open", "gone"}]
      /\ \A q \in Queries : qc[q] # "gone" /\ qc'[q] # "gone"
  BY MasterAssumption
     DEF CalmKnown, Known, Calm, VictimInv, TypeInv, CoreTypeInv, CoreTypeOK, SessionsTypeOK,
         ClientsTypeOK, SubmittedIds, Queries
<1>1. ASSUME NEW q \in Queries, Confirm(q) \/ ConfirmFails(q) \/ QueryControlLeaves(q)
      PROVE  CalmInv'
  <2>1. UNCHANGED <<sessVars, workerVars, sched, handler, monitor, netVars, wproc, results,
                    reached>>
    BY <1>0, <1>1 DEF Confirm, ConfirmFails, QueryControlLeaves
  <2>2. \A w \in Workers : CalmWorker(w)'
    <3> SUFFICES ASSUME NEW w \in Workers PROVE CalmWorker(w)'
      OBVIOUS
    <3>1. SameQueries(w) /\ SameWorker(w) /\ SameSending(w)
      BY <2>1 DEF SameQueries, SameWorker, SameSending, ActiveOn, Registered, sessVars,
                  workerVars, netVars
    <3> QED BY <1>0, <3>1, WorkerStays DEF CalmInv, CalmWorkers
  <2> QED BY <1>0, <2>1, <2>2
          DEF CalmInv, CalmWorkers, CalmSched, CalmSessions, CalmMonitor, Ready, Registered,
              SubmittedIds, sessVars, workerVars
<1>2. CASE Submit
  <2>1. PICK n \in Queries : n = next_query_id /\ n \notin SubmittedIds
    BY <1>0, <1>2 DEF Submit, SubmittedIds
  <2>2. /\ query_sessions' = query_sessions \cup {n} /\ next_query_id' = n + 1
        /\ session'[n].is_active = FALSE /\ session'[n].pc = 0
        /\ \A q \in Queries \ {n} : session'[q] = session[q]
        /\ UNCHANGED <<workerVars, sched, handler, monitor, netVars, wproc, results, reached>>
    BY <1>0, <1>2, <2>1 DEF Submit
  <2>3. \A w \in Workers : CalmWorker(w)'
    <3> SUFFICES ASSUME NEW w \in Workers PROVE CalmWorker(w)'
      OBVIOUS
    <3>1. ActiveOn(w)' = ActiveOn(w)
      BY <1>0, <2>1, <2>2 DEF ActiveOn
    <3>2. SameQueries(w) /\ SameWorker(w) /\ SameSending(w)
      BY <2>2, <3>1 DEF SameQueries, SameWorker, SameSending, Registered, workerVars, netVars
    <3> QED BY <1>0, <3>2, WorkerStays DEF CalmInv, CalmWorkers
  <2>4. SubmittedIds' = SubmittedIds \cup {n} /\ query_sessions' \subseteq SubmittedIds'
    BY <1>0, <2>1, <2>2 DEF SubmittedIds
  <2>5. /\ Ready(sched.query) => Ready(sched.query)'
        /\ \A q \in Queries : Ready(q)' => Ready(q) \/ q = n
    BY <1>0, <2>1, <2>2 DEF Ready
  <2>6. CalmSched'
    BY <1>0, <2>2, <2>5 DEF CalmInv, CalmSched, Registered, workerVars
  <2>7. CalmSessions'
    <3>1. \A q \in Queries : q \notin SubmittedIds' \/ Ready(q)' =>
            q \notin SubmittedIds \/ Ready(q)
      BY <2>1, <2>4, <2>5
    <3> QED BY <1>0, <2>2, <2>4, <3>1 DEF CalmInv, CalmSessions
  <2> QED BY <1>0, <2>2, <2>3, <2>6, <2>7 DEF CalmInv, CalmWorkers, CalmMonitor
<1> QED BY <1>1, <1>2

\* A step of the scheduler that touches no Worker.
LEMMA OnlyDecides ==
  ASSUME CalmInv, UNCHANGED <<sessVars, workerVars, netVars, coreExceptSched>>,
         ~ sched.at = "send_path", ~ sched'.at = "send_path", CalmSched'
  PROVE  CalmInv'
<1>1. ASSUME NEW w \in Workers PROVE CalmWorker(w)'
  <2>1. SameQueries(w) /\ SameWorker(w) /\ SameSending(w)
    BY DEF SameQueries, SameWorker, SameSending, Sending, ActiveOn, Registered, sessVars,
           workerVars, netVars, coreExceptSched, clientVars
  <2> QED BY <2>1, WorkerStays DEF CalmInv, CalmWorkers
<1> QED BY <1>1 DEF CalmInv, CalmWorkers, CalmSessions, CalmMonitor, Ready, SubmittedIds,
                     sessVars, coreExceptSched, clientVars

LEMMA SchedCalm ==
  ASSUME CalmKnown, Calm', SchedStep \/ Age, ~SchedEvictSession
  PROVE  CalmInv'
<1>0. /\ sched \in SchedState /\ session \in [Queries -> Session] /\ CalmSched
      /\ winfo \in [Workers -> WorkerInfo] /\ to_worker \in [Workers -> Seq(Msg)]
      /\ CalmInv /\ query_sessions \subseteq SubmittedIds /\ SubmittedIds \subseteq Queries
      /\ workers_list \in Seq(Workers)
      /\ Idle.at = "idle"
  BY MasterAssumption
     DEF CalmKnown, Known, CalmInv, VictimInv, TypeInv, TypeOK, CoreTypeInv, CoreTypeOK,
         SessionsTypeOK, WorkersTypeOK, NetTypeOK, SchedState, SubmittedIds, Queries, Idle
<1>1. UNCHANGED <<next_query_id, query_sessions, queries_by_id, workers_list, worker_count,
                  to_master, handler, monitor, wproc, qc, confirming, results, reached>>
  BY SchedLeaves
<1>2. CASE SchedSnapshot
  <2>1. /\ sched.at = "idle"
        /\ UNCHANGED <<sessVars, workerVars, netVars, coreExceptSched>>
    BY <1>2 DEF SchedSnapshot
  <2>2. PICK q \in query_sessions :
          /\ Ready(q)
          /\ \/ \E w \in Workers :
                  /\ FirstIdle(w)
                  /\ sched' = [Idle EXCEPT !.at = "assign", !.query = q, !.worker = w]
             \/ sched' = [Idle EXCEPT !.at = "choose_victim", !.query = q]
    BY <1>2 DEF SchedSnapshot
  <2>3. Ready(q)' /\ \A w \in Workers : FirstIdle(w) => Registered(w)' /\ ~winfo'[w].is_busy
    BY <2>1, <2>2 DEF Ready, FirstIdle, Registered, sessVars, workerVars
  <2>4. CASE sched' = [Idle EXCEPT !.at = "choose_victim", !.query = q]
    <3>1. sched'.at = "choose_victim" /\ sched'.query = q
      BY <2>4 DEF Idle
    <3> QED BY <1>0, <2>1, <2>3, <3>1, OnlyDecides DEF CalmSched
  <2>5. ASSUME NEW w \in Workers, FirstIdle(w),
               sched' = [Idle EXCEPT !.at = "assign", !.query = q, !.worker = w]
        PROVE  CalmInv'
    <3>1. sched'.at = "assign" /\ sched'.query = q /\ sched'.worker = w
      BY <2>5 DEF Idle
    <3> QED BY <1>0, <2>1, <2>3, <2>5, <3>1, OnlyDecides DEF CalmSched
  <2> QED BY <2>2, <2>4, <2>5
<1>3. CASE SchedChooseVictim
  <2>1. /\ sched.at = "choose_victim" /\ sched'.query = sched.query
        /\ sched'.at \in {"evict", "search"}
        /\ UNCHANGED <<sessVars, workerVars, netVars, coreExceptSched>>
    BY <1>0, <1>3 DEF SchedChooseVictim, SchedState
  <2> QED BY <1>0, <2>1, OnlyDecides DEF CalmSched, Ready, sessVars
<1>5. ~SchedMarkAwaiting /\ ~SchedSendEvict /\ ~SchedEvictFailed /\ ~SchedRevert
  BY <1>0 DEF SchedMarkAwaiting, SchedSendEvict, SchedEvictFailed, SchedRevert, CalmSched
<1>6. CASE SchedSearch
  <2>1. /\ sched.at = "search"
        /\ UNCHANGED <<sessVars, workerVars, netVars, coreExceptSched>>
        /\ \/ \E w \in Workers : FirstIdle(w) /\ sched' = [sched EXCEPT !.at = "assign",
                                                                       !.worker = w]
           \/ sched' = Idle
    BY <1>6 DEF SchedSearch
  <2>2. CASE sched' = Idle
    BY <1>0, <2>1, <2>2, OnlyDecides DEF CalmSched
  <2>3. ASSUME NEW w \in Workers, FirstIdle(w),
               sched' = [sched EXCEPT !.at = "assign", !.worker = w]
        PROVE  CalmInv'
    <3>1. sched'.at = "assign" /\ sched'.query = sched.query /\ sched'.worker = w
      BY <1>0, <2>3 DEF SchedState
    <3>2. Registered(w)' /\ ~winfo'[w].is_busy
      BY <2>1, <2>3 DEF FirstIdle, Registered, workerVars
    <3>3. PICK q \in query_sessions : q = sched.query /\ Ready(q)
      BY <1>0, <2>1 DEF CalmSched, Ready
    <3>4. Ready(q)'
      BY <2>1, <3>3 DEF Ready, sessVars
    <3>5. CalmSched'
      BY <3>1, <3>2, <3>3, <3>4 DEF CalmSched
    <3> QED BY <1>0, <2>1, <3>1, <3>5, OnlyDecides
  <2> QED BY <2>1, <2>2, <2>3
<1>7. CASE SchedAssign
  <2>1. PICK q \in Queries, w \in Workers :
          /\ sched.at = "assign" /\ q = sched.query /\ w = sched.worker
          /\ Ready(q) /\ Registered(w) /\ ~winfo[w].is_busy
    BY <1>0, <1>7 DEF SchedAssign, CalmSched, Ready
  <2>2. /\ winfo' = [winfo EXCEPT ![w].is_busy = TRUE]
        /\ session' = [session EXCEPT ![q].is_active = TRUE, ![q].worker_socket = w]
        /\ sched' = [sched EXCEPT !.at = "send_path", !.pc = session[q].pc]
        /\ UNCHANGED to_worker
    BY <1>7, <2>1 DEF SchedAssign, netVars
  <2>3. /\ winfo'[w].is_busy /\ \A x \in Workers \ {w} : winfo'[x] = winfo[x]
        /\ session'[q].is_active = TRUE /\ session'[q].worker_socket = w
        /\ session'[q].pc = session[q].pc
        /\ \A p \in Queries \ {q} : session'[p] = session[p]
        /\ sched'.at = "send_path" /\ sched'.query = q /\ sched'.worker = w
        /\ sched'.pc = session[q].pc
    BY <1>0, <2>1, <2>2 DEF Session, SchedState, WorkerInfo
  <2>4. session[q].pc = 0 /\ reached[q] = 0 /\ results[q] = <<>>
        /\ q \in query_sessions /\ ~session[q].is_active
    BY <1>0, <2>1 DEF CalmInv, CalmSessions, Ready
  <2>5. FreeWorker(w) /\ CalmWorker(w)
    BY <1>0, <2>1 DEF CalmInv, CalmWorkers, CalmWorker, BusyWorker
  <2>6. /\ ActiveOn(w)' = ActiveOn(w) \cup {q}
        /\ \A x \in Workers \ {w} : ActiveOn(x)' = ActiveOn(x)
    <3>1. query_sessions' = query_sessions /\ \A p \in query_sessions : p \in Queries
      BY <1>0, <1>1
    <3>2. \A p \in query_sessions \ {q} : session'[p] = session[p]
      BY <2>3, <3>1
    <3> QED BY <2>1, <2>3, <2>4, <3>1, <3>2 DEF ActiveOn
  <2>7. ASSUME NEW x \in Workers \ {w} PROVE CalmWorker(x)'
    <3>1. SameQueries(x) /\ SameWorker(x) /\ SameSending(x)
      BY <1>1, <2>1, <2>2, <2>3, <2>6
         DEF SameQueries, SameWorker, SameSending, Sending, Registered
    <3> QED BY <1>0, <3>1, WorkerStays DEF CalmInv, CalmWorkers
  <2>8. q \notin Leaving(w) /\ Leaving(w)' = Leaving(w) /\ InCharge(w)' = {q}
    BY <1>1, <2>4, <2>5, <2>6 DEF CalmWorker, Leaving, FreeWorker, InCharge, ActiveOn
  <2>9. handler[w].at # "accept" /\ Listening(w) /\ wproc[w].state = "idle" /\ NothingSent(w)
    BY <2>1, <2>5 DEF CalmWorker, FreeWorker
  <2>10. Starting(w, q)' /\ Untold(w, q)'
    BY <1>1, <2>2, <2>3, <2>4, <2>9
       DEF Starting, Sending, Listening, NothingSent, Untold
  <2>11. CalmWorker(w)'
    BY <1>1, <2>3, <2>5, <2>6, <2>8, <2>10
       DEF CalmWorker, BusyWorker, Stage, Registered
  <2>12. CalmSched' /\ CalmMonitor'
    BY <1>0, <1>1, <2>3 DEF CalmSched, CalmInv, CalmMonitor
  <2>13. CalmSessions'
    <3>1. \A p \in Queries : (Ready(p)' => Ready(p)) /\ session'[p].pc = 0
      BY <1>0, <1>1, <2>3, <2>4 DEF Ready, CalmInv, CalmSessions
    <3> QED BY <1>0, <1>1, <3>1 DEF CalmInv, CalmSessions, SubmittedIds
  <2> QED BY <2>7, <2>11, <2>12, <2>13 DEF CalmInv, CalmWorkers
<1>8. CASE SchedSendPath
  <2>1. PICK w \in Workers : sched.at = "send_path" /\ w = sched.worker /\ Sending(w)
    BY <1>0, <1>8 DEF SchedSendPath, CalmSched, Sending
  <2>2. wproc[w].state \in {"off", "idle", "running"} /\ CalmWorker(w) /\ ~FreeWorker(w)
    BY <1>0, <2>1, NobodyEnded DEF CalmInv, CalmWorkers, FreeWorker
  <2>3. PICK q \in Queries : /\ InCharge(w) = {q} /\ Starting(w, q) /\ Untold(w, q)
                             /\ winfo[w].is_busy
    BY <2>1, <2>2 DEF CalmWorker, BusyWorker, Stage, OnItsWay, Executed, Ignored, Reported,
                      Closing
  <2>4. /\ to_worker' = [to_worker EXCEPT ![w] = Append(@, Path(q, 0))]
        /\ sched' = Idle /\ UNCHANGED <<session, winfo>>
    BY <1>8, <2>1, <2>2, <2>3
       DEF SchedSendPath, SendToWorker, SendToWorkerFails, Closed, Starting, sessVars,
           workerVars
  <2>5. to_worker'[w] = <<Path(q, 0)>> /\ \A x \in Workers \ {w} : to_worker'[x] = to_worker[x]
    BY <1>0, <2>3, <2>4 DEF Starting, NothingSent
  <2>6. sched'.at = "idle" /\ \A x \in Workers : ActiveOn(x)' = ActiveOn(x)
    BY <1>0, <1>1, <2>4 DEF ActiveOn
  <2>7. ASSUME NEW x \in Workers \ {w} PROVE CalmWorker(x)'
    <3>1. SameQueries(x) /\ SameWorker(x) /\ SameSending(x)
      BY <1>1, <2>1, <2>4, <2>5, <2>6
         DEF SameQueries, SameWorker, SameSending, Sending, Registered
    <3> QED BY <1>0, <3>1, WorkerStays DEF CalmInv, CalmWorkers
  <2>8. /\ InCharge(w)' = {q} /\ Leaving(w)' = Leaving(w)
        /\ ~Sending(w)' /\ Listening(w)' /\ to_master[w] = <<>>
        /\ wproc[w].state = "idle" /\ reached[q] = 0
    BY <1>1, <2>3, <2>6 DEF InCharge, Leaving, Sending, Listening, Starting, NothingSent
  <2>9. OnItsWay(w, q)' /\ Untold(w, q)'
    BY <1>1, <2>3, <2>5, <2>8 DEF OnItsWay, Untold
  <2>10. CalmWorker(w)'
    BY <1>1, <2>2, <2>3, <2>4, <2>6, <2>8, <2>9
       DEF CalmWorker, BusyWorker, Stage, Registered
  <2>11. CalmSched' /\ CalmMonitor' /\ CalmSessions'
    BY <1>0, <1>1, <2>4, <2>6
       DEF CalmSched, CalmInv, CalmMonitor, CalmSessions, Ready, SubmittedIds
  <2> QED BY <2>7, <2>10, <2>11 DEF CalmInv, CalmWorkers
<1>9. CASE Age
  <2>1. /\ UNCHANGED <<sched, winfo, to_worker>>
        /\ \A p \in Queries : /\ session'[p].is_active = session[p].is_active
                              /\ session'[p].worker_socket = session[p].worker_socket
                              /\ session'[p].pc = session[p].pc
    BY <1>0, <1>9 DEF Age, Session, workerVars, netVars
  <2>2. \A x \in Workers : ActiveOn(x)' = ActiveOn(x)
    BY <1>0, <1>1, <2>1 DEF ActiveOn
  <2>3. \A p \in query_sessions : Ready(p)' <=> Ready(p)
    BY <1>0, <1>1, <2>1 DEF Ready, TypeInv, CoreTypeInv, CoreTypeOK, SessionsTypeOK
  <2>4. ASSUME NEW x \in Workers PROVE CalmWorker(x)'
    <3>1. SameQueries(x) /\ SameWorker(x) /\ SameSending(x)
      BY <1>1, <2>1, <2>2 DEF SameQueries, SameWorker, SameSending, Registered
    <3> QED BY <1>0, <3>1, WorkerStays DEF CalmInv, CalmWorkers
  <2>5. CalmSched'
    <3>1. Ready(sched.query) => Ready(sched.query)'
      BY <1>1, <2>1, <2>3 DEF Ready
    <3> QED BY <1>0, <1>1, <2>1, <3>1 DEF CalmSched, Registered
  <2>6. CalmSessions'
    <3>1. \A p \in Queries : Ready(p)' => Ready(p)
      BY <1>1, <2>3 DEF Ready
    <3> QED BY <1>0, <1>1, <2>1, <3>1 DEF CalmInv, CalmSessions, SubmittedIds
  <2>7. CalmMonitor'
    BY <1>0, <1>1 DEF CalmInv, CalmMonitor
  <2> QED BY <2>4, <2>5, <2>6, <2>7 DEF CalmInv, CalmWorkers
<1> QED BY <1>2, <1>3, <1>5, <1>6, <1>7, <1>8, <1>9 DEF SchedStep

\* Trouble stays: a version that is no longer the first one, a crash, a departure.
OneFirstVersion == \A u, v \in UninitVersions : u = v
FirstVersions == \A q \in SubmittedIds : \A u \in UninitVersions : u <= session[q].version

\* What a step does to the versions of the sessions submitted so far.
LEMMA VersionsMove ==
  ASSUME Known, [Next]_vars
  PROVE  /\ SubmittedIds \subseteq SubmittedIds'
         /\ \A q \in SubmittedIds :
              \/ session'[q].version = session[q].version
              \/ SchedEvictSession /\ session'[q].version = session[q].version + 1
<1>0. /\ session \in [Queries -> Session] /\ SubmittedIds \subseteq Queries
      /\ TypeInv /\ VictimInv
  BY MasterAssumption
     DEF Known, TypeInv, CoreTypeInv, CoreTypeOK, SessionsTypeOK, SubmittedIds, Queries
<1>1. CASE CoreNext
  BY <1>0, <1>1, CoreKeepsVersions, CoreListsSubmitted DEF TypeInv, VictimInv
<1>2. CASE UNCHANGED vars
  BY <1>2 DEF vars, sessVars, SubmittedIds
<1>3. CASE SchedStep \/ Age
  <2>1. SubmittedIds' = SubmittedIds
    BY <1>3, SchedLeaves DEF SubmittedIds
  <2>2. CASE SchedEvictSession
    BY <1>0, <2>1, <2>2 DEF SchedEvictSession, Session
  <2>3. CASE SchedAssign
    BY <1>0, <2>1, <2>3 DEF SchedAssign, Session
  <2>4. CASE SchedRevert
    BY <1>0, <2>1, <2>4 DEF SchedRevert, Session
  <2>5. CASE Age
    BY <1>0, <2>1, <2>5 DEF Age, Session
  <2>6. CASE UNCHANGED session
    BY <2>1, <2>6
  <2> QED BY <1>3, <2>2, <2>3, <2>4, <2>5, <2>6
          DEF SchedStep, SchedSnapshot, SchedChooseVictim, SchedMarkAwaiting,
              SchedSendEvict, SchedEvictFailed, SchedSearch, SchedSendPath, sessVars
<1> QED BY <1>1, <1>2, <1>3 DEF Next

LEMMA NewVersion ==
  ASSUME Known, [Next]_vars, NEW q \in SubmittedIds', q \notin SubmittedIds
  PROVE  session'[q].version \in UninitVersions /\ session'[q].priority \in Priorities
<1>1. CASE Submit
  <2>1. next_query_id \in Queries /\ q = next_query_id /\ session \in [Queries -> Session]
    BY <1>1 DEF Submit, SubmittedIds, Known, TypeInv, CoreTypeInv, CoreTypeOK, SessionsTypeOK
  <2>2. PICK p \in Priorities, v \in UninitVersions :
          session' = [session EXCEPT ![next_query_id] =
                       [is_active |-> FALSE, worker_socket |-> NoWorker,
                        priority |-> p, pc |-> 0, version |-> v]]
    BY <1>1 DEF Submit
  <2> QED BY <2>1, <2>2
<1>2. CASE UNCHANGED next_query_id
  BY <1>2 DEF SubmittedIds
<1> QED
  BY <1>1, <1>2, SchedLeaves
     DEF Next, CoreNext, Confirm, ConfirmFails, QueryControlLeaves, Register, HandlerStep,
         HandleEndOfQuery, HandlerSendResult, HandlerFreeWorker, HandlerApplyAck,
         HandlerRemoveSession, HandleEvictAck, HandlerAckWorker, HandlerEnds,
         HandlerEndsAtPeek, Watchdog, EvictDeadline, WorkerReceive, WorkerYields,
         WorkerStep, WorkerCrash, MonitorStep, MonitorPick, MonitorCheck,
         MonitorFindQuery, MonitorRemoveWorker, MonitorSendError,
         MonitorCloseSession, sessVars, vars

LEMMA FirstVersionsStay ==
  ASSUME OneFirstVersion, Known, FirstVersions, [Next]_vars
  PROVE  FirstVersions'
<1> SUFFICES ASSUME NEW q \in SubmittedIds', NEW u \in UninitVersions
             PROVE  u <= session'[q].version
  BY DEF FirstVersions
<1>0. u \in Nat
  BY MasterAssumption
<1>1. CASE q \in SubmittedIds
  <2>1. u <= session[q].version /\ session[q].version \in Nat
    <3>1. session \in [Queries -> Session] /\ q \in Queries
      BY <1>1, MasterAssumption
         DEF Known, TypeInv, CoreTypeInv, CoreTypeOK, SessionsTypeOK, SubmittedIds, Queries
    <3> QED BY <1>1, <3>1 DEF FirstVersions, Session, Versions
  <2> QED BY <1>0, <1>1, <2>1, VersionsMove
<1>2. CASE q \notin SubmittedIds
  <2>1. session'[q].version \in UninitVersions
    BY <1>2, NewVersion
  <2>2. session'[q].version = u
    BY <2>1 DEF OneFirstVersion
  <2> QED BY <1>0, <2>2
<1> QED BY <1>1, <1>2

\* A process that crashed and a Query Control that left do not come back.
LEMMA GoneForGood ==
  ASSUME Known, AcceptedOnce, [Next]_vars
  PROVE  /\ \A w \in Workers : wproc[w].state = "crashed" => wproc'[w].state = "crashed"
         /\ \A q \in Queries : qc[q] = "gone" => qc'[q] = "gone"
<1>0. /\ handler \in [Workers -> HandlerState] /\ wproc \in [Workers -> WorkerProc]
      /\ qc \in [Queries -> {"none", "open", "gone"}] /\ ClientsKnown /\ next_query_id \in Int
  BY DEF Known, DropInv, TypeInv, CoreTypeInv, CoreTypeOK, SessionsTypeOK, ThreadsTypeOK,
         ProcessesTypeOK, ClientsTypeOK
<1>1. ASSUME NEW u \in Workers,
             \/ Register(u) \/ WorkerReceive(u) \/ WorkerYields(u) \/ WorkerStep(u)
             \/ WorkerCrash(u)
      PROVE  /\ UNCHANGED qc
             /\ \A w \in Workers : wproc[w].state = "crashed" => wproc'[w].state = "crashed"
  <2>1. /\ UNCHANGED qc /\ wproc[u].state # "crashed"
        /\ \A w \in Workers \ {u} : wproc'[w] = wproc[w]
    BY <1>0, <1>1 DEF Register, WorkerReceive, WorkerYields, WorkerStep, WorkerCrash,
                      AcceptedOnce, clientVars
  <2> QED BY <2>1
<1>2. CASE Submit
  BY <1>0, <1>2 DEF Submit, ClientsKnown
<1>3. ASSUME NEW p \in Queries, QueryControlLeaves(p)
      PROVE  UNCHANGED wproc /\ \A q \in Queries : qc[q] = "gone" => qc'[q] = "gone"
  BY <1>0, <1>3 DEF QueryControlLeaves
<1>4. CASE UNCHANGED <<wproc, qc>>
  BY <1>4
<1> QED
  BY <1>1, <1>2, <1>3, <1>4, SchedLeaves
     DEF Next, CoreNext, Confirm, ConfirmFails, HandlerStep,
         HandleEndOfQuery, HandlerSendResult, HandlerFreeWorker, HandlerApplyAck,
         HandlerRemoveSession, HandleEvictAck, HandlerAckWorker, HandlerEnds,
         HandlerEndsAtPeek, Watchdog, EvictDeadline, MonitorStep, MonitorPick, MonitorCheck,
         MonitorFindQuery, MonitorRemoveWorker, MonitorSendError,
         MonitorCloseSession, clientVars, vars

LEMMA CalmBefore ==
  ASSUME OneFirstVersion, Known, FirstVersions, AcceptedOnce, [Next]_vars, Calm'
  PROVE  Calm
<1>1. ASSUME NEW q \in SubmittedIds PROVE session[q].version \in UninitVersions
  <2>1. session'[q].version \in UninitVersions
    BY VersionsMove DEF Calm
  <2>2. session[q].version \in Nat
    <3>1. session \in [Queries -> Session] /\ q \in Queries
      BY MasterAssumption
         DEF Known, TypeInv, CoreTypeInv, CoreTypeOK, SessionsTypeOK, SubmittedIds, Queries
    <3> QED BY <3>1 DEF Session, Versions
  <2>3. session'[q].version # session[q].version + 1
    BY <2>1, <2>2, MasterAssumption DEF FirstVersions
  <2> QED BY <2>1, <2>3, VersionsMove
<1>2. /\ \A w \in Workers : wproc[w].state # "crashed"
      /\ \A q \in Queries : qc[q] # "gone"
  BY GoneForGood DEF Calm
<1> QED BY <1>1, <1>2 DEF Calm

LEMMA CalmStutters == CalmInv /\ UNCHANGED vars => CalmInv'
BY DEF vars, sessVars, workerVars, netVars, clientVars, CalmInv, CalmWorkers, CalmWorker,
   Leaving, ActiveOn, FreeWorker, BusyWorker, InCharge, NothingSent, Sending, Listening,
   Stage, Starting, OnItsWay, Executed, Ignored, Reported, Closing, Ended, Untold,
   Registered, CalmSched, Ready, CalmSessions, SubmittedIds, CalmMonitor

LEMMA CalmStep ==
  ASSUME CalmKnown, Calm', ~SchedEvictSession, [Next]_vars
  PROVE  CalmInv'
<1>1. CASE CoreNext
  <2>1. \A w \in Workers : ~WorkerCrash(w)
    <3> SUFFICES ASSUME NEW w \in Workers, WorkerCrash(w) PROVE FALSE
      OBVIOUS
    <3>1. wproc \in [Workers -> WorkerProc] /\ wproc'[w].state # "crashed"
      BY DEF CalmKnown, Known, Calm, TypeInv, CoreTypeInv, CoreTypeOK, ProcessesTypeOK
    <3> QED BY <3>1 DEF WorkerCrash
  <2> QED BY <1>1, <2>1, ClientsCalm, HandlersCalm, WorkersCalm, MonitorCalm DEF CoreNext
<1>2. CASE SchedStep \/ Age
  BY <1>2, SchedCalm
<1>3. CASE UNCHANGED vars
  BY <1>3, CalmStutters DEF CalmKnown
<1> QED BY <1>1, <1>2, <1>3 DEF Next

LEMMA CalmInit == Init => CalmInv /\ FirstVersions
<1> SUFFICES ASSUME Init PROVE CalmInv /\ FirstVersions
  OBVIOUS
<1>1. SubmittedIds = {} /\ sched.at = "idle"
  BY DEF Init, CoreInit, SubmittedIds, Idle
<1>2. ASSUME NEW w \in Workers PROVE CalmWorker(w)
  <2>1. /\ ActiveOn(w) = {} /\ Leaving(w) = {} /\ InCharge(w) = {} /\ ~Registered(w)
        /\ handler[w].at = "accept" /\ wproc[w].state = "off" /\ ~winfo[w].is_busy
        /\ NothingSent(w) /\ ~Sending(w)
    BY <1>1 DEF Init, CoreInit, ActiveOn, Leaving, InCharge, Registered, NothingSent, Sending,
                IdleWorker
  <2> QED BY <2>1 DEF CalmWorker, FreeWorker
<1>3. CalmSched /\ CalmMonitor
  BY <1>1 DEF Init, CoreInit, CalmSched, CalmMonitor
<1>4. CalmSessions /\ FirstVersions
  BY <1>1 DEF Init, CoreInit, CalmSessions, Ready, FirstVersions
<1> QED BY <1>2, <1>3, <1>4 DEF CalmInv, CalmWorkers

\* Until the first trouble, in any configuration.
LEMMA CalmInvariant ==
  ASSUME OneFirstVersion PROVE Spec => [](Calm => CalmInv)
<1> DEFINE I == FirstVersions /\ (Calm => CalmInv)
           K == Known /\ ErrorInv
<1>1. Init => I
  BY CalmInit
<1>2. K /\ I /\ [Next]_vars => I'
  <2> SUFFICES ASSUME K, I, [Next]_vars PROVE I'
    OBVIOUS
  <2>0. AcceptedOnce
    BY DEF ErrorInv
  <2>1. FirstVersions'
    BY FirstVersionsStay
  <2>2. ASSUME Calm' PROVE CalmInv'
    <3>1. Calm /\ CalmKnown
      BY <2>0, <2>2, CalmBefore DEF CalmKnown
    <3>2. ~SchedEvictSession
      <4> SUFFICES ASSUME SchedEvictSession PROVE FALSE
        OBVIOUS
      <4>1. PICK v \in SubmittedIds : v = sched.victim
        BY DEF Known, VictimInv, SchedEvictSession
      <4>2. session \in [Queries -> Session] /\ v \in Queries
        BY MasterAssumption
           DEF Known, TypeInv, CoreTypeInv, CoreTypeOK, SessionsTypeOK, SubmittedIds, Queries
      <4>3. session'[v].version = session[v].version + 1 /\ session[v].version \in Nat
        BY <4>1, <4>2 DEF SchedEvictSession, Session, Versions
      <4>4. session[v].version \in UninitVersions /\ session'[v].version \in UninitVersions
        BY <2>2, <3>1, <4>1, VersionsMove DEF Calm
      <4> QED BY <4>3, <4>4 DEF OneFirstVersion
    <3> QED BY <2>2, <3>1, <3>2, CalmStep
  <2> QED BY <2>1, <2>2
<1>3. TypeInv /\ DropInv /\ VictimInv /\ ErrorInv => K
  BY DEF Known
<1>4. I => (Calm => CalmInv)
  OBVIOUS
<1> HIDE DEF I, K
<1> QED BY <1>1, <1>2, <1>3, <1>4, TypeInvariant, DropInvariant, VictimInvariant,
           ErrorInvariant, PTL DEF Spec

\* What a calm state means.
LEMMA CalmMeans ==
  ASSUME CalmInv
  PROVE  RunsEachInstructionOnce /\ IdleMeansFree /\ NoDanglingPointer
<1>1. RunsEachInstructionOnce
  <2> SUFFICES ASSUME NEW w \in Workers, wproc[w].state = "running"
               PROVE  /\ wproc[w].pc = reached[wproc[w].query]
                      /\ \A x \in Workers \ {w} :
                           wproc[x].state = "running" => wproc[x].query # wproc[w].query
    BY DEF RunsEachInstructionOnce
  <2>1. PICK q \in Queries : q = wproc[w].query /\ Executed(w, q) /\ q \in ActiveOn(w)
    BY ExecutesOwn
  <2>2. wproc[w].pc = reached[q]
    BY <2>1 DEF Executed
  <2>3. ASSUME NEW x \in Workers \ {w}, wproc[x].state = "running" PROVE wproc[x].query # q
    <3>1. wproc[x].query \in ActiveOn(x)
      BY <2>3, ExecutesOwn
    <3> QED BY <2>1, <3>1 DEF ActiveOn
  <2> QED BY <2>1, <2>2, <2>3
<1>2. IdleMeansFree
  BY DEF IdleMeansFree, CalmInv, CalmWorkers, CalmWorker, FreeWorker, BusyWorker, InCharge,
         Leaving
<1>3. ASSUME NEW w \in Workers,
             handler[w].at \in {"send", "free_worker", "remove_session", "apply_ack"}
      PROVE  handler[w].query \in query_sessions
  <2>1. CASE handler[w].at \in {"send", "free_worker"}
    BY <2>1, ClosingWith DEF ActiveOn
  <2>2. CASE handler[w].at = "remove_session"
    BY <2>2 DEF CalmInv, CalmWorkers, CalmWorker, Leaving, ActiveOn
  <2>3. handler[w].at # "apply_ack"
    BY DEF CalmInv, CalmWorkers, CalmWorker, FreeWorker, BusyWorker, Stage, Starting,
           OnItsWay, Executed, Ignored, Reported, Closing, Listening
  <2> QED BY <1>3, <2>1, <2>2, <2>3
<1>4. NoDanglingPointer
  BY <1>3 DEF NoDanglingPointer, CalmInv, CalmMonitor
<1> QED BY <1>1, <1>2, <1>4

LEMMA CalmSendsListed ==
  ASSUME CalmInv, sched.at \in {"choose_victim", "send_path"}
  PROVE  sched.query \in query_sessions
<1>1. CASE sched.at = "choose_victim"
  BY <1>1 DEF CalmInv, CalmSched, Ready
<1>2. CASE sched.at = "send_path"
  <2>1. PICK w \in Workers : w = sched.worker /\ Sending(w)
    BY <1>2 DEF CalmInv, CalmSched, Sending
  <2>2. PICK q \in Queries : InCharge(w) = {q} /\ Starting(w, q)
    BY <2>1 DEF CalmInv, CalmWorkers, CalmWorker, FreeWorker, BusyWorker, Stage, OnItsWay,
                Executed, Ignored, Reported, Closing
  <2> QED BY <2>2 DEF Starting, InCharge, ActiveOn
<1> QED BY <1>1, <1>2

\* As long as no query was evicted, no Worker crashed and no Query Control left,
\* whatever the priorities: every instruction is executed once, by one Worker, a
\* Worker marked idle is free, and no thread uses a session another one freed.
THEOREM OrderlyUntilTrouble ==
  ASSUME OneFirstVersion
  PROVE  Spec => [](Calm => RunsEachInstructionOnce /\ IdleMeansFree /\ NoDanglingPointer)
BY CalmInvariant, CalmMeans, PTL

\* A Worker's process ends on a message it does not expect only after an eviction,
\* another Worker's crash or the departure of a Query Control; versions that malloc
\* left all different could hide the eviction, so they are all the same here.
THEOREM StopsAfterTrouble ==
  ASSUME OneFirstVersion PROVE Spec => []StopsOnlyAfterTrouble
<1>1. (Calm => CalmInv) => StopsOnlyAfterTrouble
  <2> SUFFICES ASSUME Calm => CalmInv, NEW w \in Workers, wproc[w].state = "stopped"
               PROVE  \/ \E q \in SubmittedIds : session[q].version \notin UninitVersions
                      \/ \E x \in Workers \ {w} : wproc[x].state = "crashed"
                      \/ \E q \in Queries : qc[q] = "gone"
    BY DEF StopsOnlyAfterTrouble, SubmittedIds
  <2>1. ~Calm
    BY NobodyEnded
  <2> QED BY <2>1 DEF Calm
<1> QED BY <1>1, CalmInvariant, PTL

-----------------------------------------------------------------------------
(***************************************************************************)
(* One priority, no aging, no crash and no departure                       *)
(***************************************************************************)
Undisturbed ==
  /\ ~Aging /\ \A p, r \in Priorities : p = r
  /\ "worker_crash" \notin Faults /\ "qc_leaves" \notin Faults
RanksInv == Calm /\ \A q \in SubmittedIds : session[q].priority \in Priorities

LEMMA NobodyIsWorse ==
  ASSUME Undisturbed, VictimInv, RanksInv PROVE sched.at # "evict"
<1> SUFFICES ASSUME sched.at = "evict" PROVE FALSE
  OBVIOUS
<1>1. PICK q \in SubmittedIds, v \in SubmittedIds : session[v].priority > session[q].priority
  BY DEF VictimInv
<1>2. session[q].priority = session[v].priority /\ session[q].priority \in Nat
  BY MasterAssumption DEF RanksInv, Undisturbed
<1> QED BY <1>1, <1>2

LEMMA RanksStay ==
  ASSUME Undisturbed, Known, RanksInv, [Next]_vars PROVE RanksInv'
<1>0. /\ session \in [Queries -> Session] /\ SubmittedIds \subseteq Queries
      /\ wproc \in [Workers -> WorkerProc] /\ qc \in [Queries -> {"none", "open", "gone"}]
      /\ TypeInv /\ VictimInv /\ Calm
  BY MasterAssumption
     DEF Known, RanksInv, TypeInv, CoreTypeInv, CoreTypeOK, SessionsTypeOK, ProcessesTypeOK,
         ClientsTypeOK, SubmittedIds, Queries
<1>1. ASSUME NEW q \in SubmittedIds' PROVE session'[q].version \in UninitVersions
  <2>1. ~SchedEvictSession
    BY <1>0, NobodyIsWorse DEF SchedEvictSession
  <2> QED BY <1>0, <2>1, VersionsMove, NewVersion DEF Calm
<1>2. ASSUME NEW q \in SubmittedIds' PROVE session'[q].priority \in Priorities
  <2>1. CASE q \notin SubmittedIds
    BY <2>1, NewVersion
  <2>2. CASE q \in SubmittedIds
    <3>1. session'[q].priority = session[q].priority
      <4>1. CASE CoreNext
        BY <1>0, <2>2, <4>1, CoreKeepsRanks DEF TypeInv
      <4>2. CASE SchedEvictSession
        BY <1>0, <2>2, <4>2 DEF SchedEvictSession, Session
      <4>3. CASE SchedAssign
        BY <1>0, <2>2, <4>3 DEF SchedAssign, Session
      <4>4. CASE SchedRevert
        BY <1>0, <2>2, <4>4 DEF SchedRevert, Session
      <4>5. CASE UNCHANGED session
        BY <4>5
      <4>6. ~Age
        BY DEF Undisturbed, Age
      <4> QED BY <4>1, <4>2, <4>3, <4>4, <4>5, <4>6
              DEF Next, SchedStep, SchedSnapshot, SchedChooseVictim, SchedMarkAwaiting,
                  SchedSendEvict, SchedEvictFailed, SchedSearch, SchedSendPath, sessVars, vars
    <3> QED BY <2>2, <3>1 DEF RanksInv
  <2> QED BY <2>1, <2>2
<1>3. \A w \in Workers : wproc'[w].state # "crashed"
  <2>1. ASSUME NEW u \in Workers,
               Register(u) \/ WorkerReceive(u) \/ WorkerYields(u) \/ WorkerStep(u)
        PROVE  \A w \in Workers : wproc'[w].state # "crashed"
    <3>1. \A w \in Workers \ {u} : wproc'[w] = wproc[w]
      BY <1>0, <2>1 DEF Register, WorkerReceive, WorkerYields, WorkerStep
    <3>2. wproc'[u].state # "crashed"
      <4>1. CASE Register(u)
        BY <1>0, <4>1 DEF Register, WorkerProc
      <4>2. CASE WorkerReceive(u)
        BY <1>0, <4>2 DEF WorkerReceive, Calm
      <4>3. CASE WorkerYields(u)
        BY <1>0, <4>3 DEF WorkerYields
      <4>4. CASE WorkerStep(u)
        BY <1>0, <4>4 DEF WorkerStep, WorkerProc
      <4> QED BY <2>1, <4>1, <4>2, <4>3, <4>4
    <3> QED BY <1>0, <3>1, <3>2 DEF Calm
  <2>2. \A u \in Workers : ~WorkerCrash(u)
    BY DEF WorkerCrash, Undisturbed
  <2>3. CASE UNCHANGED wproc
    BY <1>0, <2>3 DEF Calm
  <2> QED
    BY <2>1, <2>2, <2>3, SchedLeaves
       DEF Next, CoreNext, Submit, Confirm, ConfirmFails, QueryControlLeaves, HandlerStep,
           HandleEndOfQuery, HandlerSendResult, HandlerFreeWorker, HandlerApplyAck,
           HandlerRemoveSession, HandleEvictAck, HandlerAckWorker, HandlerEnds,
           HandlerEndsAtPeek, Watchdog, EvictDeadline, MonitorStep, MonitorPick, MonitorCheck,
           MonitorFindQuery, MonitorRemoveWorker, MonitorSendError,
           MonitorCloseSession, vars
<1>4. \A q \in Queries : qc'[q] # "gone"
  <2>1. CASE Submit
    BY <1>0, <2>1 DEF Submit, Calm
  <2>2. \A q \in Queries : ~QueryControlLeaves(q)
    BY DEF QueryControlLeaves, Undisturbed
  <2>3. CASE UNCHANGED qc
    BY <1>0, <2>3 DEF Calm
  <2> QED
    BY <2>1, <2>2, <2>3, SchedLeaves
       DEF Next, CoreNext, Register, Confirm, ConfirmFails, HandlerStep,
           HandleEndOfQuery, HandlerSendResult, HandlerFreeWorker, HandlerApplyAck,
           HandlerRemoveSession, HandleEvictAck, HandlerAckWorker, HandlerEnds,
           HandlerEndsAtPeek, Watchdog, EvictDeadline, WorkerReceive, WorkerYields,
           WorkerStep, WorkerCrash, MonitorStep, MonitorPick, MonitorCheck,
           MonitorFindQuery, MonitorRemoveWorker, MonitorSendError,
           MonitorCloseSession, clientVars, vars
<1> QED BY <1>1, <1>2, <1>3, <1>4 DEF RanksInv, Calm

\* Nothing goes wrong, so every state is a calm one.
UndisturbedInv == RanksInv /\ CalmInv /\ sched.at # "evict"

LEMMA UndisturbedInvariant ==
  ASSUME Undisturbed PROVE Spec => []UndisturbedInv
<1> DEFINE I == RanksInv /\ CalmInv
<1>1. Init => I
  <2>1. Init => SubmittedIds = {}
    BY DEF Init, CoreInit, SubmittedIds
  <2>2. Init => RanksInv
    BY <2>1 DEF Init, CoreInit, RanksInv, Calm
  <2> QED BY <2>2, CalmInit
<1>2. Known /\ I /\ [Next]_vars => I'
  <2> SUFFICES ASSUME Known, I, [Next]_vars PROVE I'
    OBVIOUS
  <2>1. RanksInv'
    BY RanksStay
  <2>2. ~SchedEvictSession
    BY NobodyIsWorse DEF SchedEvictSession, Known
  <2> QED BY <2>1, <2>2, CalmStep DEF CalmKnown, RanksInv
<1>3. TypeInv /\ DropInv /\ VictimInv => Known
  BY DEF Known
<1>4. Known /\ I => UndisturbedInv
  BY NobodyIsWorse DEF Known, UndisturbedInv
<1> HIDE DEF I
<1> QED BY <1>1, <1>2, <1>3, <1>4, TypeInvariant, DropInvariant, VictimInvariant, PTL DEF Spec

\* No instruction is executed twice, nor by two Workers.
THEOREM RunsOnce == ASSUME Undisturbed PROVE Spec => []RunsEachInstructionOnce
<1>1. UndisturbedInv => RunsEachInstructionOnce
  BY CalmMeans DEF UndisturbedInv
<1> QED BY <1>1, UndisturbedInvariant, PTL

\* The scheduler never gives a second query to a Worker that has one: is_busy is
\* right, although the sessions and the Workers are locked one after the other.
THEOREM IdleIsFree == ASSUME Undisturbed PROVE Spec => []IdleMeansFree
<1>1. UndisturbedInv => IdleMeansFree
  BY CalmMeans DEF UndisturbedInv
<1> QED BY <1>1, UndisturbedInvariant, PTL

\* The handlers and the monitor use no session that another thread has freed.
THEOREM PointersStayValid == ASSUME Undisturbed PROVE Spec => []NoDanglingPointer
<1>1. UndisturbedInv => NoDanglingPointer
  BY CalmMeans DEF UndisturbedInv
<1> QED BY <1>1, UndisturbedInvariant, PTL

\* Nor does the scheduler.
THEOREM SchedulerPointersStayValid ==
  ASSUME Undisturbed PROVE Spec => []SchedulerPointersAlive
<1>1. UndisturbedInv => SchedulerPointersAlive
  BY CalmSendsListed DEF UndisturbedInv, SchedulerPointersAlive, CalmInv, CalmSched
<1> QED BY <1>1, UndisturbedInvariant, PTL
=============================================================================
