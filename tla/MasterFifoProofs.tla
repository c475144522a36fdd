-------------------------- MODULE MasterFifoProofs --------------------------
(***************************************************************************)
(* Theorems about the Master with the FIFO scheduler, for any number of    *)
(* queries and Workers and any faults.                                     *)
(***************************************************************************)
EXTENDS MasterFifo, MasterCoreProofs

FifoState ==
  [at: {"idle", "take_worker", "send_path", "activate", "release"},
   query: Queries \cup {NoQuery}, worker: Workers \cup {NoWorker}]

\* The pointer the scheduler keeps designates a session until it is back at the
\* start.
PointerKnown == sched.at # "idle" => sched.query \in Queries

TypeInv == CoreTypeInv /\ TypeOK /\ PointerKnown

\* The scheduler leaves these alone.
LEMMA SchedLeaves ==
  SchedStep =>
    UNCHANGED <<next_query_id, query_sessions, queries_by_id, workers_list,
                worker_count, to_master, handler, monitor, wproc, qc, confirming,
                results, reached>>
BY DEF SchedStep, SchedFind, SchedTakeWorker, SchedSendPath, SchedActivate,
   SchedRelease, coreExceptSched, sessVars, workerVars, netVars, clientVars

-----------------------------------------------------------------------------
(***************************************************************************)
(* Types                                                                   *)
(***************************************************************************)
\* A scheduler step changes the types of four variables at most.
LEMMA SchedTypesSuffice ==
  ASSUME TypeInv, SchedStep,
         session' \in [Queries -> Session],
         winfo' \in [Workers -> WorkerInfo],
         to_worker' \in [Workers -> Seq(Msg)],
         sched' \in FifoState, PointerKnown'
  PROVE  TypeInv'
<1>1. /\ SessionsTypeOK' /\ WorkersTypeOK' /\ NetTypeOK'
  BY SchedLeaves DEF TypeInv, CoreTypeInv, CoreTypeOK, SessionsTypeOK, WorkersTypeOK,
     NetTypeOK
<1>2. ThreadsTypeOK' /\ SendsAnEnd' /\ ProcessesTypeOK' /\ ClientsTypeOK'
  BY SchedLeaves, Frame DEF TypeInv, CoreTypeInv, CoreTypeOK, clientVars
<1> QED BY <1>1, <1>2 DEF TypeInv, CoreTypeInv, CoreTypeOK, TypeOK, FifoState

LEMMA SchedTypes == TypeInv /\ SchedStep => TypeInv'
<1> SUFFICES ASSUME TypeInv, SchedStep PROVE TypeInv'
  OBVIOUS
<1>0. /\ session \in [Queries -> Session] /\ query_sessions \subseteq Queries
      /\ winfo \in [Workers -> WorkerInfo]
      /\ to_worker \in [Workers -> Seq(Msg)]
      /\ sched \in FifoState /\ PointerKnown
      /\ Idle \in FifoState /\ Idle.at = "idle"
  BY DEF TypeInv, CoreTypeInv, CoreTypeOK, TypeOK, SessionsTypeOK, WorkersTypeOK,
     NetTypeOK, FifoState, Idle
<1>1. CASE SchedFind
  <2>1. sched' \in FifoState /\ PointerKnown'
    BY <1>0, <1>1 DEF SchedFind, FifoState, Idle, PointerKnown
  <2> QED BY <1>0, <1>1, <2>1, SchedTypesSuffice
          DEF SchedStep, SchedFind, sessVars, workerVars, netVars
<1>2. CASE SchedTakeWorker
  <2>1. winfo' \in [Workers -> WorkerInfo]
    <3>1. ASSUME NEW w PROVE [winfo EXCEPT ![w].is_busy = TRUE] \in [Workers -> WorkerInfo]
      BY <1>0, WorkerUpdates
    <3>2. UNCHANGED winfo \/ \E w : winfo' = [winfo EXCEPT ![w].is_busy = TRUE]
      BY <1>2 DEF SchedTakeWorker
    <3> QED BY <1>0, <3>1, <3>2
  <2>2. sched' \in FifoState /\ PointerKnown'
    <3>1. ASSUME NEW w \in Workers, sched' = [sched EXCEPT !.at = "send_path", !.worker = w]
          PROVE  sched' \in FifoState /\ PointerKnown'
      BY <1>0, <1>2, <3>1 DEF SchedTakeWorker, FifoState, PointerKnown
    <3>2. CASE sched' = Idle
      BY <1>0, <3>2 DEF PointerKnown
    <3> QED BY <1>2, <3>1, <3>2 DEF SchedTakeWorker
  <2> QED BY <1>0, <1>2, <2>1, <2>2, SchedTypesSuffice
          DEF SchedStep, SchedTakeWorker, sessVars, netVars
<1>3. CASE SchedSendPath
  <2> DEFINE m == Path(sched.query, session[sched.query].pc)
  <2>1. m \in Msg
    BY <1>0, <1>3, Messages DEF SchedSendPath, PointerKnown, Session
  <2>2. to_worker' \in [Workers -> Seq(Msg)]
    <3>1. UNCHANGED to_worker \/ SendToWorker(sched.worker, m)
      BY <1>3 DEF SchedSendPath
    <3> HIDE DEF m
    <3> QED BY <1>0, <2>1, <3>1, SendTypes
  <2>3. sched' \in FifoState /\ PointerKnown'
    BY <1>0, <1>3 DEF SchedSendPath, FifoState, PointerKnown
  <2> QED BY <1>0, <1>3, <2>2, <2>3, SchedTypesSuffice
          DEF SchedStep, SchedSendPath, sessVars, workerVars
<1>4. CASE SchedActivate
  <2>1. session' \in [Queries -> Session]
    <3>1. /\ session[sched.query] \in Session
          /\ sched.worker \in Workers \cup {NoWorker}
      BY <1>0, <1>4 DEF SchedActivate, PointerKnown, FifoState
    <3>2. [session[sched.query] EXCEPT !.is_active = TRUE, !.worker_socket = sched.worker]
            \in Session
      BY <3>1 DEF Session
    <3>3. session' = [session EXCEPT ![sched.query] =
            [session[sched.query] EXCEPT !.is_active = TRUE, !.worker_socket = sched.worker]]
      BY <1>4 DEF SchedActivate
    <3> QED BY <1>0, <3>2, <3>3
  <2>2. sched' \in FifoState /\ PointerKnown'
    BY <1>0, <1>4 DEF SchedActivate, PointerKnown
  <2> QED BY <1>0, <1>4, <2>1, <2>2, SchedTypesSuffice
          DEF SchedStep, SchedActivate, workerVars, netVars
<1>5. CASE SchedRelease
  <2>1. winfo' \in [Workers -> WorkerInfo]
    BY <1>0, <1>5, WorkerUpdates DEF SchedRelease
  <2>2. sched' \in FifoState /\ PointerKnown'
    BY <1>0, <1>5 DEF SchedRelease, PointerKnown
  <2> QED BY <1>0, <1>5, <2>1, <2>2, SchedTypesSuffice
          DEF SchedStep, SchedRelease, sessVars, netVars
<1> QED BY <1>1, <1>2, <1>3, <1>4, <1>5 DEF SchedStep

\* The types are an inductive invariant.
LEMMA TypeInvariant == Spec => []TypeInv
<1>1. Init => TypeInv
  <2> SUFFICES ASSUME Init PROVE TypeInv
    OBVIOUS
  <2>1. CoreTypeInv
    BY CoreTypeInit DEF Init
  <2>2. sched \in FifoState /\ PointerKnown
    BY DEF Init, Idle, FifoState, PointerKnown
  <2> QED BY <2>1, <2>2 DEF TypeInv, TypeOK, CoreTypeInv, FifoState
<1>2. TypeInv /\ [Next]_vars => TypeInv'
  <2> SUFFICES ASSUME TypeInv, [Next]_vars PROVE TypeInv'
    OBVIOUS
  <2>1. CASE CoreNext
    <3>1. CoreTypeInv' /\ UNCHANGED sched
      BY <2>1, CoreTypeStep, CoreLeavesSched DEF TypeInv
    <3> QED BY <3>1 DEF TypeInv, TypeOK, CoreTypeInv, PointerKnown
  <2>2. CASE SchedStep
    BY <2>2, SchedTypes
  <2>3. CASE UNCHANGED vars
    <3>1. CoreTypeInv'
      BY <2>3, Frame DEF vars, TypeInv, CoreTypeInv, CoreTypeOK
    <3> QED BY <2>3, <3>1 DEF vars, TypeInv, TypeOK, CoreTypeInv, PointerKnown
  <2> QED BY <2>1, <2>2, <2>3 DEF Next
<1> QED BY <1>1, <1>2, PTL DEF Spec

\* Under the FIFO scheduler too every reachable state has the types of the C
\* structures it models.
THEOREM TypeCorrect == Spec => []TypeOK
<1>1. TypeInv => TypeOK
  BY DEF TypeInv
<1> QED BY <1>1, TypeInvariant, PTL

-----------------------------------------------------------------------------
(***************************************************************************)
(* Sessions                                                                *)
(***************************************************************************)
\* Whoever is about to unlist a session has told its Query Control.
LEMMA DropInvariant == Spec => []DropInv
<1>1. Init => DropInv
  BY DropInit DEF Init
<1>2. TypeInv /\ DropInv /\ [Next]_vars => DropInv'
  <2> SUFFICES ASSUME TypeInv, DropInv, [Next]_vars PROVE DropInv'
    OBVIOUS
  <2>1. CASE CoreNext
    BY <2>1, DropStep DEF TypeInv
  <2>2. CASE SchedStep
    BY <2>2, SchedLeaves, DropStutters
  <2>3. CASE UNCHANGED vars
    BY <2>3, DropStutters DEF vars, sessVars, clientVars
  <2> QED BY <2>1, <2>2, <2>3 DEF Next
<1> QED BY <1>1, <1>2, TypeInvariant, PTL DEF Spec

\* A session the FIFO scheduler's Master takes off the list got its result, or
\* its Query Control left, whoever unlisted it.
THEOREM DropsNoSession == Spec => []NoSilentDrop
<1>1. DropInv => NoSilentDrop
  BY DEF DropInv
<1> QED BY <1>1, DropInvariant, PTL

-----------------------------------------------------------------------------
(***************************************************************************)
(* Order                                                                   *)
(***************************************************************************)
\* The strengthening of DispatchesInOrder: from its choice to its PATH, the
\* chosen query comes before every READY one, whatever is submitted, answered
\* or put back meanwhile.  A new submission has a later id than it.
OrderInv ==
  /\ query_sessions \subseteq SubmittedIds
  /\ sched.at \in {"take_worker", "send_path"} =>
       /\ sched.query \in SubmittedIds
       /\ \A q \in query_sessions : Ready(q) => sched.query <= q

\* A query that is READY after a step of the core was READY before it, or has
\* just been submitted.
LEMMA CoreReadies ==
  ASSUME CoreTypeInv, CoreNext, query_sessions \subseteq SubmittedIds,
         NEW q \in query_sessions', Ready(q)'
  PROVE  Ready(q) \/ q = next_query_id
<1>1. CASE q \in SubmittedIds
  <2>1. q \in query_sessions
    <3>1. CASE query_sessions' \subseteq query_sessions
      BY <3>1
    <3>2. CASE Submit
      BY <1>1, <3>2 DEF Submit, SubmittedIds, CoreTypeInv, CoreTypeOK, SessionsTypeOK
    <3> QED
      BY <3>1, <3>2
         DEF CoreNext, Confirm, ConfirmFails, QueryControlLeaves, Register, HandlerStep,
             HandleEndOfQuery, HandlerSendResult, HandlerFreeWorker, HandlerApplyAck,
             HandlerRemoveSession, HandleEvictAck, HandlerAckWorker, HandlerEnds,
             HandlerEndsAtPeek, Watchdog, EvictDeadline, WorkerReceive, WorkerYields,
             WorkerStep, WorkerCrash, MonitorStep, MonitorPick, MonitorCheck,
             MonitorFindQuery, MonitorRemoveWorker, MonitorSendError,
             MonitorCloseSession, sessVars
  <2> QED BY <1>1, <2>1, CoreKeepsRanks DEF Ready
<1>2. CASE q \notin SubmittedIds
  <2>1. q \in SubmittedIds' /\ next_query_id \in Nat
    BY CoreListsSubmitted DEF CoreTypeInv, CoreTypeOK, SessionsTypeOK
  <2>2. next_query_id' \in {next_query_id, next_query_id + 1}
    BY DEF CoreNext, Submit, Confirm, ConfirmFails, QueryControlLeaves, Register,
           HandlerStep, HandleEndOfQuery, HandlerSendResult, HandlerFreeWorker,
           HandlerApplyAck, HandlerRemoveSession, HandleEvictAck, HandlerAckWorker,
           HandlerEnds, HandlerEndsAtPeek, Watchdog, EvictDeadline, WorkerReceive,
           WorkerYields, WorkerStep, WorkerCrash, MonitorStep, MonitorPick,
           MonitorCheck, MonitorFindQuery, MonitorRemoveWorker, MonitorSendError,
           MonitorCloseSession, sessVars
  <2>3. q \in 0 .. next_query_id' - 1 /\ q \notin 0 .. next_query_id - 1
    BY <1>2, <2>1 DEF SubmittedIds
  <2>4. CASE next_query_id' = next_query_id
    BY <2>3, <2>4
  <2>5. ASSUME NEW n, n = next_query_id', n = next_query_id + 1
        PROVE  q = next_query_id
    BY <2>1, <2>3, <2>5
  <2> QED BY <2>2, <2>4, <2>5
<1> QED BY <1>1, <1>2

LEMMA OrderInvariant == Spec => []OrderInv
<1>1. Init => OrderInv
  BY DEF Init, CoreInit, Idle, OrderInv
<1>2. TypeInv /\ OrderInv /\ [Next]_vars => OrderInv'
  <2> SUFFICES ASSUME TypeInv, OrderInv, [Next]_vars PROVE OrderInv'
    OBVIOUS
  <2>0. /\ next_query_id \in Int /\ sched \in FifoState
        /\ query_sessions \subseteq Queries /\ session \in [Queries -> Session]
    BY DEF TypeInv, CoreTypeInv, CoreTypeOK, SessionsTypeOK, TypeOK, FifoState
  <2>1. CASE CoreNext
    <3>1. /\ query_sessions' \subseteq SubmittedIds'
          /\ SubmittedIds \subseteq SubmittedIds' /\ UNCHANGED sched
      BY <2>1, CoreLeavesSched, CoreListsSubmitted DEF TypeInv, OrderInv
    <3>2. ASSUME sched.at \in {"take_worker", "send_path"},
                 NEW q \in query_sessions', Ready(q)'
          PROVE  sched.query <= q
      <4>1. Ready(q) \/ q = next_query_id
        BY <2>1, <3>2, CoreReadies DEF TypeInv, OrderInv
      <4>2. CASE Ready(q)
        BY <3>2, <4>2 DEF Ready, OrderInv
      <4>3. CASE q = next_query_id
        BY <2>0, <3>2, <4>3 DEF SubmittedIds, OrderInv
      <4> QED BY <4>1, <4>2, <4>3
    <3> QED BY <3>1, <3>2 DEF OrderInv
  <2>2. ASSUME UNCHANGED <<next_query_id, query_sessions>>
        PROVE  SubmittedIds' = SubmittedIds /\ query_sessions' \subseteq SubmittedIds'
    BY <2>2 DEF SubmittedIds, OrderInv
  <2>3. CASE SchedFind
    <3>1. PICK q \in query_sessions :
            FirstReady(q) /\ sched' = [Idle EXCEPT !.at = "take_worker", !.query = q]
      BY <2>3 DEF SchedFind
    <3>2. sched'.query = q
      BY <3>1 DEF Idle
    <3>3. UNCHANGED <<next_query_id, query_sessions, session>>
      BY <2>3 DEF SchedFind, sessVars
    <3> QED BY <2>2, <3>1, <3>2, <3>3 DEF FirstReady, Ready, OrderInv
  <2>4. CASE SchedTakeWorker
    <3>1. UNCHANGED <<next_query_id, query_sessions, session>>
      BY <2>4 DEF SchedTakeWorker, sessVars
    <3>2. sched'.query = sched.query \/ sched'.at = "idle"
      <4>1. ASSUME NEW w, sched' = [sched EXCEPT !.at = "send_path", !.worker = w]
            PROVE  sched'.query = sched.query
        BY <2>0, <4>1 DEF FifoState
      <4>2. CASE sched' = Idle
        BY <4>2 DEF Idle
      <4> QED BY <2>4, <4>1, <4>2 DEF SchedTakeWorker
    <3> QED BY <2>2, <2>4, <3>1, <3>2 DEF SchedTakeWorker, Ready, OrderInv
  <2>5. CASE SchedSendPath \/ SchedActivate \/ SchedRelease
    <3>1. sched'.at \notin {"take_worker", "send_path"}
      BY <2>0, <2>5 DEF SchedSendPath, SchedActivate, SchedRelease, FifoState, Idle
    <3> QED BY <2>2, <2>5, <3>1, SchedLeaves DEF SchedStep, OrderInv
  <2>6. CASE UNCHANGED vars
    BY <2>2, <2>6 DEF vars, sessVars, Ready, OrderInv
  <2> QED BY <2>1, <2>3, <2>4, <2>5, <2>6 DEF Next, SchedStep
<1> QED BY <1>1, <1>2, TypeInvariant, PTL DEF Spec

\* The FIFO scheduler keeps the order of submission, although it looks for a
\* Worker and sends the PATH after it has released the list of sessions.
THEOREM KeepsOrder == Spec => DispatchesInOrder
<1> DEFINE First ==
      SchedSendPath => \A q \in query_sessions : Ready(q) => sched.query <= q
<1>1. OrderInv /\ [Next]_vars => [First]_vars
  BY DEF OrderInv, SchedSendPath
<1> QED BY <1>1, OrderInvariant, PTL DEF Spec, DispatchesInOrder

-----------------------------------------------------------------------------
(***************************************************************************)
(* Copies                                                                  *)
(***************************************************************************)
\* The strengthening of HandedOutOnce: a query with a copy is active for good,
\* or is about to be made so by the scheduler; the one the scheduler is about
\* to hand out is not.
GivenOut(q) ==
  /\ q \in SubmittedIds
  /\ session[q].is_active \/ (sched.at = "activate" /\ sched.query = q)
CopiesInv == \A q \in Queries : OneCopy(q) /\ (NoCopy(q) \/ GivenOut(q))
ChosenIsFree ==
  /\ sched.at \in {"take_worker", "send_path"} =>
       sched.query \in SubmittedIds /\ ~session[sched.query].is_active
  /\ sched.at = "activate" => sched.query \in SubmittedIds
HandInv == CopiesInv /\ ChosenIsFree

\* A scheduler step that sends no PATH and takes no activity back.
LEMMA SameCopies ==
  ASSUME HandInv, UNCHANGED <<to_worker, wproc, next_query_id>>,
         \A q \in Queries : GivenOut(q) => GivenOut(q)'
  PROVE  CopiesInv'
BY DEF HandInv, CopiesInv, OneCopy, NoCopy, Runs, Absent, Single

LEMMA HandInvariant == Spec => []HandInv
<1>1. Init => HandInv
  <2> SUFFICES ASSUME Init PROVE HandInv
    OBVIOUS
  <2>1. \A q \in Queries : NoCopy(q) /\ OneCopy(q)
    BY DEF Init, CoreInit, NoCopy, OneCopy, Runs, Absent, Single
  <2> QED BY <2>1 DEF Init, Idle, HandInv, CopiesInv, ChosenIsFree
<1>2. TypeInv /\ OrderInv /\ HandInv /\ [Next]_vars => HandInv'
  <2> SUFFICES ASSUME TypeInv, OrderInv, HandInv, [Next]_vars PROVE HandInv'
    OBVIOUS
  <2>0. /\ sched \in FifoState /\ session \in [Queries -> Session]
        /\ to_worker \in [Workers -> Seq(Msg)] /\ SubmittedIds \subseteq Queries
        /\ Idle.at = "idle" /\ CoreTypeInv
    BY MasterAssumption
       DEF TypeInv, CoreTypeInv, CoreTypeOK, SessionsTypeOK, NetTypeOK, TypeOK,
           FifoState, Idle, SubmittedIds, Queries
  <2>1. CASE CoreNext
    <3>1. UNCHANGED sched /\ SubmittedIds \subseteq SubmittedIds'
          /\ \A q \in SubmittedIds : session'[q].is_active = session[q].is_active
      BY <2>0, <2>1, CoreLeavesSched, CoreKeepsRanks, CoreListsSubmitted DEF OrderInv
    <3>2. \A q \in Queries : GivenOut(q) => GivenOut(q)'
      BY <3>1 DEF GivenOut
    <3>3. CopiesInv'
      BY <2>0, <2>1, <3>2, CoreCopies DEF HandInv, CopiesInv
    <3>4. ChosenIsFree'
      BY <3>1 DEF HandInv, ChosenIsFree
    <3> QED BY <3>3, <3>4 DEF HandInv
  <2>2. CASE SchedFind
    <3>1. PICK q \in query_sessions :
            FirstReady(q) /\ sched' = [Idle EXCEPT !.at = "take_worker", !.query = q]
      BY <2>2 DEF SchedFind
    <3>2. /\ sched.at = "idle" /\ sched'.at = "take_worker" /\ sched'.query = q
          /\ UNCHANGED <<next_query_id, session, to_worker, wproc>>
      BY <2>2, <3>1 DEF SchedFind, sessVars, netVars, coreExceptSched, Idle
    <3>3. CopiesInv'
      BY <3>2, SameCopies DEF GivenOut, SubmittedIds
    <3>4. ChosenIsFree'
      BY <3>1, <3>2 DEF FirstReady, Ready, ChosenIsFree, OrderInv, SubmittedIds
    <3> QED BY <3>3, <3>4 DEF HandInv
  <2>3. CASE SchedTakeWorker
    <3>1. /\ sched.at = "take_worker"
          /\ UNCHANGED <<next_query_id, session, to_worker, wproc>>
      BY <2>3 DEF SchedTakeWorker, sessVars, netVars, coreExceptSched
    <3>2. (sched'.query = sched.query /\ sched'.at = "send_path") \/ sched'.at = "idle"
      BY <2>0, <2>3 DEF SchedTakeWorker, FifoState
    <3>3. CopiesInv'
      BY <3>1, SameCopies DEF GivenOut, SubmittedIds
    <3>4. ChosenIsFree'
      BY <3>1, <3>2 DEF HandInv, ChosenIsFree, SubmittedIds
    <3> QED BY <3>3, <3>4 DEF HandInv
  <2>4. CASE SchedSendPath
    <3> DEFINE p == sched.query
    <3>1. /\ sched.at = "send_path" /\ p \in SubmittedIds /\ ~session[p].is_active
          /\ sched'.query = sched.query /\ sched'.at \in {"activate", "release"}
          /\ UNCHANGED <<next_query_id, session, wproc>>
      BY <2>0, <2>4
         DEF SchedSendPath, sessVars, coreExceptSched, FifoState, HandInv, ChosenIsFree
    <3>2. ChosenIsFree'
      BY <3>1 DEF ChosenIsFree, SubmittedIds
    <3>3. \A q \in Queries : GivenOut(q) => GivenOut(q)'
      BY <3>1 DEF GivenOut, SubmittedIds
    <3>4. CASE UNCHANGED to_worker
      BY <3>1, <3>2, <3>3, <3>4, SameCopies DEF HandInv
    <3>5. CASE ~UNCHANGED to_worker
      <4> DEFINE m == Path(p, session[p].pc)
      <4>1. /\ Added(to_worker, to_worker', sched.worker, m)
            /\ sched'.at = "activate"
        BY <2>0, <2>4, <3>5 DEF SchedSendPath, SendToWorker, Added, FifoState
      <4>2. sched.worker \in Workers
        BY <2>0, <3>5, <4>1 DEF Added
      <4>3. m \in Msg /\ m.op = "PATH" /\ m.query = p
        BY <2>0, <3>1, Messages DEF Session, Path
      <4> HIDE DEF m
      <4>4. ASSUME NEW q \in Queries PROVE OneCopy(q)' /\ (NoCopy(q)' \/ GivenOut(q)')
        <5>1. CASE q = p
          <6>1. NoCopy(q)
            BY <3>1, <5>1 DEF GivenOut, HandInv, CopiesInv
          <6>2. Single(to_worker', Kind("PATH", q))
            BY <2>0, <4>1, <4>2, <4>3, <6>1, LastComes DEF NoCopy
          <6>3. \A w \in Workers : ~Runs(w, q)'
            BY <3>1, <6>1 DEF NoCopy, Runs
          <6>4. GivenOut(q)'
            BY <3>1, <4>1, <5>1 DEF GivenOut, SubmittedIds
          <6> QED BY <6>2, <6>3, <6>4 DEF OneCopy
        <5>2. CASE q # p
          <6>1. m \notin Kind("PATH", q)
            BY <4>3, <5>2 DEF Kind
          <6>2. /\ Absent(to_worker, Kind("PATH", q)) => Absent(to_worker', Kind("PATH", q))
                /\ Single(to_worker, Kind("PATH", q)) => Single(to_worker', Kind("PATH", q))
            BY <2>0, <4>1, <4>2, <4>3, <6>1, LastComes
          <6>3. \A w \in Workers : Runs(w, q)' => Runs(w, q)
            BY <3>1 DEF Runs
          <6> QED BY <3>3, <6>2, <6>3, FewerCopies DEF HandInv, CopiesInv
        <5> QED BY <5>1, <5>2
      <4> QED BY <3>2, <4>4 DEF HandInv, CopiesInv
    <3> QED BY <3>4, <3>5
  <2>5. CASE SchedActivate
    <3>1. /\ sched.at = "activate" /\ sched'.at = "idle" /\ sched.query \in Queries
          /\ UNCHANGED <<next_query_id, to_worker, wproc>>
      BY <2>0, <2>5
         DEF SchedActivate, netVars, coreExceptSched, HandInv, ChosenIsFree
    <3>2. /\ session'[sched.query].is_active
          /\ \A q \in Queries \ {sched.query} : session'[q] = session[q]
      BY <2>0, <2>5, <3>1 DEF SchedActivate, Session
    <3>3. \A q \in Queries : GivenOut(q) => GivenOut(q)'
      BY <3>1, <3>2 DEF GivenOut, SubmittedIds
    <3> QED BY <3>1, <3>3, SameCopies DEF HandInv, ChosenIsFree
  <2>6. CASE SchedRelease
    <3>1. /\ sched.at = "release" /\ sched'.at = "idle"
          /\ UNCHANGED <<next_query_id, session, to_worker, wproc>>
      BY <2>0, <2>6 DEF SchedRelease, sessVars, netVars, coreExceptSched
    <3>2. CopiesInv'
      BY <3>1, SameCopies DEF GivenOut, SubmittedIds
    <3> QED BY <3>1, <3>2 DEF HandInv, ChosenIsFree
  <2>7. CASE UNCHANGED vars
    <3>1. UNCHANGED <<next_query_id, session, to_worker, wproc, sched>>
      BY <2>7 DEF vars, sessVars, netVars
    <3>2. CopiesInv'
      BY <3>1, SameCopies DEF GivenOut, SubmittedIds
    <3> QED BY <3>1, <3>2 DEF HandInv, ChosenIsFree, SubmittedIds
  <2> QED BY <2>1, <2>2, <2>3, <2>4, <2>5, <2>6, <2>7 DEF Next, SchedStep
<1> QED BY <1>1, <1>2, TypeInvariant, OrderInvariant, PTL DEF Spec

\* A query is handed out once, although its session is marked active only after
\* the PATH was sent and anything may happen in between: there is never a second
\* copy of it, on its way to a Worker or running.
THEOREM HandsOutOnce == Spec => []HandedOutOnce
<1>1. TypeInv /\ HandInv => HandedOutOnce
  <2> SUFFICES ASSUME TypeInv, HandInv, NEW q \in Queries PROVE Copies(q) <= 1
    BY DEF HandedOutOnce
  <2> DEFINE sent == Cardinality(Carrying(to_worker, "PATH", q, 0))
             running == {w \in Workers : Runs(w, q)}
  <2>1. to_worker \in [Workers -> Seq(Msg)]
    BY DEF TypeInv, CoreTypeInv, CoreTypeOK, NetTypeOK
  <2>2. OneCopy(q)
    BY DEF HandInv, CopiesInv
  <2>3. KindAt("PATH", q, 0) \subseteq Kind("PATH", q)
    BY DEF KindAt
  <2>4. /\ Single(to_worker, KindAt("PATH", q, 0))
        /\ Absent(to_worker, Kind("PATH", q)) => Absent(to_worker, KindAt("PATH", q, 0))
    BY <2>2, <2>3, SmallerKind DEF OneCopy
  <2>5. sent \in {0, 1} /\ (Absent(to_worker, Kind("PATH", q)) => sent = 0)
    BY <2>1, <2>4, CarriedOnce
  <2>6. Cardinality(running) \in {0, 1} /\ (running = {} => Cardinality(running) = 0)
    <3>1. \A u, w \in running : u = w
      BY <2>2 DEF OneCopy
    <3> QED BY <3>1, AtMostOne
  <2>7. Absent(to_worker, Kind("PATH", q)) \/ running = {}
    BY <2>2 DEF OneCopy
  <2>8. Copies(q) = sent + Cardinality(running)
    BY DEF Copies, Runs
  <2> HIDE DEF sent, running
  <2> QED BY <2>5, <2>6, <2>7, <2>8
<1> QED BY <1>1, TypeInvariant, HandInvariant, PTL
=============================================================================
