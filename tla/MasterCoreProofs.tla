--------------------------- MODULE MasterCoreProofs ---------------------------
(***************************************************************************)
(* What every step of MasterCore preserves, whichever scheduler runs on    *)
(* top of it.  MasterPriorityProofs and MasterFifoProofs add theirs.       *)
(***************************************************************************)
EXTENDS MasterCore, SequenceTheorems, FiniteSetTheorems, TLAPS

\* The type invariant, strengthened by what HandlerSendResult needs: only the
\* end of a query is sent to a Query Control.
SendsAnEnd ==
  \A w \in Workers :
    handler[w].at = "send" => handler[w].msg.op \in {"FINISHED", "ERROR"}
CoreTypeInv == CoreTypeOK /\ SendsAnEnd

\* The strengthening of NoSkippedInstruction: every program counter kept or on
\* its way, in a session, a PATH, an EVICT_ACK, a handler or a Worker, is at
\* most the number of instructions executed of its query.
TrueMsg ==
  {m \in Msg : m.op \in {"PATH", "EVICT_ACK"} =>
                  m.query \in Queries /\ m.pc <= reached[m.query]}
SessionsBehind == \A q \in Queries : session[q].pc <= reached[q]
ChannelsBehind ==
  \A w \in Workers : to_worker[w] \in Seq(TrueMsg) /\ to_master[w] \in Seq(TrueMsg)
HandlersBehind ==
  \A w \in Workers : handler[w].at = "apply_ack" =>
    handler[w].query \in Queries /\ handler[w].msg.pc <= reached[handler[w].query]
WorkersBehind ==
  \A w \in Workers : wproc[w].state = "running" =>
    wproc[w].query \in Queries /\ wproc[w].pc <= reached[wproc[w].query]
PcInv == SessionsBehind /\ ChannelsBehind /\ HandlersBehind /\ WorkersBehind

\* The strengthening of NoSilentDrop: who is about to unlist a session has told
\* its Query Control, unless it had left.
Told(q) == results[q] # <<>> \/ qc[q] = "gone"
ClientsKnown ==
  /\ \A q \in query_sessions : q < next_query_id /\ qc[q] # "none"
  /\ \A q \in Queries : q >= next_query_id => qc[q] = "none"
HandlersTold ==
  \A w \in Workers :
    /\ handler[w].at = "send" => handler[w].query \in Queries /\ qc[handler[w].query] # "none"
    /\ handler[w].at \in {"free_worker", "remove_session"} =>
         handler[w].query \in Queries /\ Told(handler[w].query)
MonitorTold ==
  /\ monitor.query # NoQuery => qc[monitor.query] # "none"
  /\ monitor.at \in {"send_error", "close_session"} => monitor.query # NoQuery
  /\ monitor.at = "close_session" => Told(monitor.query)
DropInv == NoSilentDrop /\ ClientsKnown /\ HandlersTold /\ MonitorTold

-----------------------------------------------------------------------------
(***************************************************************************)
(* Sequences and messages                                                  *)
(***************************************************************************)
\* Removing one element of a sequence leaves a sequence of the same elements.
LEMMA RemoveOne ==
  ASSUME NEW S, NEW s \in Seq(S), NEW i \in DOMAIN s
  PROVE  SubSeq(s, 1, i - 1) \o SubSeq(s, i + 1, Len(s)) \in Seq(S)
<1>1. i \in 1 .. Len(s) /\ Len(s) \in Nat
  BY LenProperties
<1>2. \A j \in 1 .. Len(s) : s[j] \in S
  BY ElementOfSeq
<1>3. SubSeq(s, 1, i - 1) \in Seq(S)
  BY <1>1, <1>2, SubSeqProperties
<1>4. SubSeq(s, i + 1, Len(s)) \in Seq(S)
  BY <1>1, <1>2, SubSeqProperties
<1> QED BY <1>3, <1>4, ConcatProperties

\* The head of a non-empty sequence is one of its elements, the tail and the
\* sequences made by adding an element are again sequences of them.
LEMMA OneMore ==
  ASSUME NEW S, NEW s \in Seq(S), NEW e \in S
  PROVE  /\ Append(s, e) \in Seq(S)
         /\ s # <<>> => /\ Head(s) \in S
                        /\ Tail(s) \in Seq(S)
                        /\ <<e>> \o Tail(s) \in Seq(S)
<1>1. Append(s, e) \in Seq(S)
  OBVIOUS
<1>2. s # <<>> => Head(s) \in S /\ Tail(s) \in Seq(S)
  BY HeadTailProperties
<1>3. <<e>> \in Seq(S)
  OBVIOUS
<1> QED BY <1>1, <1>2, <1>3, ConcatProperties

\* Adding an element to one of the sequences of a function of sequences.
LEMMA OneMoreAt ==
  ASSUME NEW I, NEW S, NEW f \in [I -> Seq(S)], NEW i, NEW e \in S
  PROVE  [f EXCEPT ![i] = Append(@, e)] \in [I -> Seq(S)]
<1>1. \A j \in I : Append(f[j], e) \in Seq(S)
  BY OneMore
<1>2. i \in I => [f EXCEPT ![i] = Append(@, e)] \in [I -> Seq(S)]
  BY <1>1
<1>3. i \notin I => [f EXCEPT ![i] = Append(@, e)] = f
  OBVIOUS
<1> QED BY <1>2, <1>3

\* Every message that is sent is a message.
LEMMA Messages ==
  ASSUME NEW q \in Queries \cup {NoQuery}, NEW n \in Nat
  PROVE  /\ Path(q, n) \in Msg /\ Evict(q, n) \in Msg /\ Junk \in Msg
         /\ Finished(q) \in Msg /\ Error(q) \in Msg
         /\ \A v \in Nat : Ack(q, n, v) \in Msg
BY DEF Path, Evict, Junk, Finished, Error, Ack, Msg, Versions

-----------------------------------------------------------------------------
(***************************************************************************)
(* Types                                                                   *)
(***************************************************************************)
LEMMA CoreTypeInit == CoreInit => CoreTypeInv
<1> SUFFICES ASSUME CoreInit PROVE CoreTypeInv
  OBVIOUS
<1> USE MasterAssumption DEF CoreInit
<1>1. SessionsTypeOK
  BY DEF SessionsTypeOK, Session, Versions
<1>2. WorkersTypeOK
  BY DEF WorkersTypeOK, WorkerInfo, IdleWorker
<1>3. ThreadsTypeOK /\ SendsAnEnd
  BY DEF ThreadsTypeOK, HandlerState, MonitorState, SendsAnEnd, Junk, Msg, Versions
<1>4. NetTypeOK
  BY DEF NetTypeOK
<1>5. ProcessesTypeOK
  BY DEF ProcessesTypeOK, WorkerProc
<1>6. ClientsTypeOK
  BY DEF ClientsTypeOK
<1> QED BY <1>1, <1>2, <1>3, <1>4, <1>5, <1>6 DEF CoreTypeInv, CoreTypeOK

\* What a step leaves alone keeps its type.
LEMMA Frame ==
  /\ SessionsTypeOK /\ UNCHANGED sessVars => SessionsTypeOK'
  /\ WorkersTypeOK /\ UNCHANGED workerVars => WorkersTypeOK'
  /\ ThreadsTypeOK /\ SendsAnEnd /\ UNCHANGED <<handler, monitor>>
       => ThreadsTypeOK' /\ SendsAnEnd'
  /\ NetTypeOK /\ UNCHANGED netVars => NetTypeOK'
  /\ ProcessesTypeOK /\ UNCHANGED <<wproc, reached>> => ProcessesTypeOK'
  /\ ClientsTypeOK /\ UNCHANGED clientVars => ClientsTypeOK'
<1>1. SessionsTypeOK /\ UNCHANGED sessVars => SessionsTypeOK'
  BY DEF SessionsTypeOK, sessVars
<1>2. WorkersTypeOK /\ UNCHANGED workerVars => WorkersTypeOK'
  BY DEF WorkersTypeOK, workerVars
<1>3. ThreadsTypeOK /\ SendsAnEnd /\ UNCHANGED <<handler, monitor>>
        => ThreadsTypeOK' /\ SendsAnEnd'
  BY DEF ThreadsTypeOK, SendsAnEnd
<1>4. NetTypeOK /\ UNCHANGED netVars => NetTypeOK'
  BY DEF NetTypeOK, netVars
<1>5. ProcessesTypeOK /\ UNCHANGED <<wproc, reached>> => ProcessesTypeOK'
  BY DEF ProcessesTypeOK
<1>6. ClientsTypeOK /\ UNCHANGED clientVars => ClientsTypeOK'
  BY DEF ClientsTypeOK, clientVars
<1> QED BY <1>1, <1>2, <1>3, <1>4, <1>5, <1>6

\* The query, pc and version of a message on a channel.
LEMMA FirstMessage ==
  ASSUME NEW s \in Seq(Msg), s # <<>>
  PROVE  /\ Head(s) \in Msg
         /\ Tail(s) \in Seq(Msg)
         /\ Head(s).query \in Queries \cup {NoQuery}
         /\ Head(s).pc \in Nat
         /\ Head(s).version \in Nat
<1>1. Head(s) \in Msg /\ Tail(s) \in Seq(Msg)
  BY HeadTailProperties
<1> QED BY <1>1 DEF Msg, Versions

LEMMA QueryControlTypes ==
  ASSUME CoreTypeInv,
         Submit \/ \E q \in Queries : Confirm(q) \/ ConfirmFails(q) \/ QueryControlLeaves(q)
  PROVE  CoreTypeInv'
<1> USE DEF CoreTypeInv, CoreTypeOK
<1>1. CASE Submit
  <2>1. SessionsTypeOK'
    BY <1>1, MasterAssumption DEF Submit, SessionsTypeOK, Session, Versions, Queries
  <2>2. ClientsTypeOK'
    BY <1>1 DEF Submit, ClientsTypeOK
  <2> QED BY <1>1, <2>1, <2>2, Frame DEF Submit
<1>2. ASSUME NEW q \in Queries, Confirm(q) PROVE CoreTypeInv'
  <2>1. ClientsTypeOK'
    BY <1>2 DEF Confirm, ClientsTypeOK
  <2> QED BY <1>2, <2>1, Frame DEF Confirm
<1>3. ASSUME NEW q \in Queries, ConfirmFails(q) PROVE CoreTypeInv'
  <2>1. ClientsTypeOK' /\ SessionsTypeOK'
    BY <1>3 DEF ConfirmFails, ClientsTypeOK, SessionsTypeOK
  <2> QED BY <1>3, <2>1, Frame DEF ConfirmFails
<1>4. ASSUME NEW q \in Queries, QueryControlLeaves(q) PROVE CoreTypeInv'
  <2>1. ClientsTypeOK'
    BY <1>4 DEF QueryControlLeaves, ClientsTypeOK
  <2> QED BY <1>4, <2>1, Frame DEF QueryControlLeaves
<1> QED BY <1>1, <1>2, <1>3, <1>4

LEMMA HandlerTypes ==
  ASSUME CoreTypeInv, NEW w \in Workers, Register(w) \/ HandlerStep(w)
  PROVE  CoreTypeInv'
<1> USE DEF CoreTypeInv, CoreTypeOK
<1>1. ASSUME NEW at \in {"poll", "free_worker", "remove_session", "ack_worker", "ended"},
             handler' = [handler EXCEPT ![w].at = at], UNCHANGED monitor
      PROVE  ThreadsTypeOK' /\ SendsAnEnd'
  BY <1>1 DEF ThreadsTypeOK, HandlerState, SendsAnEnd
<1>2. ASSUME NEW busy \in BOOLEAN, UNCHANGED <<workers_list, worker_count>>,
             \/ winfo' = [winfo EXCEPT ![w] = IdleWorker]
             \/ winfo' = [winfo EXCEPT ![w].is_busy = busy]
             \/ winfo' = winfo
      PROVE  WorkersTypeOK'
  <2>1. winfo[w] \in WorkerInfo /\ IdleWorker \in WorkerInfo
    BY DEF WorkersTypeOK, WorkerInfo, IdleWorker
  <2>2. [winfo[w] EXCEPT !.is_busy = busy] \in WorkerInfo
    BY <2>1 DEF WorkerInfo
  <2> QED BY <1>2, <2>1, <2>2 DEF WorkersTypeOK
<1>3. ASSUME NEW ops, Incoming(w, ops), UNCHANGED to_worker
      PROVE  /\ NetTypeOK'
             /\ Head(to_master[w]) \in Msg
             /\ Head(to_master[w]).query \in Queries \cup {NoQuery}
             /\ Head(to_master[w]).op \in ops
  BY <1>3, FirstMessage DEF Incoming, NetTypeOK
<1>4. ASSUME NEW q \in Queries \cup {NoQuery}, NEW m \in Msg, UNCHANGED monitor,
             NEW at \in {"send", "apply_ack"},
             at = "send" => m.op \in {"FINISHED", "ERROR"},
             handler' = [handler EXCEPT ![w] = [at |-> at, query |-> q, msg |-> m]]
      PROVE  ThreadsTypeOK' /\ SendsAnEnd'
  BY <1>4 DEF ThreadsTypeOK, HandlerState, SendsAnEnd
<1>5. CASE Register(w)
  <2>1. WorkersTypeOK'
    BY <1>5 DEF Register, WorkersTypeOK, WorkerInfo, IdleWorker
  <2>2. ProcessesTypeOK'
    BY <1>5 DEF Register, ProcessesTypeOK, WorkerProc
  <2> QED BY <1>1, <1>5, <2>1, <2>2, Frame DEF Register
<1>6. CASE HandleEndOfQuery(w)
  <2>1. NetTypeOK' /\ Head(to_master[w]) \in Msg
        /\ Head(to_master[w]).op \in {"FINISHED", "ERROR"}
    BY <1>3, <1>6 DEF HandleEndOfQuery
  <2>2. ActiveOn(w) \subseteq Queries
    BY DEF ActiveOn, SessionsTypeOK
  <2>3. ThreadsTypeOK' /\ SendsAnEnd'
    BY <1>4, <1>6, <2>1, <2>2, Frame DEF HandleEndOfQuery
  <2> QED BY <1>6, <2>1, <2>3, Frame DEF HandleEndOfQuery
<1>7. CASE HandlerSendResult(w)
  <2>1. handler[w].msg.op \in {"FINISHED", "ERROR"}
    BY <1>7 DEF HandlerSendResult, SendsAnEnd
  <2>2. ClientsTypeOK'
    <3>1. [results EXCEPT ![handler[w].query] = Append(@, handler[w].msg.op)]
            \in [Queries -> Seq({"FINISHED", "ERROR"})]
      BY <2>1, OneMoreAt DEF ClientsTypeOK
    <3>2. \/ UNCHANGED results
          \/ SendResult(handler[w].query, handler[w].msg.op)
      BY <1>7 DEF HandlerSendResult
    <3>3. results' \in [Queries -> Seq({"FINISHED", "ERROR"})]
      BY <3>1, <3>2 DEF SendResult, ClientsTypeOK
    <3>4. UNCHANGED <<qc, confirming>>
      BY <1>7 DEF HandlerSendResult
    <3> QED BY <3>3, <3>4 DEF ClientsTypeOK
  <2>3. ThreadsTypeOK' /\ SendsAnEnd'
    BY <1>1, <1>7 DEF HandlerSendResult
  <2> QED BY <1>7, <2>2, <2>3, Frame DEF HandlerSendResult
<1>8. CASE HandlerFreeWorker(w)
  <2>1. WorkersTypeOK'
    BY <1>2, <1>8 DEF HandlerFreeWorker
  <2> QED BY <1>1, <1>8, <2>1, Frame DEF HandlerFreeWorker
<1>9. CASE HandlerRemoveSession(w)
  <2>1. SessionsTypeOK'
    BY <1>9 DEF HandlerRemoveSession, SessionsTypeOK
  <2> QED BY <1>1, <1>9, <2>1, Frame DEF HandlerRemoveSession
<1>10. CASE HandleEvictAck(w)
  <2>1. NetTypeOK' /\ Head(to_master[w]) \in Msg
        /\ Head(to_master[w]).query \in Queries \cup {NoQuery}
    BY <1>3, <1>10 DEF HandleEvictAck
  <2>2. ThreadsTypeOK' /\ SendsAnEnd'
    BY <1>4, <1>10, <2>1, Frame DEF HandleEvictAck
  <2> QED BY <1>10, <2>1, <2>2, Frame DEF HandleEvictAck
<1>11. CASE HandlerApplyAck(w)
  <2>1. handler[w].msg.pc \in Nat
    BY DEF ThreadsTypeOK, HandlerState, Msg
  <2>2. SessionsTypeOK'
    BY <1>11, <2>1 DEF HandlerApplyAck, SessionsTypeOK, Session
  <2> QED BY <1>1, <1>11, <2>2, Frame DEF HandlerApplyAck
<1>12. CASE HandlerAckWorker(w)
  <2>1. WorkersTypeOK'
    BY <1>2, <1>12 DEF HandlerAckWorker
  <2> QED BY <1>1, <1>12, <2>1, Frame DEF HandlerAckWorker
<1>13. CASE HandlerEnds(w)
  BY <1>1, <1>13, Frame DEF HandlerEnds
<1>14. CASE HandlerEndsAtPeek(w)
  <2>1. WorkersTypeOK'
    BY <1>2, <1>14 DEF HandlerEndsAtPeek
  <2> QED BY <1>1, <1>14, <2>1, Frame DEF HandlerEndsAtPeek
<1> QED BY <1>5, <1>6, <1>7, <1>8, <1>9, <1>10, <1>11, <1>12, <1>13, <1>14
        DEF HandlerStep

LEMMA WatchdogTypes ==
  ASSUME CoreTypeInv, NEW w \in Workers, Watchdog(w) \/ EvictDeadline(w)
  PROVE  CoreTypeInv'
<1> USE DEF CoreTypeInv, CoreTypeOK
<1>1. winfo[w] \in WorkerInfo /\ IdleWorker \in WorkerInfo
  BY DEF WorkersTypeOK, WorkerInfo, IdleWorker
<1>2. [winfo[w] EXCEPT !.expired = TRUE] \in WorkerInfo
  BY <1>1 DEF WorkerInfo
<1>3. WorkersTypeOK'
  BY <1>1, <1>2 DEF Watchdog, EvictDeadline, WorkersTypeOK
<1> QED BY <1>3, Frame DEF Watchdog, EvictDeadline

LEMMA WorkerTypes ==
  ASSUME CoreTypeInv, NEW w \in Workers,
         WorkerReceive(w) \/ WorkerYields(w) \/ WorkerStep(w) \/ WorkerCrash(w)
  PROVE  CoreTypeInv'
<1> USE DEF CoreTypeInv, CoreTypeOK
<1>1. ASSUME NEW p \in WorkerProc, wproc' = [wproc EXCEPT ![w] = p], UNCHANGED reached
      PROVE  ProcessesTypeOK'
  BY <1>1 DEF ProcessesTypeOK
<1>2. wproc[w] \in WorkerProc /\ wproc[w].query \in Queries \cup {NoQuery}
      /\ wproc[w].pc \in Nat
  BY DEF ProcessesTypeOK, WorkerProc
<1>3. CASE WorkerReceive(w)
  <2> DEFINE m == Head(to_worker[w])
  <2>1. /\ m.query \in Queries \cup {NoQuery}
        /\ m.pc \in Nat
        /\ Tail(to_worker[w]) \in Seq(Msg)
    BY <1>3, FirstMessage DEF WorkerReceive, NetTypeOK
  <2>2. NetTypeOK'
    BY <1>3, <2>1 DEF WorkerReceive, NetTypeOK
  <2>3. /\ [state |-> "stopped", query |-> NoQuery, pc |-> 0] \in WorkerProc
        /\ [state |-> "running", query |-> m.query, pc |-> m.pc] \in WorkerProc
    BY <2>1 DEF WorkerProc
  <2>4. \E p \in WorkerProc : wproc' = [wproc EXCEPT ![w] = p]
    BY <1>2, <1>3, <2>3 DEF WorkerReceive
  <2>5. ProcessesTypeOK'
    BY <1>1, <1>3, <2>4 DEF WorkerReceive
  <2> QED BY <1>3, <2>2, <2>5, Frame DEF WorkerReceive
<1>4. [state |-> "idle", query |-> NoQuery, pc |-> 0] \in WorkerProc
  BY DEF WorkerProc
<1>5. CASE WorkerYields(w)
  <2>1. Head(to_worker[w]).version \in Nat /\ Tail(to_worker[w]) \in Seq(Msg)
    BY <1>5, FirstMessage DEF WorkerYields, EvictPending, NetTypeOK
  <2>2. Ack(wproc[w].query, wproc[w].pc, Head(to_worker[w]).version) \in Msg
    BY <1>2, <2>1, Messages
  <2>3. NetTypeOK'
    BY <1>5, <2>1, <2>2, OneMore DEF WorkerYields, NetTypeOK
  <2>4. ProcessesTypeOK'
    BY <1>1, <1>4, <1>5 DEF WorkerYields
  <2> QED BY <1>5, <2>3, <2>4, Frame DEF WorkerYields
<1>6. CASE WorkerStep(w)
  <2>1. to_worker' \in [Workers -> Seq(Msg)]
    <3>1. Junk \in Msg
      BY DEF Junk, Msg, Versions
    <3>2. to_worker[w] # <<>> => /\ Tail(to_worker[w]) \in Seq(Msg)
                                 /\ <<Junk>> \o Tail(to_worker[w]) \in Seq(Msg)
      BY <3>1, OneMore DEF NetTypeOK
    <3> QED BY <1>6, <3>2 DEF WorkerStep, CheckSwallows, NetTypeOK
  <2>2. Finished(wproc[w].query) \in Msg /\ Error(wproc[w].query) \in Msg
    BY <1>2, Messages
  <2>3. to_master' \in [Workers -> Seq(Msg)]
    <3>1. \A m \in Msg : [to_master EXCEPT ![w] = Append(@, m)] \in [Workers -> Seq(Msg)]
      BY OneMoreAt DEF NetTypeOK
    <3>2. \/ UNCHANGED to_master
          \/ Tell(w, Finished(wproc[w].query))
          \/ Tell(w, Error(wproc[w].query))
      BY <1>6 DEF WorkerStep
    <3> QED BY <2>2, <3>1, <3>2 DEF Tell, NetTypeOK
  <2>4. wproc' \in [Workers -> WorkerProc]
    BY <1>2, <1>4, <1>6 DEF WorkerStep, WorkerProc, ProcessesTypeOK
  <2>5. reached' \in [Queries -> Nat]
    <3>1. reached \in [Queries -> Nat] /\ wproc[w].pc + 1 \in Nat
      BY <1>2 DEF ProcessesTypeOK
    <3>2. CASE wproc[w].query \in Queries
      BY <1>6, <3>1, <3>2 DEF WorkerStep
    <3>3. CASE wproc[w].query \notin Queries
      BY <1>6, <3>1, <3>3 DEF WorkerStep
    <3> QED BY <3>2, <3>3
  <2> QED BY <1>6, <2>1, <2>3, <2>4, <2>5, Frame
          DEF WorkerStep, NetTypeOK, ProcessesTypeOK
<1>7. CASE WorkerCrash(w)
  <2>1. [state |-> "crashed", query |-> NoQuery, pc |-> 0] \in WorkerProc
    BY DEF WorkerProc
  <2>2. ProcessesTypeOK'
    BY <1>1, <1>7, <2>1 DEF WorkerCrash
  <2> QED BY <1>7, <2>2, Frame DEF WorkerCrash
<1> QED BY <1>3, <1>5, <1>6, <1>7

LEMMA MonitorTypes ==
  ASSUME CoreTypeInv, MonitorStep
  PROVE  CoreTypeInv'
<1> USE DEF CoreTypeInv, CoreTypeOK
<1>1. ASSUME NEW m \in MonitorState, monitor' = m, UNCHANGED handler
      PROVE  ThreadsTypeOK' /\ SendsAnEnd'
  BY <1>1 DEF ThreadsTypeOK, SendsAnEnd
<1>2. /\ monitor \in MonitorState
      /\ [at |-> "scan", worker |-> NoWorker, query |-> NoQuery] \in MonitorState
      /\ \A at \in {"find", "remove_worker", "send_error", "close_session"} :
           [monitor EXCEPT !.at = at] \in MonitorState
  BY DEF ThreadsTypeOK, MonitorState
<1>3. ASSUME NEW w \in Workers, MonitorPick(w) PROVE CoreTypeInv'
  <2>1. [at |-> "check", worker |-> w, query |-> NoQuery] \in MonitorState
    BY DEF MonitorState
  <2> QED BY <1>1, <1>3, <2>1, Frame DEF MonitorPick
<1>4. CASE MonitorCheck
  BY <1>1, <1>2, <1>4, Frame DEF MonitorCheck
<1>5. CASE MonitorFindQuery
  <2>1. monitor' \in MonitorState
    BY <1>2, <1>5 DEF MonitorFindQuery, MonitorState, ActiveOn, SessionsTypeOK
  <2> QED BY <1>1, <1>5, <2>1, Frame DEF MonitorFindQuery
<1>6. CASE MonitorRemoveWorker
  <2>1. workers_list' \in Seq(Workers)
    BY <1>6, RemoveOne DEF MonitorRemoveWorker, WorkersTypeOK
  <2>2. WorkersTypeOK'
    BY <1>6, <2>1 DEF MonitorRemoveWorker, WorkersTypeOK
  <2>3. ThreadsTypeOK' /\ SendsAnEnd'
    BY <1>1, <1>2, <1>6 DEF MonitorRemoveWorker
  <2> QED BY <1>6, <2>2, <2>3, Frame DEF MonitorRemoveWorker
<1>7. CASE MonitorSendError
  <2>1. ClientsTypeOK'
    BY <1>7, OneMoreAt DEF MonitorSendError, SendResult, ClientsTypeOK
  <2> QED BY <1>1, <1>2, <1>7, <2>1, Frame DEF MonitorSendError
<1>8. CASE MonitorCloseSession
  <2>1. SessionsTypeOK'
    BY <1>8 DEF MonitorCloseSession, SessionsTypeOK
  <2> QED BY <1>1, <1>2, <1>8, <2>1, Frame DEF MonitorCloseSession
<1> QED BY <1>3, <1>4, <1>5, <1>6, <1>7, <1>8 DEF MonitorStep

\* Every step of the core preserves the types.
LEMMA CoreTypeStep == CoreTypeInv /\ CoreNext => CoreTypeInv'
BY QueryControlTypes, HandlerTypes, WatchdogTypes, WorkerTypes, MonitorTypes
   DEF CoreNext

-----------------------------------------------------------------------------
(***************************************************************************)
(* Program counters                                                        *)
(***************************************************************************)
LEMMA PcInit == CoreInit => PcInv
BY MasterAssumption DEF CoreInit, PcInv, SessionsBehind, ChannelsBehind,
   HandlersBehind, WorkersBehind

\* What is true of the instructions executed stays true as more are executed.
LEMMA MoreExecuted ==
  ASSUME CoreTypeOK, ProcessesTypeOK',
         \A q \in Queries : reached[q] <= reached'[q]
  PROVE  /\ TrueMsg \subseteq TrueMsg'
         /\ SessionsBehind /\ UNCHANGED session => SessionsBehind'
         /\ HandlersBehind /\ UNCHANGED handler => HandlersBehind'
<1>0. /\ \A q \in Queries : reached[q] \in Nat /\ reached'[q] \in Nat
      /\ \A q \in Queries : session[q].pc \in Nat
      /\ \A w \in Workers : handler[w].msg.pc \in Nat
  BY DEF CoreTypeOK, ProcessesTypeOK, SessionsTypeOK, ThreadsTypeOK, HandlerState,
         Session, Msg
<1>1. TrueMsg \subseteq TrueMsg'
  <2> SUFFICES ASSUME NEW m \in TrueMsg PROVE m \in TrueMsg'
    OBVIOUS
  <2>1. m \in Msg /\ m.pc \in Nat
    BY DEF TrueMsg, Msg
  <2> QED BY <1>0, <2>1 DEF TrueMsg
<1>2. SessionsBehind /\ UNCHANGED session => SessionsBehind'
  BY <1>0 DEF SessionsBehind
<1>3. HandlersBehind /\ UNCHANGED handler => HandlersBehind'
  BY <1>0 DEF HandlersBehind
<1> QED BY <1>1, <1>2, <1>3

\* What a step leaves alone stays behind.
LEMMA PcFrame ==
  /\ SessionsBehind /\ UNCHANGED <<session, reached>> => SessionsBehind'
  /\ ChannelsBehind /\ UNCHANGED <<to_worker, to_master, reached>> => ChannelsBehind'
  /\ HandlersBehind /\ UNCHANGED <<handler, reached>> => HandlersBehind'
  /\ WorkersBehind /\ UNCHANGED <<wproc, reached>> => WorkersBehind'
<1>1. SessionsBehind /\ UNCHANGED <<session, reached>> => SessionsBehind'
  BY DEF SessionsBehind
<1>2. ChannelsBehind /\ UNCHANGED <<to_worker, to_master, reached>> => ChannelsBehind'
  BY DEF ChannelsBehind, TrueMsg
<1>3. HandlersBehind /\ UNCHANGED <<handler, reached>> => HandlersBehind'
  BY DEF HandlersBehind
<1>4. WorkersBehind /\ UNCHANGED <<wproc, reached>> => WorkersBehind'
  BY DEF WorkersBehind
<1> QED BY <1>1, <1>2, <1>3, <1>4

LEMMA HandlerPc ==
  ASSUME CoreTypeInv, PcInv, NEW w \in Workers, HandlerStep(w)
  PROVE  PcInv'
<1> USE DEF PcInv
<1>0. ThreadsTypeOK /\ SessionsTypeOK /\ NetTypeOK
  BY DEF CoreTypeInv, CoreTypeOK
<1>1. ASSUME NEW at \in {"poll", "free_worker", "remove_session", "ack_worker", "ended"},
             handler' = [handler EXCEPT ![w].at = at], UNCHANGED reached
      PROVE  HandlersBehind'
  BY <1>0, <1>1 DEF ThreadsTypeOK, HandlersBehind
<1>2. ASSUME NEW ops, Incoming(w, ops), UNCHANGED <<to_worker, reached>>
      PROVE  ChannelsBehind' /\ Head(to_master[w]) \in TrueMsg
  <2>1. Head(to_master[w]) \in TrueMsg /\ Tail(to_master[w]) \in Seq(TrueMsg)
    BY <1>2, HeadTailProperties DEF ChannelsBehind, Incoming
  <2>2. UNCHANGED TrueMsg
    BY <1>2 DEF TrueMsg
  <2> QED BY <1>0, <1>2, <2>1, <2>2 DEF ChannelsBehind, Incoming, NetTypeOK
<1>3. CASE HandleEndOfQuery(w)
  <2>1. ChannelsBehind'
    BY <1>2, <1>3 DEF HandleEndOfQuery
  <2>2. HandlersBehind'
    BY <1>0, <1>3 DEF HandleEndOfQuery, HandlersBehind, ThreadsTypeOK
  <2> QED BY <1>3, <2>1, <2>2, PcFrame DEF HandleEndOfQuery, sessVars
<1>4. CASE HandleEvictAck(w)
  <2>1. ChannelsBehind' /\ Head(to_master[w]) \in TrueMsg
        /\ Head(to_master[w]).op = "EVICT_ACK"
    BY <1>2, <1>4 DEF HandleEvictAck, Incoming
  <2>2. /\ Head(to_master[w]).query \in Queries
        /\ Head(to_master[w]).pc <= reached[Head(to_master[w]).query]
    BY <2>1 DEF TrueMsg
  <2>3. HandlersBehind'
    BY <1>0, <1>4, <2>2 DEF HandleEvictAck, HandlersBehind, ThreadsTypeOK
  <2> QED BY <1>4, <2>1, <2>3, PcFrame DEF HandleEvictAck, sessVars
<1>5. CASE HandlerApplyAck(w)
  <2>1. SessionsBehind'
    BY <1>0, <1>5 DEF HandlerApplyAck, SessionsBehind, HandlersBehind,
       SessionsTypeOK, Session
  <2>2. HandlersBehind'
    BY <1>1, <1>5 DEF HandlerApplyAck
  <2> QED BY <1>5, <2>1, <2>2, PcFrame DEF HandlerApplyAck, netVars
<1>6. CASE \/ HandlerSendResult(w) \/ HandlerFreeWorker(w)
           \/ HandlerRemoveSession(w) \/ HandlerAckWorker(w)
           \/ HandlerEnds(w) \/ HandlerEndsAtPeek(w)
  <2>1. HandlersBehind'
    BY <1>1, <1>6 DEF HandlerSendResult, HandlerFreeWorker, HandlerRemoveSession,
       HandlerAckWorker, HandlerEnds, HandlerEndsAtPeek
  <2>2. UNCHANGED <<session, to_worker, to_master, wproc, reached>>
    BY <1>6 DEF HandlerSendResult, HandlerFreeWorker, HandlerRemoveSession,
       HandlerAckWorker, HandlerEnds, HandlerEndsAtPeek, sessVars, netVars
  <2> QED BY <2>1, <2>2, PcFrame
<1> QED BY <1>3, <1>4, <1>5, <1>6 DEF HandlerStep

LEMMA WorkerPc ==
  ASSUME CoreTypeInv, CoreTypeInv', PcInv, NEW w \in Workers,
         WorkerReceive(w) \/ WorkerYields(w) \/ WorkerStep(w) \/ WorkerCrash(w)
  PROVE  PcInv'
<1> USE DEF PcInv
<1>0. /\ ProcessesTypeOK /\ ProcessesTypeOK' /\ NetTypeOK /\ CoreTypeOK
      /\ wproc[w].query \in Queries \cup {NoQuery} /\ wproc[w].pc \in Nat
  BY DEF CoreTypeInv, CoreTypeOK, ProcessesTypeOK, WorkerProc
<1>1. ASSUME to_worker[w] # <<>>
      PROVE  Head(to_worker[w]) \in TrueMsg /\ Tail(to_worker[w]) \in Seq(TrueMsg)
  BY <1>1, HeadTailProperties DEF ChannelsBehind
<1>2. CASE WorkerReceive(w)
  <2>1. UNCHANGED TrueMsg
    BY <1>2 DEF WorkerReceive, TrueMsg
  <2>2. ChannelsBehind'
    BY <1>0, <1>1, <1>2, <2>1 DEF WorkerReceive, ChannelsBehind, NetTypeOK
  <2>3. Head(to_worker[w]).op = "PATH" =>
          /\ Head(to_worker[w]).query \in Queries
          /\ Head(to_worker[w]).pc <= reached[Head(to_worker[w]).query]
    BY <1>1, <1>2 DEF WorkerReceive, TrueMsg
  <2>4. WorkersBehind'
    BY <1>0, <1>2, <2>3 DEF WorkerReceive, WorkersBehind, ProcessesTypeOK
  <2> QED BY <1>2, <2>2, <2>4, PcFrame DEF WorkerReceive, sessVars
<1>3. CASE WorkerYields(w)
  <2> DEFINE ack == Ack(wproc[w].query, wproc[w].pc, Head(to_worker[w]).version)
  <2>1. UNCHANGED TrueMsg
    BY <1>3 DEF WorkerYields, TrueMsg
  <2>2. Head(to_worker[w]).version \in Nat
    BY <1>1, <1>3 DEF WorkerYields, EvictPending, TrueMsg, Msg, Versions
  <2>3. ack \in Msg
    BY <1>0, <2>2, Messages
  <2>4. /\ ack.query = wproc[w].query /\ ack.pc = wproc[w].pc
        /\ wproc[w].query \in Queries /\ wproc[w].pc <= reached[wproc[w].query]
    BY <1>3 DEF Ack, WorkersBehind, WorkerYields
  <2>5. ack \in TrueMsg
    BY <2>3, <2>4 DEF TrueMsg
  <2>6. Append(to_master[w], ack) \in Seq(TrueMsg)
    BY <2>5, OneMore DEF ChannelsBehind
  <2>7. ChannelsBehind'
    BY <1>0, <1>1, <1>3, <2>1, <2>6
       DEF WorkerYields, EvictPending, ChannelsBehind, NetTypeOK
  <2>8. WorkersBehind'
    BY <1>0, <1>3 DEF WorkerYields, WorkersBehind, ProcessesTypeOK
  <2> QED BY <1>3, <2>7, <2>8, PcFrame DEF WorkerYields, sessVars
<1>4. CASE WorkerStep(w)
  <2> DEFINE q == wproc[w].query
  <2>1. q \in Queries /\ wproc[w].pc <= reached[q]
    BY <1>4 DEF WorkerStep, WorkersBehind
  <2>2. /\ \A r \in Queries : reached[r] <= reached'[r]
        /\ wproc[w].pc + 1 <= reached'[q]
    <3>1. /\ reached' = [reached EXCEPT ![q] =
                IF wproc[w].pc + 1 > reached[q] THEN wproc[w].pc + 1 ELSE reached[q]]
          /\ \A r \in Queries : reached[r] \in Nat
          /\ wproc[w].pc \in Nat
      BY <1>0, <1>4 DEF WorkerStep, ProcessesTypeOK
    <3> QED BY <1>0, <2>1, <3>1 DEF ProcessesTypeOK
  <2>3. TrueMsg \subseteq TrueMsg'
    BY <1>0, <2>2, MoreExecuted
  <2>4. Junk \in TrueMsg' /\ Finished(q) \in TrueMsg' /\ Error(q) \in TrueMsg'
    <3>1. Junk \in Msg /\ Finished(q) \in Msg /\ Error(q) \in Msg
      BY <2>1, Messages
    <3> QED BY <3>1 DEF TrueMsg, Junk, Finished, Error
  <2>5. \A x \in Workers : to_worker[x] \in Seq(TrueMsg') /\ to_master[x] \in Seq(TrueMsg')
    BY <2>3, SeqMonotonic DEF ChannelsBehind
  <2>6. \A x \in Workers : to_worker'[x] \in Seq(TrueMsg')
    <3>1. to_worker[w] # <<>> => /\ Tail(to_worker[w]) \in Seq(TrueMsg')
                                 /\ <<Junk>> \o Tail(to_worker[w]) \in Seq(TrueMsg')
      BY <2>4, <2>5, OneMore
    <3> QED BY <1>0, <1>4, <2>5, <3>1 DEF WorkerStep, CheckSwallows, NetTypeOK
  <2>7. \A x \in Workers : to_master'[x] \in Seq(TrueMsg')
    <3>1. \A m \in TrueMsg' : Append(to_master[w], m) \in Seq(TrueMsg')
      BY <2>5, OneMore
    <3>2. \/ UNCHANGED to_master
          \/ Tell(w, Finished(q))
          \/ Tell(w, Error(q))
      BY <1>4 DEF WorkerStep
    <3> QED BY <1>0, <2>4, <2>5, <3>1, <3>2 DEF Tell, NetTypeOK
  <2>8. ChannelsBehind'
    BY <2>6, <2>7 DEF ChannelsBehind
  <2>9. WorkersBehind'
    <3> SUFFICES ASSUME NEW x \in Workers, wproc'[x].state = "running"
                 PROVE  /\ wproc'[x].query \in Queries
                        /\ wproc'[x].pc <= reached'[wproc'[x].query]
      BY DEF WorkersBehind
    <3>1. CASE x = w
      <4>1. wproc'[w].query = q /\ wproc'[w].pc = wproc[w].pc + 1
        <5>1. \/ wproc' = [wproc EXCEPT ![w].pc = wproc[w].pc + 1]
              \/ wproc' = [wproc EXCEPT ![w] =
                              [state |-> "idle", query |-> NoQuery, pc |-> 0]]
          BY <1>4 DEF WorkerStep
        <5> QED BY <1>0, <3>1, <5>1 DEF ProcessesTypeOK, WorkerProc
      <4> QED BY <2>1, <2>2, <3>1, <4>1
    <3>2. CASE x # w
      <4>1. wproc'[x] = wproc[x]
        BY <1>0, <1>4, <3>2 DEF WorkerStep, ProcessesTypeOK
      <4>2. wproc[x].query \in Queries /\ wproc[x].pc <= reached[wproc[x].query]
        BY <4>1 DEF WorkersBehind
      <4>3. wproc[x].pc \in Nat /\ \A r \in Queries : reached[r] \in Nat /\ reached'[r] \in Nat
        BY <1>0 DEF ProcessesTypeOK, WorkerProc
      <4> QED BY <2>2, <4>1, <4>2, <4>3
    <3> QED BY <3>1, <3>2
  <2>10. SessionsBehind' /\ HandlersBehind'
    BY <1>0, <1>4, <2>2, MoreExecuted DEF WorkerStep, sessVars
  <2> QED BY <2>8, <2>9, <2>10
<1>5. CASE WorkerCrash(w)
  <2>1. WorkersBehind'
    BY <1>0, <1>5 DEF WorkerCrash, WorkersBehind, ProcessesTypeOK
  <2> QED BY <1>5, <2>1, PcFrame DEF WorkerCrash, sessVars, netVars
<1> QED BY <1>2, <1>3, <1>4, <1>5

\* Every step of the core keeps the program counters behind.
LEMMA PcStep == CoreTypeInv /\ CoreTypeInv' /\ PcInv /\ CoreNext => PcInv'
<1> SUFFICES ASSUME CoreTypeInv, CoreTypeInv', PcInv, CoreNext PROVE PcInv'
  OBVIOUS
<1>1. CASE Submit
  <2>1. SessionsBehind'
    BY <1>1, MasterAssumption DEF Submit, PcInv, SessionsBehind, CoreTypeInv,
       CoreTypeOK, SessionsTypeOK, ProcessesTypeOK
  <2> QED BY <1>1, <2>1, PcFrame DEF Submit, PcInv, netVars
<1>2. ASSUME NEW q \in Queries, Confirm(q) \/ ConfirmFails(q) \/ QueryControlLeaves(q)
      PROVE  PcInv'
  BY <1>2, PcFrame DEF Confirm, ConfirmFails, QueryControlLeaves, PcInv, sessVars, netVars
<1>3. ASSUME NEW w \in Workers, Register(w) PROVE PcInv'
  <2>1. HandlersBehind' /\ WorkersBehind'
    BY <1>3 DEF Register, PcInv, HandlersBehind, WorkersBehind, CoreTypeInv,
       CoreTypeOK, ThreadsTypeOK, ProcessesTypeOK
  <2> QED BY <1>3, <2>1, PcFrame DEF Register, PcInv, sessVars, netVars
<1>4. ASSUME NEW w \in Workers, Watchdog(w) \/ EvictDeadline(w) PROVE PcInv'
  BY <1>4, PcFrame DEF Watchdog, EvictDeadline, PcInv, sessVars, netVars
<1>5. CASE MonitorStep
  BY <1>5, PcFrame DEF MonitorStep, MonitorPick, MonitorCheck, MonitorFindQuery,
     MonitorRemoveWorker, MonitorSendError, MonitorCloseSession, PcInv, sessVars, netVars
<1> QED BY <1>1, <1>2, <1>3, <1>4, <1>5, HandlerPc, WorkerPc DEF CoreNext

-----------------------------------------------------------------------------
(***************************************************************************)
(* No session is dropped silently                                          *)
(***************************************************************************)
LEMMA DropInit == CoreInit => DropInv
BY MasterAssumption DEF CoreInit, DropInv, NoSilentDrop, ClientsKnown,
   HandlersTold, MonitorTold, Queries

\* A Query Control that was told stays told, one that is known stays known.
LEMMA DropFrame ==
  /\ NoSilentDrop /\ UNCHANGED <<next_query_id, query_sessions, results, qc>>
       => NoSilentDrop'
  /\ ClientsKnown /\ UNCHANGED <<next_query_id, query_sessions, qc>>
       => ClientsKnown'
  /\ HandlersTold /\ UNCHANGED <<handler, results, qc>> => HandlersTold'
  /\ MonitorTold /\ UNCHANGED <<monitor, results, qc>> => MonitorTold'
<1>1. NoSilentDrop /\ UNCHANGED <<next_query_id, query_sessions, results, qc>>
        => NoSilentDrop'
  BY DEF NoSilentDrop
<1>2. ClientsKnown /\ UNCHANGED <<next_query_id, query_sessions, qc>>
        => ClientsKnown'
  BY DEF ClientsKnown
<1>3. HandlersTold /\ UNCHANGED <<handler, results, qc>> => HandlersTold'
  BY DEF HandlersTold, Told
<1>4. MonitorTold /\ UNCHANGED <<monitor, results, qc>> => MonitorTold'
  BY DEF MonitorTold, Told
<1> QED BY <1>1, <1>2, <1>3, <1>4

\* The scheduler never touches what DropInv speaks of.
LEMMA DropStutters ==
  DropInv /\ UNCHANGED <<next_query_id, query_sessions, handler, monitor, results, qc>>
    => DropInv'
BY DropFrame DEF DropInv

\* A result sent to a Query Control that is there or left tells it.
LEMMA SendingTells ==
  ASSUME CoreTypeOK, NEW q \in Queries, qc[q] # "none", NEW text, SendResult(q, text),
         UNCHANGED qc
  PROVE  /\ Told(q)'
         /\ \A r \in Queries : Told(r) => Told(r)'
<1>1. /\ \A r \in Queries : qc[r] \in {"none", "open", "gone"}
      /\ results \in [Queries -> Seq({"FINISHED", "ERROR"})]
  BY DEF CoreTypeOK, ClientsTypeOK
<1>2. Append(results[q], text) # <<>>
  OBVIOUS
<1>3. CASE qc[q] = "open"
  <2>1. results' = [results EXCEPT ![q] = Append(@, text)]
    BY <1>3 DEF SendResult
  <2>2. results'[q] # <<>> /\ \A r \in Queries \ {q} : results'[r] = results[r]
    BY <1>1, <1>2, <2>1
  <2> QED BY <2>2 DEF Told
<1>4. CASE qc[q] = "gone"
  BY <1>4 DEF SendResult, Told
<1> QED BY <1>1, <1>3, <1>4

LEMMA StillTold ==
  ASSUME SessionsTypeOK, NoSilentDrop, UNCHANGED <<next_query_id, query_sessions>>,
         \A r \in Queries : Told(r) => Told(r)'
  PROVE  NoSilentDrop'
<1>1. \A q \in 0 .. next_query_id - 1 : q \in Queries
  BY MasterAssumption DEF SessionsTypeOK, Queries
<1> QED BY <1>1 DEF NoSilentDrop, Told

LEMMA QueryControlDrop ==
  ASSUME CoreTypeInv, DropInv,
         Submit \/ \E q \in Queries : Confirm(q) \/ ConfirmFails(q) \/ QueryControlLeaves(q)
  PROVE  DropInv'
<1> USE DEF DropInv
<1>0. /\ SessionsTypeOK /\ ThreadsTypeOK /\ ClientsTypeOK
      /\ NQ \in Nat
  BY MasterAssumption DEF CoreTypeInv, CoreTypeOK
<1>1. CASE Submit
  <2>1. ClientsKnown' /\ NoSilentDrop'
    BY <1>0, <1>1 DEF Submit, ClientsKnown, NoSilentDrop, SessionsTypeOK,
       ClientsTypeOK, Queries
  <2>2. \A q \in Queries : qc[q] # "none" => qc'[q] = qc[q]
    BY <1>0, <1>1 DEF Submit, ClientsKnown, SessionsTypeOK, ClientsTypeOK, Queries
  <2>3. \A q \in Queries : (qc[q] # "none" => qc'[q] # "none") /\ (Told(q) => Told(q)')
    BY <1>0, <1>1, <2>2 DEF Submit, Told
  <2>4. HandlersTold'
    BY <1>0, <1>1, <2>3 DEF Submit, HandlersTold
  <2>5. MonitorTold'
    BY <1>0, <1>1, <2>3 DEF Submit, MonitorTold, ThreadsTypeOK, MonitorState
  <2> QED BY <2>1, <2>4, <2>5
<1>2. ASSUME NEW q \in Queries, Confirm(q) PROVE DropInv'
  BY <1>2, DropStutters DEF Confirm, sessVars
<1>3. ASSUME NEW q \in Queries, ConfirmFails(q) PROVE DropInv'
  <2>1. ClientsKnown' /\ NoSilentDrop'
    BY <1>3 DEF ConfirmFails, ClientsKnown, NoSilentDrop
  <2> QED BY <1>3, <2>1, DropFrame DEF ConfirmFails
<1>4. ASSUME NEW q \in Queries, QueryControlLeaves(q) PROVE DropInv'
  <2>1. \A r \in Queries : (qc[r] # "none" <=> qc'[r] # "none") /\ (Told(r) => Told(r)')
    BY <1>0, <1>4 DEF QueryControlLeaves, Told, ClientsTypeOK
  <2>2. ClientsKnown'
    BY <1>0, <1>4, <2>1 DEF QueryControlLeaves, ClientsKnown, SessionsTypeOK, sessVars
  <2>3. NoSilentDrop'
    BY <1>0, <1>4, <2>1 DEF QueryControlLeaves, NoSilentDrop, Told, SessionsTypeOK,
       sessVars, Queries
  <2>4. HandlersTold'
    BY <1>4, <2>1 DEF QueryControlLeaves, HandlersTold
  <2>5. MonitorTold'
    BY <1>0, <1>4, <2>1 DEF QueryControlLeaves, MonitorTold, ThreadsTypeOK, MonitorState
  <2> QED BY <2>2, <2>3, <2>4, <2>5
<1> QED BY <1>1, <1>2, <1>3, <1>4

LEMMA HandlerDrop ==
  ASSUME CoreTypeInv, DropInv, NEW w \in Workers, Register(w) \/ HandlerStep(w)
  PROVE  DropInv'
<1> USE DEF DropInv
<1>0. CoreTypeOK /\ SessionsTypeOK /\ ThreadsTypeOK
  BY DEF CoreTypeInv, CoreTypeOK
<1>1. ASSUME NEW at \in {"poll", "ack_worker", "ended"}, UNCHANGED <<results, qc>>,
             handler' = [handler EXCEPT ![w].at = at]
      PROVE  HandlersTold'
  BY <1>0, <1>1 DEF ThreadsTypeOK, HandlersTold, Told
<1>2. CASE HandleEndOfQuery(w)
  <2>1. \A q \in ActiveOn(w) : q \in Queries /\ qc[q] # "none"
    BY <1>0 DEF ActiveOn, SessionsTypeOK, ClientsKnown
  <2>2. HandlersTold'
    BY <1>0, <1>2, <2>1
       DEF HandleEndOfQuery, HandlersTold, Told, ThreadsTypeOK, clientVars
  <2> QED BY <1>2, <2>2, DropFrame DEF HandleEndOfQuery, sessVars, clientVars
<1>3. CASE HandlerSendResult(w)
  <2> DEFINE q == handler[w].query
  <2>1. q \in Queries /\ qc[q] # "none" /\ UNCHANGED qc
    BY <1>3 DEF HandlerSendResult, HandlersTold
  <2>2. /\ \A r \in Queries : Told(r) => Told(r)'
        /\ \/ handler' = [handler EXCEPT ![w].at = "free_worker"] /\ Told(q)'
           \/ handler' = [handler EXCEPT ![w].at = "poll"]
    <3>1. CASE SendResult(q, handler[w].msg.op)
               /\ handler' = [handler EXCEPT ![w].at = "free_worker"]
      BY <1>0, <2>1, <3>1, SendingTells
    <3>2. CASE UNCHANGED results /\ handler' = [handler EXCEPT ![w].at = "poll"]
      BY <2>1, <3>2 DEF Told
    <3> QED BY <1>3, <3>1, <3>2 DEF HandlerSendResult
  <2>3. HandlersTold'
    <3> SUFFICES ASSUME NEW x \in Workers
                 PROVE  /\ handler'[x].at = "send" =>
                             /\ handler'[x].query \in Queries
                             /\ qc'[handler'[x].query] # "none"
                        /\ handler'[x].at \in {"free_worker", "remove_session"} =>
                             /\ handler'[x].query \in Queries
                             /\ results'[handler'[x].query] # <<>>
                                  \/ qc'[handler'[x].query] = "gone"
      BY DEF HandlersTold, Told
    <3>1. CASE x = w
      BY <1>0, <2>1, <2>2, <3>1 DEF Told, ThreadsTypeOK, HandlerState
    <3>2. CASE x # w
      <4>1. handler'[x] = handler[x]
        BY <1>0, <2>2, <3>2 DEF ThreadsTypeOK
      <4> QED BY <2>1, <2>2, <4>1 DEF HandlersTold, Told
    <3> QED BY <3>1, <3>2
  <2>4. UNCHANGED <<next_query_id, query_sessions, monitor>>
    BY <1>3 DEF HandlerSendResult, sessVars
  <2>5. MonitorTold'
    BY <1>0, <2>1, <2>2, <2>4 DEF MonitorTold, ThreadsTypeOK, MonitorState
  <2>6. NoSilentDrop'
    BY <1>0, <2>2, <2>4, StillTold
  <2> QED BY <2>1, <2>3, <2>4, <2>5, <2>6, DropFrame
<1>4. CASE HandlerFreeWorker(w)
  <2>1. HandlersTold'
    BY <1>0, <1>4
       DEF HandlerFreeWorker, HandlersTold, Told, ThreadsTypeOK, clientVars
  <2> QED BY <1>4, <2>1, DropFrame DEF HandlerFreeWorker, sessVars, clientVars
<1>5. CASE HandlerRemoveSession(w)
  <2>1. HandlersTold'
    BY <1>1, <1>5 DEF HandlerRemoveSession, clientVars
  <2>2. ClientsKnown' /\ NoSilentDrop'
    BY <1>5 DEF HandlerRemoveSession, ClientsKnown, NoSilentDrop, HandlersTold, Told,
       clientVars
  <2> QED BY <1>5, <2>1, <2>2, DropFrame DEF HandlerRemoveSession, clientVars
<1>6. CASE HandleEvictAck(w)
  <2>1. HandlersTold'
    BY <1>0, <1>6
       DEF HandleEvictAck, HandlersTold, Told, ThreadsTypeOK, clientVars
  <2> QED BY <1>6, <2>1, DropFrame DEF HandleEvictAck, sessVars, clientVars
<1>7. CASE \/ Register(w) \/ HandlerApplyAck(w) \/ HandlerAckWorker(w)
           \/ HandlerEnds(w) \/ HandlerEndsAtPeek(w)
  <2>1. /\ UNCHANGED <<next_query_id, query_sessions, monitor, results, qc>>
        /\ \E at \in {"poll", "ack_worker", "ended"} :
             handler' = [handler EXCEPT ![w].at = at]
    BY <1>7 DEF Register, HandlerApplyAck, HandlerAckWorker, HandlerEnds,
       HandlerEndsAtPeek, sessVars, clientVars
  <2> QED BY <1>1, <2>1, DropFrame
<1> QED BY <1>2, <1>3, <1>4, <1>5, <1>6, <1>7 DEF HandlerStep

LEMMA MonitorDrop ==
  ASSUME CoreTypeInv, DropInv, MonitorStep
  PROVE  DropInv'
<1> USE DEF DropInv
<1>0. /\ CoreTypeOK /\ SessionsTypeOK /\ ThreadsTypeOK
      /\ monitor \in MonitorState /\ NoQuery \notin Queries
  BY DEF CoreTypeInv, CoreTypeOK, ThreadsTypeOK, NoQuery, Queries
<1>1. ASSUME NEW w \in Workers, MonitorPick(w) PROVE DropInv'
  <2>1. MonitorTold'
    BY <1>1 DEF MonitorPick, MonitorTold
  <2> QED BY <1>1, <2>1, DropFrame DEF MonitorPick, sessVars, clientVars
<1>2. CASE MonitorCheck
  <2>1. MonitorTold'
    BY <1>0, <1>2 DEF MonitorCheck, MonitorTold, MonitorState, clientVars
  <2> QED BY <1>2, <2>1, DropFrame DEF MonitorCheck, sessVars, clientVars
<1>3. CASE MonitorFindQuery
  <2>1. \A q \in ActiveOn(monitor.worker) : q \in Queries /\ qc[q] # "none"
    BY <1>0 DEF ActiveOn, SessionsTypeOK, ClientsKnown
  <2>2. MonitorTold'
    BY <1>0, <1>3, <2>1 DEF MonitorFindQuery, MonitorTold, MonitorState, clientVars
  <2> QED BY <1>3, <2>2, DropFrame DEF MonitorFindQuery, sessVars, clientVars
<1>4. CASE MonitorRemoveWorker
  <2>1. MonitorTold'
    BY <1>0, <1>4 DEF MonitorRemoveWorker, MonitorTold, MonitorState, clientVars
  <2> QED BY <1>4, <2>1, DropFrame DEF MonitorRemoveWorker, sessVars, clientVars
<1>5. CASE MonitorSendError
  <2>0. PICK q \in Queries : q = monitor.query
    BY <1>0, <1>5 DEF MonitorSendError, MonitorTold, MonitorState
  <2>1. /\ qc[q] # "none" /\ SendResult(q, "ERROR") /\ UNCHANGED qc
        /\ UNCHANGED <<next_query_id, query_sessions, handler>>
    BY <1>0, <1>5, <2>0 DEF MonitorSendError, MonitorTold, MonitorState, sessVars
  <2>2. Told(q)' /\ \A r \in Queries : Told(r) => Told(r)'
    <3>1. PICK text : SendResult(q, text)
      BY <2>1
    <3> QED BY <1>0, <2>1, <3>1, SendingTells
  <2>3. MonitorTold'
    <3>1. monitor'.query = q /\ monitor'.at = "close_session" /\ q # NoQuery
      BY <1>0, <1>5, <2>0 DEF MonitorSendError, MonitorState
    <3> QED BY <2>1, <2>2, <3>1 DEF MonitorTold, Told
  <2>4. HandlersTold'
    BY <2>1, <2>2 DEF HandlersTold, Told
  <2>5. NoSilentDrop'
    BY <1>0, <2>1, <2>2, StillTold
  <2> QED BY <2>1, <2>3, <2>4, <2>5, DropFrame
<1>6. CASE MonitorCloseSession
  <2>1. ClientsKnown' /\ NoSilentDrop'
    BY <1>6 DEF MonitorCloseSession, ClientsKnown, NoSilentDrop, MonitorTold, Told,
       clientVars
  <2>2. MonitorTold'
    BY <1>6 DEF MonitorCloseSession, MonitorTold
  <2> QED BY <1>6, <2>1, <2>2, DropFrame DEF MonitorCloseSession, clientVars
<1> QED BY <1>1, <1>2, <1>3, <1>4, <1>5, <1>6 DEF MonitorStep

\* No step of the core drops a session silently.
LEMMA DropStep == CoreTypeInv /\ DropInv /\ CoreNext => DropInv'
<1> SUFFICES ASSUME CoreTypeInv, DropInv, CoreNext PROVE DropInv'
  OBVIOUS
<1>1. ASSUME NEW w \in Workers, Watchdog(w) \/ EvictDeadline(w) PROVE DropInv'
  BY <1>1, DropStutters DEF Watchdog, EvictDeadline, sessVars, clientVars
<1>2. ASSUME NEW w \in Workers,
             WorkerReceive(w) \/ WorkerYields(w) \/ WorkerStep(w) \/ WorkerCrash(w)
      PROVE  DropInv'
  BY <1>2, DropStutters
     DEF WorkerReceive, WorkerYields, WorkerStep, WorkerCrash, sessVars, clientVars
<1> QED BY <1>1, <1>2, QueryControlDrop, HandlerDrop, MonitorDrop DEF CoreNext

-----------------------------------------------------------------------------
(***************************************************************************)
(* How many messages of a kind the channels hold                           *)
(***************************************************************************)
\* No message of M, and at most one, in the channels f, one per Worker.
Absent(f, M) == \A w \in Workers : \A i \in 1 .. Len(f[w]) : f[w][i] \notin M
Single(f, M) ==
  \A u, w \in Workers : \A i \in 1 .. Len(f[u]), j \in 1 .. Len(f[w]) :
    f[u][i] \in M /\ f[w][j] \in M => u = w /\ i = j
Kind(op, q) == {m \in Msg : m.op = op /\ m.query = q}
KindAt(op, q, v) == {m \in Kind(op, q) : m.version = v}

\* How a channel changes: its first message is read, or made unreadable; e is
\* added.
Taken(f, g, w) == f[w] # <<>> /\ g = [f EXCEPT ![w] = Tail(@)]
Spoilt(f, g, w) == f[w] # <<>> /\ g = [f EXCEPT ![w] = <<Junk>> \o Tail(@)]
Added(f, g, w, e) == g = [f EXCEPT ![w] = Append(@, e)]
\* In w's channel only, the messages of M are those of f after the first, moved
\* by d places.
WithoutFirst(f, g, w, d, M) ==
  /\ Len(f[w]) \in Nat /\ Len(f[w]) >= 1 /\ Head(f[w]) = f[w][1]
  /\ \A u \in Workers \ {w} : g[u] = f[u]
  /\ \A i \in 1 .. Len(g[w]) :
       g[w][i] \in M => i + d \in 2 .. Len(f[w]) /\ g[w][i] = f[w][i + d]

LEMMA AbsentIsSingle == \A f, M : Absent(f, M) => Single(f, M)
BY DEF Absent, Single

\* The messages of a larger kind are at least as many.
LEMMA SmallerKind ==
  ASSUME NEW f, NEW M, NEW K \in SUBSET M
  PROVE  /\ Absent(f, M) => Absent(f, K)
         /\ Single(f, M) => Single(f, K)
BY DEF Absent, Single

LEMMA FirstGoes ==
  ASSUME NEW f, NEW g, NEW M, NEW w \in Workers, NEW d \in Nat, WithoutFirst(f, g, w, d, M)
  PROVE  /\ Absent(f, M) => Absent(g, M)
         /\ Single(f, M) => Single(g, M)
         /\ Single(f, M) /\ Head(f[w]) \in M => Absent(g, M)
<1>1. ASSUME NEW u \in Workers, NEW i \in 1 .. Len(g[u]), g[u][i] \in M
      PROVE  LET j == IF u = w THEN i + d ELSE i IN
             /\ j \in 1 .. Len(f[u]) /\ f[u][j] = g[u][i]
             /\ u = w => j # 1
  BY <1>1 DEF WithoutFirst
<1>2. Absent(f, M) => Absent(g, M)
  BY <1>1 DEF Absent
<1>3. ASSUME Single(f, M), NEW u \in Workers, NEW v \in Workers,
             NEW i \in 1 .. Len(g[u]), NEW j \in 1 .. Len(g[v]),
             g[u][i] \in M, g[v][j] \in M
      PROVE  u = v /\ i = j
  <2>1. PICK k \in 1 .. Len(f[u]) :
          f[u][k] \in M /\ k = IF u = w THEN i + d ELSE i
    BY <1>1, <1>3
  <2>2. PICK l \in 1 .. Len(f[v]) :
          f[v][l] \in M /\ l = IF v = w THEN j + d ELSE j
    BY <1>1, <1>3
  <2>3. u = v /\ k = l
    BY <1>3, <2>1, <2>2 DEF Single
  <2> QED BY <2>1, <2>2, <2>3 DEF WithoutFirst
<1>4. ASSUME Single(f, M), Head(f[w]) \in M,
             NEW u \in Workers, NEW i \in 1 .. Len(g[u]), g[u][i] \in M
      PROVE  FALSE
  <2>1. 1 \in 1 .. Len(f[w]) /\ f[w][1] \in M
    BY <1>4 DEF WithoutFirst
  <2> QED BY <1>1, <1>4, <2>1 DEF Single
<1> QED BY <1>2, <1>3, <1>4 DEF Single, Absent

\* It is read: what is left of a kind is at most what there was, and none if it
\* was the only one.
LEMMA FirstIsTaken ==
  ASSUME NEW f \in [Workers -> Seq(Msg)], NEW w \in Workers, NEW M,
         NEW g, Taken(f, g, w)
  PROVE  /\ Absent(f, M) => Absent(g, M)
         /\ Single(f, M) => Single(g, M)
         /\ Single(f, M) /\ Head(f[w]) \in M => Absent(g, M)
<1>1. /\ f[w] \in Seq(Msg) /\ Len(f[w]) \in Nat /\ Len(f[w]) >= 1
      /\ Head(f[w]) = f[w][1]
      /\ Len(Tail(f[w])) = Len(f[w]) - 1
      /\ \A i \in 1 .. Len(f[w]) - 1 : Tail(f[w])[i] = f[w][i + 1]
  BY HeadTailProperties, LenProperties, EmptySeq DEF Taken
<1>2. g[w] = Tail(f[w]) /\ \A u \in Workers \ {w} : g[u] = f[u]
  BY DEF Taken
<1>3. \A i \in 1 .. Len(g[w]) : i + 1 \in 2 .. Len(f[w]) /\ g[w][i] = f[w][i + 1]
  BY <1>1, <1>2
<1>4. WithoutFirst(f, g, w, 1, M)
  BY <1>1, <1>2, <1>3 DEF WithoutFirst
<1> QED BY <1>4, FirstGoes

\* It is spoilt.
LEMMA FirstIsSpoilt ==
  ASSUME NEW f \in [Workers -> Seq(Msg)], NEW w \in Workers, NEW M, Junk \notin M,
         NEW g, Spoilt(f, g, w)
  PROVE  /\ Absent(f, M) => Absent(g, M)
         /\ Single(f, M) => Single(g, M)
<1>1. /\ f[w] \in Seq(Msg) /\ Len(f[w]) \in Nat /\ Len(f[w]) >= 1
      /\ Head(f[w]) = f[w][1]
      /\ Tail(f[w]) \in Seq(Msg) /\ Len(Tail(f[w])) = Len(f[w]) - 1
      /\ \A i \in 1 .. Len(f[w]) - 1 : Tail(f[w])[i] = f[w][i + 1]
  BY HeadTailProperties, LenProperties, EmptySeq DEF Spoilt
<1>2. g[w] = <<Junk>> \o Tail(f[w]) /\ \A u \in Workers \ {w} : g[u] = f[u]
  BY DEF Spoilt
<1>3. /\ Len(g[w]) = Len(f[w]) /\ g[w][1] = Junk
      /\ \A i \in 2 .. Len(f[w]) : g[w][i] = Tail(f[w])[i - 1]
  BY <1>1, <1>2, ConcatProperties
<1>4. \A i \in 2 .. Len(f[w]) : g[w][i] = f[w][i]
  BY <1>1, <1>3
<1>5. \A i \in 1 .. Len(g[w]) :
        g[w][i] \in M => i + 0 \in 2 .. Len(f[w]) /\ g[w][i] = f[w][i + 0]
  BY <1>1, <1>3, <1>4
<1>6. WithoutFirst(f, g, w, 0, M)
  BY <1>1, <1>2, <1>5 DEF WithoutFirst
<1> QED BY <1>6, FirstGoes

\* A message is added to a channel.
LEMMA LastComes ==
  ASSUME NEW f \in [Workers -> Seq(Msg)], NEW w \in Workers, NEW e \in Msg, NEW M,
         NEW g, Added(f, g, w, e)
  PROVE  /\ Absent(f, M) => Single(g, M)
         /\ e \notin M => /\ Absent(f, M) => Absent(g, M)
                          /\ Single(f, M) => Single(g, M)
<1>1. /\ f[w] \in Seq(Msg) /\ Len(f[w]) \in Nat /\ g[w] = Append(f[w], e)
      /\ \A u \in Workers \ {w} : g[u] = f[u]
  BY LenProperties DEF Added
<1>2. /\ Len(g[w]) = Len(f[w]) + 1
      /\ \A i \in 1 .. Len(f[w]) : g[w][i] = f[w][i]
      /\ g[w][Len(f[w]) + 1] = e
  BY <1>1, AppendProperties
<1>3. ASSUME NEW u \in Workers, NEW i \in 1 .. Len(g[u]), g[u][i] \in M
      PROVE  \/ i \in 1 .. Len(f[u]) /\ f[u][i] = g[u][i]
             \/ u = w /\ i = Len(f[w]) + 1 /\ e \in M
  <2>1. CASE u # w
    BY <1>1, <1>3, <2>1
  <2>2. CASE u = w
    <3>1. i \in 1 .. Len(f[w]) + 1
      BY <1>2, <1>3, <2>2
    <3>2. i \in 1 .. Len(f[w]) \/ i = Len(f[w]) + 1
      BY <1>1, <3>1
    <3> QED BY <1>2, <1>3, <2>2, <3>2
  <2> QED BY <2>1, <2>2
<1>4. Absent(f, M) => Single(g, M)
  BY <1>3 DEF Single, Absent
<1>5. e \notin M /\ Absent(f, M) => Absent(g, M)
  BY <1>3 DEF Absent
<1>6. e \notin M /\ Single(f, M) => Single(g, M)
  BY <1>3 DEF Single
<1> QED BY <1>4, <1>5, <1>6

\* What the check before an instruction swallows.
LEMMA SwallowsOnly ==
  ASSUME to_worker \in [Workers -> Seq(Msg)], NEW w \in Workers, CheckSwallows(w),
         NEW M, Junk \notin M
  PROVE  /\ Absent(to_worker, M) => Absent(to_worker', M)
         /\ Single(to_worker, M) => Single(to_worker', M)
<1>1. \/ UNCHANGED to_worker
      \/ Taken(to_worker, to_worker', w)
      \/ Spoilt(to_worker, to_worker', w)
  BY DEF CheckSwallows, Taken, Spoilt
<1> QED BY <1>1, FirstIsTaken, FirstIsSpoilt

\* An element of a set of at most one.
LEMMA AtMostOne ==
  ASSUME NEW S, \A x, y \in S : x = y
  PROVE  Cardinality(S) \in {0, 1} /\ (S = {} => Cardinality(S) = 0)
<1>1. CASE S = {}
  BY <1>1, FS_EmptySet
<1>2. ASSUME NEW x \in S PROVE Cardinality(S) = 1 /\ S # {}
  <2>1. S = {x}
    OBVIOUS
  <2> QED BY <2>1, FS_Singleton
<1> QED BY <1>1, <1>2

\* The messages Carrying collects.
LEMMA CarriedOnce ==
  ASSUME NEW f \in [Workers -> Seq(Msg)], NEW op, NEW q, NEW v,
         Single(f, KindAt(op, q, v))
  PROVE  /\ Cardinality(Carrying(f, op, q, v)) \in {0, 1}
         /\ Absent(f, KindAt(op, q, v)) => Cardinality(Carrying(f, op, q, v)) = 0
<1> DEFINE S == Carrying(f, op, q, v)
<1>1. ASSUME NEW x \in S
      PROVE  \E w \in Workers : \E i \in 1 .. Len(f[w]) :
               x = <<w, i>> /\ f[w][i] \in KindAt(op, q, v)
  <2>1. PICK w \in Workers : x \in {w} \X DOMAIN f[w]
    BY DEF Carrying
  <2>2. PICK i \in DOMAIN f[w] : x = <<w, i>>
    BY <2>1
  <2>3. i \in 1 .. Len(f[w]) /\ f[w][i] \in Msg
    BY <2>2, LenProperties, ElementOfSeq
  <2>4. x[1] = w /\ x[2] = i
    BY <2>2
  <2>5. f[w][i].op = op /\ f[w][i].query = q /\ f[w][i].version = v
    BY <2>4 DEF Carrying
  <2> QED BY <2>2, <2>3, <2>5 DEF KindAt, Kind
<1>2. \A x, y \in S : x = y
  BY <1>1 DEF Single
<1>3. Absent(f, KindAt(op, q, v)) => S = {}
  BY <1>1 DEF Absent
<1> HIDE DEF S
<1>4. Cardinality(S) \in {0, 1} /\ (S = {} => Cardinality(S) = 0)
  BY <1>2, AtMostOne
<1> QED BY <1>3, <1>4 DEF S
-----------------------------------------------------------------------------
(***************************************************************************)
(* Copies of a query: the PATHs on their way and the Workers that run it   *)
(***************************************************************************)
Runs(w, q) == wproc[w].state = "running" /\ wproc[w].query = q
NoCopy(q) == Absent(to_worker, Kind("PATH", q)) /\ \A w \in Workers : ~Runs(w, q)
OneCopy(q) ==
  /\ Single(to_worker, Kind("PATH", q))
  /\ \A u, w \in Workers : Runs(u, q) /\ Runs(w, q) => u = w
  /\ Absent(to_worker, Kind("PATH", q)) \/ \A w \in Workers : ~Runs(w, q)

\* What a step only removes, or leaves alone.
LEMMA FewerCopies ==
  ASSUME NEW q, \A w \in Workers : Runs(w, q)' => Runs(w, q),
         Absent(to_worker, Kind("PATH", q)) => Absent(to_worker', Kind("PATH", q)),
         Single(to_worker, Kind("PATH", q)) => Single(to_worker', Kind("PATH", q))
  PROVE  /\ OneCopy(q) => OneCopy(q)'
         /\ NoCopy(q) => NoCopy(q)'
BY DEF OneCopy, NoCopy

\* No step of the core makes a second copy of a query, nor a first one: only a
\* scheduler does.
LEMMA CoreCopies ==
  ASSUME CoreTypeInv, CoreNext, NEW q \in Queries
  PROVE  /\ OneCopy(q) => OneCopy(q)'
         /\ NoCopy(q) => NoCopy(q)'
<1> DEFINE M == Kind("PATH", q)
<1>0. /\ to_worker \in [Workers -> Seq(Msg)] /\ wproc \in [Workers -> WorkerProc]
      /\ Junk \notin M
  BY DEF CoreTypeInv, CoreTypeOK, NetTypeOK, ProcessesTypeOK, Kind, Junk
<1> HIDE DEF M
<1>1. ASSUME \A w \in Workers : Runs(w, q)' => Runs(w, q), UNCHANGED to_worker
      PROVE  (OneCopy(q) => OneCopy(q)') /\ (NoCopy(q) => NoCopy(q)')
  BY <1>1, FewerCopies
<1>2. CASE UNCHANGED <<to_worker, wproc>>
  BY <1>1, <1>2 DEF Runs
<1>3. ASSUME NEW w \in Workers, Register(w) \/ WorkerCrash(w)
      PROVE  (OneCopy(q) => OneCopy(q)') /\ (NoCopy(q) => NoCopy(q)')
  <2>1. UNCHANGED to_worker /\ wproc'[w].state \in {"idle", "crashed"}
        /\ \A u \in Workers \ {w} : wproc'[u] = wproc[u]
    BY <1>0, <1>3 DEF Register, WorkerCrash, netVars, WorkerProc
  <2> QED BY <1>1, <2>1 DEF Runs
<1>4. ASSUME NEW w \in Workers, WorkerYields(w)
      PROVE  (OneCopy(q) => OneCopy(q)') /\ (NoCopy(q) => NoCopy(q)')
  <2>1. \A u \in Workers : Runs(u, q)' => Runs(u, q)
    BY <1>0, <1>4 DEF WorkerYields, Runs
  <2>2. Taken(to_worker, to_worker', w)
    BY <1>4 DEF WorkerYields, EvictPending, Taken
  <2> QED BY <1>0, <2>1, <2>2, FirstIsTaken, FewerCopies DEF M
<1>5. ASSUME NEW w \in Workers, WorkerStep(w)
      PROVE  (OneCopy(q) => OneCopy(q)') /\ (NoCopy(q) => NoCopy(q)')
  <2>1. \A u \in Workers : Runs(u, q)' => Runs(u, q)
    BY <1>0, <1>5 DEF WorkerStep, Runs, WorkerProc
  <2>2. CheckSwallows(w)
    BY <1>5 DEF WorkerStep
  <2> QED BY <1>0, <2>1, <2>2, SwallowsOnly, FewerCopies DEF M
<1>6. ASSUME NEW w \in Workers, WorkerReceive(w)
      PROVE  (OneCopy(q) => OneCopy(q)') /\ (NoCopy(q) => NoCopy(q)')
  <2>1. Taken(to_worker, to_worker', w) /\ wproc[w].state = "idle"
    BY <1>6 DEF WorkerReceive, Taken
  <2>2. Head(to_worker[w]) \in Msg /\ \A u \in Workers \ {w} : wproc'[u] = wproc[u]
    BY <1>0, <1>6, FirstMessage DEF WorkerReceive, Taken
  <2>3. CASE Head(to_worker[w]) \in M
    <3>1. Single(to_worker, M) => Absent(to_worker', M)
      BY <1>0, <2>1, <2>3, FirstIsTaken
    <3>2. ~Absent(to_worker, M)
      <4>1. 1 \in 1 .. Len(to_worker[w]) /\ Head(to_worker[w]) = to_worker[w][1]
        BY <1>0, <2>1, LenProperties, EmptySeq, HeadTailProperties DEF Taken
      <4> QED BY <2>3, <4>1 DEF Absent
    <3>3. ASSUME OneCopy(q) PROVE OneCopy(q)'
      <4>1. Absent(to_worker', M) /\ \A u \in Workers : ~Runs(u, q)
        BY <3>1, <3>2, <3>3 DEF OneCopy, M
      <4>2. \A u \in Workers : Runs(u, q)' => u = w
        BY <2>2, <4>1 DEF Runs
      <4> QED BY <4>1, <4>2, AbsentIsSingle DEF OneCopy, M
    <3> QED BY <3>2, <3>3 DEF NoCopy, M
  <2>4. CASE Head(to_worker[w]) \notin M
    <3>1. ~Runs(w, q)'
      BY <1>0, <1>6, <2>1, <2>2, <2>4 DEF WorkerReceive, Runs, M, Kind
    <3>2. \A u \in Workers : Runs(u, q)' => Runs(u, q)
      BY <2>2, <3>1 DEF Runs
    <3> QED BY <1>0, <2>1, <3>2, FirstIsTaken, FewerCopies DEF M
  <2> QED BY <2>3, <2>4
<1> QED
  BY <1>2, <1>3, <1>4, <1>5, <1>6
     DEF CoreNext, Submit, Confirm, ConfirmFails, QueryControlLeaves, HandlerStep,
         HandleEndOfQuery, HandlerSendResult, HandlerFreeWorker, HandlerApplyAck,
         HandlerRemoveSession, HandleEvictAck, HandlerAckWorker, HandlerEnds,
         HandlerEndsAtPeek, Watchdog, EvictDeadline, MonitorStep, MonitorPick,
         MonitorCheck, MonitorFindQuery, MonitorRemoveWorker, MonitorSendError,
         MonitorCloseSession, netVars
-----------------------------------------------------------------------------
(***************************************************************************)
(* Errors                                                                  *)
(***************************************************************************)
\* The strengthening of NoSpuriousError: a Worker that ended stays so, since it
\* registers once; whoever is about to report an error got it from a Worker, or
\* found one that ended.
SomeoneEnded == \E w \in Workers : Closed(w)
Failing == {m \in Msg : m.op = "ERROR"}
NobodyFails ==
  /\ Absent(to_master, Failing)
  /\ \A w \in Workers : handler[w].at = "send" => handler[w].msg.op # "ERROR"
MonitorFoundEnd ==
  /\ monitor.at = "check" => monitor.worker \in Workers
  /\ monitor.at \in {"find", "remove_worker", "send_error"} => SomeoneEnded
AcceptedOnce == \A w \in Workers : handler[w].at = "accept" => wproc[w].state = "off"
NoErrorYet == \A q \in Queries : \A i \in DOMAIN results[q] : results[q][i] # "ERROR"
ErrorInv ==
  /\ "query_error" \notin Faults => NobodyFails
  /\ MonitorFoundEnd
  /\ AcceptedOnce
  /\ NoErrorYet \/ "query_error" \in Faults \/ SomeoneEnded

LEMMA ErrorInit == CoreInit => ErrorInv
BY DEF CoreInit, ErrorInv, NobodyFails, Absent, MonitorFoundEnd, AcceptedOnce, NoErrorYet

LEMMA ErrorMeans == ErrorInv => NoSpuriousError
BY DEF ErrorInv, NoErrorYet, SomeoneEnded, NoSpuriousError

\* What a step leaves alone.
LEMMA ErrorStutters ==
  ErrorInv /\ UNCHANGED <<to_master, handler, monitor, wproc, results>> => ErrorInv'
BY DEF ErrorInv, NobodyFails, Absent, MonitorFoundEnd, SomeoneEnded, Closed, AcceptedOnce,
   NoErrorYet

\* Only these steps concern a Worker's process.
LEMMA WorkerLife ==
  ASSUME CoreTypeInv, AcceptedOnce, CoreNext
  PROVE  /\ AcceptedOnce'
         /\ \A w \in Workers : Closed(w) => Closed(w)'
<1>0. /\ handler \in [Workers -> HandlerState] /\ wproc \in [Workers -> WorkerProc]
  BY DEF CoreTypeInv, CoreTypeOK, ThreadsTypeOK, ProcessesTypeOK
<1>1. ASSUME NEW w \in Workers, Register(w)
      PROVE  AcceptedOnce' /\ \A u \in Workers : Closed(u) => Closed(u)'
  BY <1>0, <1>1 DEF Register, AcceptedOnce, Closed, HandlerState, WorkerProc
<1>2. ASSUME NEW w \in Workers,
             WorkerReceive(w) \/ WorkerYields(w) \/ WorkerStep(w) \/ WorkerCrash(w)
      PROVE  AcceptedOnce' /\ \A u \in Workers : Closed(u) => Closed(u)'
  <2>1. /\ wproc[w].state \in {"idle", "running"} /\ UNCHANGED handler
        /\ \A u \in Workers \ {w} : wproc'[u] = wproc[u]
    BY <1>0, <1>2 DEF WorkerReceive, WorkerYields, WorkerStep, WorkerCrash
  <2> QED BY <2>1 DEF AcceptedOnce, Closed
<1>3. ASSUME NEW w \in Workers, HandlerStep(w)
      PROVE  AcceptedOnce' /\ \A u \in Workers : Closed(u) => Closed(u)'
  <2>1. /\ UNCHANGED wproc /\ \A u \in Workers : handler'[u].at = "accept" => handler[u].at = "accept"
    BY <1>0, <1>3
       DEF HandlerStep, HandleEndOfQuery, HandlerSendResult, HandlerFreeWorker,
           HandlerApplyAck, HandlerRemoveSession, HandleEvictAck, HandlerAckWorker,
           HandlerEnds, HandlerEndsAtPeek, HandlerState
  <2> QED BY <2>1 DEF AcceptedOnce, Closed
<1>4. CASE UNCHANGED <<wproc, handler>>
  BY <1>4 DEF AcceptedOnce, Closed
<1> QED
  BY <1>1, <1>2, <1>3, <1>4
     DEF CoreNext, Submit, Confirm, ConfirmFails, QueryControlLeaves, Watchdog,
         EvictDeadline, MonitorStep, MonitorPick, MonitorCheck, MonitorFindQuery,
         MonitorRemoveWorker, MonitorSendError, MonitorCloseSession

\* Only an instruction that fails makes an ERROR.
LEMMA FailuresStep ==
  ASSUME CoreTypeInv, "query_error" \notin Faults, NobodyFails, CoreNext
  PROVE  NobodyFails'
<1>0. /\ handler \in [Workers -> HandlerState] /\ wproc \in [Workers -> WorkerProc]
      /\ to_master \in [Workers -> Seq(Msg)] /\ to_worker \in [Workers -> Seq(Msg)]
  BY DEF CoreTypeInv, CoreTypeOK, ThreadsTypeOK, ProcessesTypeOK, NetTypeOK
<1>1. ASSUME NEW w \in Workers, NEW m \in Msg, m.op # "ERROR",
             Added(to_master, to_master', w, m), UNCHANGED handler
      PROVE  NobodyFails'
  <2>1. m \notin Failing
    BY <1>1 DEF Failing
  <2>2. Absent(to_master', Failing)
    BY <1>0, <1>1, <2>1, LastComes DEF NobodyFails
  <2> QED BY <1>1, <2>2 DEF NobodyFails
<1>2. ASSUME NEW w \in Workers, WorkerYields(w) PROVE NobodyFails'
  <2> DEFINE m == Ack(wproc[w].query, wproc[w].pc, Head(to_worker[w]).version)
  <2>1. m \in Msg /\ m.op # "ERROR"
    BY <1>0, <1>2, FirstMessage, Messages DEF WorkerYields, EvictPending, WorkerProc, Ack
  <2>2. Added(to_master, to_master', w, m) /\ UNCHANGED handler
    BY <1>2 DEF WorkerYields, Added
  <2> HIDE DEF m
  <2> QED BY <1>1, <2>1, <2>2
<1>3. ASSUME NEW w \in Workers, WorkerStep(w) PROVE NobodyFails'
  <2> DEFINE m == Finished(wproc[w].query)
  <2>1. m \in Msg /\ m.op # "ERROR"
    BY <1>0, Messages DEF WorkerProc, Finished
  <2>2. UNCHANGED to_master \/ Added(to_master, to_master', w, m)
    BY <1>3 DEF WorkerStep, Tell, Added
  <2>3. UNCHANGED handler
    BY <1>3 DEF WorkerStep
  <2> HIDE DEF m
  <2> QED BY <1>1, <2>1, <2>2, <2>3 DEF NobodyFails
<1>4. ASSUME NEW w \in Workers, HandleEndOfQuery(w) \/ HandleEvictAck(w)
      PROVE  NobodyFails'
  <2>1. Taken(to_master, to_master', w)
    BY <1>4 DEF HandleEndOfQuery, HandleEvictAck, Incoming, Taken
  <2>2. Absent(to_master', Failing)
    BY <1>0, <2>1, FirstIsTaken DEF NobodyFails
  <2>3. Head(to_master[w]).op # "ERROR"
    <3>1. /\ 1 \in 1 .. Len(to_master[w]) /\ Head(to_master[w]) = to_master[w][1]
          /\ Head(to_master[w]) \in Msg
      BY <1>0, <2>1, LenProperties, EmptySeq, HeadTailProperties DEF Taken
    <3> QED BY <3>1 DEF NobodyFails, Absent, Failing
  <2>4. ASSUME NEW u \in Workers, handler'[u].at = "send"
        PROVE  handler'[u] = handler[u] \/ handler'[u].msg = Head(to_master[w])
    <3>1. CASE HandleEndOfQuery(w)
      <4>1. ASSUME NEW q, handler' = [handler EXCEPT ![w] =
                             [at |-> "send", query |-> q, msg |-> Head(to_master[w])]]
            PROVE  handler'[u] = handler[u] \/ handler'[u].msg = Head(to_master[w])
        BY <1>0, <4>1
      <4> QED BY <3>1, <4>1 DEF HandleEndOfQuery
    <3>2. CASE HandleEvictAck(w)
      BY <1>0, <2>4, <3>2 DEF HandleEvictAck
    <3> QED BY <1>4, <3>1, <3>2
  <2> QED BY <1>0, <2>2, <2>3, <2>4 DEF NobodyFails
<1>5. ASSUME NEW w \in Workers,
             \/ Register(w) \/ HandlerSendResult(w) \/ HandlerFreeWorker(w)
             \/ HandlerRemoveSession(w) \/ HandlerApplyAck(w) \/ HandlerAckWorker(w)
             \/ HandlerEnds(w) \/ HandlerEndsAtPeek(w)
      PROVE  NobodyFails'
  <2>1. UNCHANGED to_master
    BY <1>5 DEF Register, HandlerSendResult, HandlerFreeWorker, HandlerRemoveSession,
       HandlerApplyAck, HandlerAckWorker, HandlerEnds, HandlerEndsAtPeek, netVars
  <2>2. \A u \in Workers : handler'[u].at = "send" => handler'[u] = handler[u]
    BY <1>0, <1>5 DEF Register, HandlerSendResult, HandlerFreeWorker,
       HandlerRemoveSession, HandlerApplyAck, HandlerAckWorker, HandlerEnds,
       HandlerEndsAtPeek, HandlerState
  <2> QED BY <2>1, <2>2 DEF NobodyFails
<1>6. CASE UNCHANGED <<to_master, handler>>
  BY <1>6 DEF NobodyFails
<1> QED
  BY <1>2, <1>3, <1>4, <1>5, <1>6
     DEF CoreNext, HandlerStep, Submit, Confirm, ConfirmFails, QueryControlLeaves,
         Watchdog, EvictDeadline, WorkerReceive, WorkerCrash, MonitorStep, MonitorPick,
         MonitorCheck, MonitorFindQuery, MonitorRemoveWorker, MonitorSendError,
         MonitorCloseSession, netVars

\* No step of the core reports an error of nobody.
LEMMA ErrorStep == CoreTypeInv /\ ErrorInv /\ CoreNext => ErrorInv'
<1> SUFFICES ASSUME CoreTypeInv, ErrorInv, CoreNext PROVE ErrorInv'
  OBVIOUS
<1>1. AcceptedOnce' /\ (SomeoneEnded => SomeoneEnded')
  BY WorkerLife DEF ErrorInv, SomeoneEnded
<1>2. "query_error" \notin Faults => NobodyFails'
  BY FailuresStep DEF ErrorInv
<1>3. MonitorFoundEnd'
  <2>1. CASE UNCHANGED monitor
    BY <1>1, <2>1 DEF ErrorInv, MonitorFoundEnd
  <2>2. CASE MonitorStep
    <3>0. monitor \in MonitorState
      BY DEF CoreTypeInv, CoreTypeOK, ThreadsTypeOK
    <3>1. ASSUME NEW w \in Workers, MonitorPick(w) PROVE MonitorFoundEnd'
      BY <3>1 DEF MonitorPick, MonitorFoundEnd
    <3>2. CASE MonitorCheck
      <4>1. monitor.worker \in Workers
        BY <3>2 DEF MonitorCheck, ErrorInv, MonitorFoundEnd
      <4>2. CASE Disconnected(monitor.worker)
        <5>1. SomeoneEnded
          BY <4>1, <4>2 DEF Disconnected, SomeoneEnded
        <5>2. monitor'.at = "find"
          BY <3>0, <3>2, <4>2 DEF MonitorCheck, MonitorState
        <5> QED BY <1>1, <5>1, <5>2 DEF MonitorFoundEnd
      <4>3. CASE ~Disconnected(monitor.worker)
        BY <3>2, <4>3 DEF MonitorCheck, MonitorFoundEnd
      <4> QED BY <4>2, <4>3
    <3>3. CASE \/ MonitorFindQuery \/ MonitorRemoveWorker \/ MonitorSendError
               \/ MonitorCloseSession
      <4>1. /\ monitor'.at # "check"
            /\ monitor'.at \in {"find", "remove_worker", "send_error"} => SomeoneEnded
        <5>1. /\ monitor'.at \in {"remove_worker", "send_error", "close_session", "scan"}
              /\ monitor'.at \in {"remove_worker", "send_error"} =>
                   monitor.at \in {"find", "remove_worker"}
          <6>1. CASE MonitorFindQuery
            <7>1. ASSUME NEW q, monitor' = [monitor EXCEPT !.at = "remove_worker", !.query = q]
                  PROVE  monitor'.at = "remove_worker"
              BY <3>0, <7>1 DEF MonitorState
            <7>2. monitor'.at = "remove_worker" /\ monitor.at = "find"
              BY <3>0, <6>1, <7>1 DEF MonitorFindQuery, MonitorState
            <7> QED BY <7>2
          <6>3. CASE MonitorSendError
            BY <3>0, <6>3 DEF MonitorSendError, MonitorState
          <6>4. CASE MonitorCloseSession
            BY <6>4 DEF MonitorCloseSession
          <6>2. CASE MonitorRemoveWorker
            BY <3>0, <6>2 DEF MonitorRemoveWorker, MonitorState
          <6> QED BY <3>3, <6>1, <6>2, <6>3, <6>4
        <5> QED BY <5>1 DEF ErrorInv, MonitorFoundEnd
      <4> QED BY <1>1, <4>1 DEF MonitorFoundEnd
    <3> QED BY <2>2, <3>1, <3>2, <3>3 DEF MonitorStep
  <2> QED
    BY <2>1, <2>2
       DEF CoreNext, HandlerStep, Submit, Confirm, ConfirmFails, QueryControlLeaves,
           Register, HandleEndOfQuery, HandlerSendResult, HandlerFreeWorker,
           HandlerApplyAck, HandlerRemoveSession, HandleEvictAck, HandlerAckWorker,
           HandlerEnds, HandlerEndsAtPeek, Watchdog, EvictDeadline, WorkerReceive,
           WorkerYields, WorkerStep, WorkerCrash
<1>4. NoErrorYet' \/ "query_error" \in Faults \/ SomeoneEnded'
  <2> SUFFICES ASSUME "query_error" \notin Faults, ~SomeoneEnded PROVE NoErrorYet'
    BY <1>1
  <2>0. NoErrorYet /\ results \in [Queries -> Seq({"FINISHED", "ERROR"})]
    BY DEF ErrorInv, CoreTypeInv, CoreTypeOK, ClientsTypeOK
  <2>1. CASE UNCHANGED results
    BY <2>0, <2>1 DEF NoErrorYet
  <2>2. ASSUME NEW w \in Workers, HandlerSendResult(w) PROVE NoErrorYet'
    <3> DEFINE e == handler[w].msg.op
               p == handler[w].query
    <3>1. e \in {"FINISHED", "ERROR"} /\ e # "ERROR"
      BY <2>2 DEF HandlerSendResult, ErrorInv, NobodyFails, CoreTypeInv, SendsAnEnd
    <3>2. UNCHANGED results \/ results' = [results EXCEPT ![p] = Append(@, e)]
      BY <2>2 DEF HandlerSendResult, SendResult
    <3> HIDE DEF e, p
    <3>3. ASSUME NEW q \in Queries, results' = [results EXCEPT ![p] = Append(@, e)],
                 NEW i \in DOMAIN results'[q]
          PROVE  results'[q][i] # "ERROR"
      <4>1. CASE q # p
        BY <2>0, <3>3, <4>1 DEF NoErrorYet
      <4>2. CASE q = p
        <5>1. results[q] \in Seq({"FINISHED", "ERROR"}) /\ results'[q] = Append(results[q], e)
          BY <2>0, <3>3, <4>2
        <5>2. i \in 1 .. Len(results[q]) + 1 /\ Len(results[q]) \in Nat
          BY <3>1, <3>3, <5>1, AppendProperties, LenProperties
        <5>3. CASE i \in 1 .. Len(results[q])
          BY <2>0, <3>1, <5>1, <5>3, AppendProperties, LenProperties DEF NoErrorYet
        <5>4. CASE i = Len(results[q]) + 1
          BY <3>1, <5>1, <5>4, AppendProperties
        <5> QED BY <5>2, <5>3, <5>4
      <4> QED BY <4>1, <4>2
    <3> QED BY <2>1, <3>2, <3>3 DEF NoErrorYet
  <2>3. CASE MonitorSendError
    BY <2>3 DEF MonitorSendError, ErrorInv, MonitorFoundEnd
  <2> QED
    BY <2>1, <2>2, <2>3
       DEF CoreNext, HandlerStep, Submit, Confirm, ConfirmFails, QueryControlLeaves,
           Register, HandleEndOfQuery, HandlerFreeWorker, HandlerApplyAck,
           HandlerRemoveSession, HandleEvictAck, HandlerAckWorker, HandlerEnds,
           HandlerEndsAtPeek, Watchdog, EvictDeadline, WorkerReceive, WorkerYields,
           WorkerStep, WorkerCrash, MonitorStep, MonitorPick, MonitorCheck,
           MonitorFindQuery, MonitorRemoveWorker, MonitorCloseSession, clientVars
<1> QED BY <1>1, <1>2, <1>3, <1>4 DEF ErrorInv
-----------------------------------------------------------------------------
(***************************************************************************)
(* Tokens of an eviction                                                   *)
(***************************************************************************)
\* The EVICT and EVICT_ACK of version v of q, and the handlers that carry one
\* they have validated.
Evicts(q, v) == KindAt("EVICT", q, v)
Acks(q, v) == KindAt("EVICT_ACK", q, v)
Applies(w, q, v) ==
  handler[w].at = "apply_ack" /\ handler[w].query = q /\ handler[w].msg.version = v
NobodyApplies(q, v) == \A w \in Workers : ~Applies(w, q, v)
NoToken(q, v) ==
  Absent(to_worker, Evicts(q, v)) /\ Absent(to_master, Acks(q, v)) /\ NobodyApplies(q, v)
OneToken(q, v) ==
  /\ Single(to_worker, Evicts(q, v)) /\ Single(to_master, Acks(q, v))
  /\ \A u, w \in Workers : Applies(u, q, v) /\ Applies(w, q, v) => u = w
  /\ Absent(to_worker, Evicts(q, v)) \/ Absent(to_master, Acks(q, v))
  /\ Absent(to_worker, Evicts(q, v)) \/ NobodyApplies(q, v)
  /\ Absent(to_master, Acks(q, v)) \/ NobodyApplies(q, v)

\* What a step only removes, or leaves alone.
LEMMA FewerTokens ==
  ASSUME NEW q, NEW v,
         Absent(to_worker, Evicts(q, v)) => Absent(to_worker', Evicts(q, v)),
         Single(to_worker, Evicts(q, v)) => Single(to_worker', Evicts(q, v)),
         Absent(to_master, Acks(q, v)) => Absent(to_master', Acks(q, v)),
         Single(to_master, Acks(q, v)) => Single(to_master', Acks(q, v)),
         \A w \in Workers : Applies(w, q, v)' => Applies(w, q, v)
  PROVE  /\ OneToken(q, v) => OneToken(q, v)'
         /\ NoToken(q, v) => NoToken(q, v)'
BY DEF OneToken, NoToken, NobodyApplies

\* A channel whose first message is of a kind holds one of the kind.
LEMMA HeadPresent ==
  ASSUME NEW f \in [Workers -> Seq(Msg)], NEW w \in Workers, NEW M, NEW g, Taken(f, g, w),
         Head(f[w]) \in M
  PROVE  ~Absent(f, M)
<1>1. 1 \in 1 .. Len(f[w]) /\ Head(f[w]) = f[w][1]
  BY LenProperties, EmptySeq, HeadTailProperties DEF Taken
<1> QED BY <1>1 DEF Absent

\* The answer takes the place of the request.
LEMMA YieldingMoves ==
  ASSUME CoreTypeInv, NEW w \in Workers, WorkerYields(w), NEW q \in Queries, NEW v \in Nat
  PROVE  /\ OneToken(q, v) => OneToken(q, v)'
         /\ NoToken(q, v) => NoToken(q, v)'
<1> DEFINE h == Head(to_worker[w])
           m == Ack(wproc[w].query, wproc[w].pc, h.version)
           E == Evicts(q, v)
           A == Acks(q, v)
<1>1. /\ to_worker \in [Workers -> Seq(Msg)] /\ to_master \in [Workers -> Seq(Msg)]
      /\ wproc[w] \in WorkerProc
  BY DEF CoreTypeInv, CoreTypeOK, NetTypeOK, ProcessesTypeOK
<1>2. /\ Taken(to_worker, to_worker', w) /\ Added(to_master, to_master', w, m)
      /\ h.op = "EVICT" /\ h.query = wproc[w].query /\ UNCHANGED handler
  BY DEF WorkerYields, EvictPending, Taken, Added
<1>3. h \in Msg /\ h.version \in Nat
  BY <1>1, <1>2, FirstMessage DEF Taken
<1>4. /\ m \in Msg /\ m.op = "EVICT_ACK" /\ m.query = h.query /\ m.version = h.version
  BY <1>1, <1>2, <1>3, Messages DEF WorkerProc, Ack
<1>5. h \in E <=> m \in A
  BY <1>2, <1>3, <1>4 DEF Evicts, Acks, KindAt, Kind
<1>6. \A u \in Workers : Applies(u, q, v)' <=> Applies(u, q, v)
  BY <1>2 DEF Applies
<1> HIDE DEF h, m
<1>7. /\ Absent(to_worker, E) => Absent(to_worker', E)
      /\ Single(to_worker, E) => Single(to_worker', E)
  BY <1>1, <1>2, FirstIsTaken
<1>8. CASE m \notin A
  <2>1. /\ Absent(to_master, A) => Absent(to_master', A)
        /\ Single(to_master, A) => Single(to_master', A)
    BY <1>1, <1>2, <1>4, <1>8, LastComes
  <2> QED BY <1>6, <1>7, <2>1, FewerTokens
<1>9. CASE m \in A
  <2>1. ~Absent(to_worker, E) /\ (Single(to_worker, E) => Absent(to_worker', E))
    BY <1>1, <1>2, <1>5, <1>9, HeadPresent, FirstIsTaken DEF h
  <2>2. Absent(to_master, A) => Single(to_master', A)
    BY <1>1, <1>2, <1>4, LastComes
  <2>3. OneToken(q, v) => OneToken(q, v)'
    BY <1>6, <2>1, <2>2, AbsentIsSingle DEF OneToken, NobodyApplies
  <2> QED BY <2>1, <2>3 DEF NoToken
<1> QED BY <1>8, <1>9

\* The handler that validates an answer takes its place.
LEMMA ValidatingMoves ==
  ASSUME CoreTypeInv, NEW w \in Workers, HandleEvictAck(w), NEW q \in Queries, NEW v \in Nat
  PROVE  /\ OneToken(q, v) => OneToken(q, v)'
         /\ NoToken(q, v) => NoToken(q, v)'
<1> DEFINE h == Head(to_master[w])
           A == Acks(q, v)
<1>1. /\ to_master \in [Workers -> Seq(Msg)] /\ handler \in [Workers -> HandlerState]
  BY DEF CoreTypeInv, CoreTypeOK, NetTypeOK, ThreadsTypeOK
<1>2. /\ Taken(to_master, to_master', w) /\ h.op = "EVICT_ACK" /\ handler[w].at = "poll"
      /\ UNCHANGED to_worker
  BY DEF HandleEvictAck, Incoming, Taken
<1>3. h \in Msg
  BY <1>1, <1>2, FirstMessage DEF Taken
<1>4. \/ UNCHANGED handler
      \/ handler' = [handler EXCEPT ![w] = [at |-> "apply_ack", query |-> h.query, msg |-> h]]
  BY DEF HandleEvictAck
<1>5. /\ \A u \in Workers \ {w} : Applies(u, q, v)' => Applies(u, q, v)
      /\ Applies(w, q, v)' => h \in A
  BY <1>1, <1>2, <1>3, <1>4 DEF Applies, Acks, KindAt, Kind
<1> HIDE DEF h
<1>6. /\ Absent(to_master, A) => Absent(to_master', A)
      /\ Single(to_master, A) => Single(to_master', A)
  BY <1>1, <1>2, FirstIsTaken
<1>7. CASE h \notin A
  BY <1>2, <1>5, <1>6, <1>7, FewerTokens
<1>8. CASE h \in A
  <2>1. ~Absent(to_master, A) /\ (Single(to_master, A) => Absent(to_master', A))
    BY <1>1, <1>2, <1>8, HeadPresent, FirstIsTaken DEF h
  <2>2. ASSUME OneToken(q, v) PROVE OneToken(q, v)'
    <3>1. Absent(to_worker', Evicts(q, v)) /\ Absent(to_master', A) /\ NobodyApplies(q, v)
      BY <1>2, <2>1, <2>2 DEF OneToken
    <3>2. \A u \in Workers : Applies(u, q, v)' => u = w
      BY <1>5, <3>1 DEF NobodyApplies
    <3> QED BY <3>1, <3>2, AbsentIsSingle DEF OneToken
  <2> QED BY <2>1, <2>2 DEF NoToken
<1> QED BY <1>7, <1>8

\* No step of the core makes a second token of an eviction, nor a first one:
\* only the priority scheduler does.
LEMMA CoreTokens ==
  ASSUME CoreTypeInv, CoreNext, NEW q \in Queries, NEW v \in Nat
  PROVE  /\ OneToken(q, v) => OneToken(q, v)'
         /\ NoToken(q, v) => NoToken(q, v)'
<1> DEFINE E == Evicts(q, v)
           A == Acks(q, v)
           Goal == (OneToken(q, v) => OneToken(q, v)') /\ (NoToken(q, v) => NoToken(q, v)')
<1>0. /\ to_worker \in [Workers -> Seq(Msg)] /\ to_master \in [Workers -> Seq(Msg)]
      /\ handler \in [Workers -> HandlerState] /\ wproc \in [Workers -> WorkerProc]
      /\ Junk \notin E
  BY DEF CoreTypeInv, CoreTypeOK, NetTypeOK, ThreadsTypeOK, ProcessesTypeOK, Evicts,
     KindAt, Kind, Junk
<1> HIDE DEF E, A
<1>1. CASE UNCHANGED <<to_worker, to_master>> /\ \A w \in Workers : Applies(w, q, v)' => Applies(w, q, v)
  BY <1>1, FewerTokens DEF E, A
<1>2. CASE UNCHANGED <<to_worker, to_master, handler>>
  BY <1>1, <1>2 DEF Applies
<1>3. ASSUME NEW w \in Workers,
             \/ Register(w) \/ HandlerSendResult(w) \/ HandlerFreeWorker(w)
             \/ HandlerRemoveSession(w) \/ HandlerApplyAck(w) \/ HandlerAckWorker(w)
             \/ HandlerEnds(w) \/ HandlerEndsAtPeek(w)
      PROVE  Goal
  <2>1. UNCHANGED <<to_worker, to_master>>
    BY <1>3 DEF Register, HandlerSendResult, HandlerFreeWorker, HandlerRemoveSession,
       HandlerApplyAck, HandlerAckWorker, HandlerEnds, HandlerEndsAtPeek, netVars
  <2>2. \A u \in Workers : handler'[u].at = "apply_ack" => handler'[u] = handler[u]
    BY <1>0, <1>3 DEF Register, HandlerSendResult, HandlerFreeWorker,
       HandlerRemoveSession, HandlerApplyAck, HandlerAckWorker, HandlerEnds,
       HandlerEndsAtPeek, HandlerState
  <2> QED BY <1>1, <2>1, <2>2 DEF Applies
<1>4. ASSUME NEW w \in Workers, HandleEndOfQuery(w) PROVE Goal
  <2>1. Taken(to_master, to_master', w) /\ UNCHANGED to_worker
    BY <1>4 DEF HandleEndOfQuery, Incoming, Taken
  <2>2. ASSUME NEW u \in Workers PROVE Applies(u, q, v)' => Applies(u, q, v)
    <3>1. ASSUME NEW p, handler' = [handler EXCEPT ![w] =
                           [at |-> "send", query |-> p, msg |-> Head(to_master[w])]]
          PROVE  Applies(u, q, v)' => Applies(u, q, v)
      BY <1>0, <3>1 DEF Applies
    <3> QED BY <1>4, <3>1 DEF HandleEndOfQuery, Applies
  <2>3. /\ Absent(to_master, A) => Absent(to_master', A)
        /\ Single(to_master, A) => Single(to_master', A)
    BY <1>0, <2>1, FirstIsTaken
  <2> QED BY <2>1, <2>2, <2>3, FewerTokens DEF A
<1>5. ASSUME NEW w \in Workers, WorkerReceive(w) PROVE Goal
  <2>1. Taken(to_worker, to_worker', w) /\ UNCHANGED <<to_master, handler>>
    BY <1>5 DEF WorkerReceive, Taken
  <2>2. /\ Absent(to_worker, E) => Absent(to_worker', E)
        /\ Single(to_worker, E) => Single(to_worker', E)
    BY <1>0, <2>1, FirstIsTaken
  <2>3. \A u \in Workers : Applies(u, q, v)' => Applies(u, q, v)
    BY <2>1 DEF Applies
  <2> QED BY <2>1, <2>2, <2>3, FewerTokens DEF E
<1>6. ASSUME NEW w \in Workers, WorkerStep(w) PROVE Goal
  <2>1. CheckSwallows(w) /\ UNCHANGED handler
    BY <1>6 DEF WorkerStep
  <2>2. /\ Absent(to_worker, E) => Absent(to_worker', E)
        /\ Single(to_worker, E) => Single(to_worker', E)
    BY <1>0, <2>1, SwallowsOnly
  <2>3. \A u \in Workers : Applies(u, q, v)' => Applies(u, q, v)
    BY <2>1 DEF Applies
  <2>4. ASSUME NEW m \in {Finished(wproc[w].query), Error(wproc[w].query)},
               Added(to_master, to_master', w, m)
        PROVE  /\ Absent(to_master, A) => Absent(to_master', A)
               /\ Single(to_master, A) => Single(to_master', A)
    <3>1. m \in Msg
      BY <1>0, Messages DEF WorkerProc
    <3>2. m \notin A
      BY DEF A, Acks, KindAt, Kind, Finished, Error
    <3> QED BY <1>0, <2>4, <3>1, <3>2, LastComes
  <2>5. \/ UNCHANGED to_master
        \/ Added(to_master, to_master', w, Finished(wproc[w].query))
        \/ Added(to_master, to_master', w, Error(wproc[w].query))
    BY <1>6 DEF WorkerStep, Tell, Added
  <2>6. /\ Absent(to_master, A) => Absent(to_master', A)
        /\ Single(to_master, A) => Single(to_master', A)
    BY <2>4, <2>5
  <2> QED BY <2>2, <2>3, <2>6, FewerTokens DEF E, A
<1> QED
  BY <1>2, <1>3, <1>4, <1>5, <1>6, YieldingMoves, ValidatingMoves
     DEF CoreNext, HandlerStep, Submit, Confirm, ConfirmFails, QueryControlLeaves,
         Watchdog, EvictDeadline, WorkerCrash, MonitorStep, MonitorPick, MonitorCheck,
         MonitorFindQuery, MonitorRemoveWorker, MonitorSendError, MonitorCloseSession,
         netVars

\* The tokens EvictionTokens counts.
LEMMA TokensCounted ==
  ASSUME CoreTypeInv, NEW q \in Queries, NEW v \in Nat, OneToken(q, v)
  PROVE  /\ EvictionTokens(q, v) \in {0, 1}
         /\ NoToken(q, v) => EvictionTokens(q, v) = 0
<1> DEFINE e == Cardinality(Carrying(to_worker, "EVICT", q, v))
           a == Cardinality(Carrying(to_master, "EVICT_ACK", q, v))
           p == Cardinality(Applying(q, v))
<1>1. /\ to_worker \in [Workers -> Seq(Msg)] /\ to_master \in [Workers -> Seq(Msg)]
  BY DEF CoreTypeInv, CoreTypeOK, NetTypeOK
<1>2. e \in {0, 1} /\ (Absent(to_worker, Evicts(q, v)) => e = 0)
  BY <1>1, CarriedOnce DEF OneToken, Evicts
<1>3. a \in {0, 1} /\ (Absent(to_master, Acks(q, v)) => a = 0)
  BY <1>1, CarriedOnce DEF OneToken, Acks
<1>4. p \in {0, 1} /\ (NobodyApplies(q, v) => p = 0)
  <2>1. /\ \A u, w \in Applying(q, v) : u = w
        /\ NobodyApplies(q, v) => Applying(q, v) = {}
    BY DEF Applying, Applies, OneToken, NobodyApplies
  <2> QED BY <2>1, AtMostOne
<1>5. EvictionTokens(q, v) = e + a + p
  BY DEF EvictionTokens
<1> HIDE DEF e, a, p
<1> QED BY <1>2, <1>3, <1>4, <1>5 DEF OneToken, NoToken
-----------------------------------------------------------------------------
(***************************************************************************)
(* What the schedulers need to know of the steps of the core               *)
(***************************************************************************)
\* A step of the core leaves the scheduler's variables alone.
LEMMA CoreLeavesSched == CoreNext => UNCHANGED sched
BY DEF CoreNext, Submit, Confirm, ConfirmFails, QueryControlLeaves, Register,
   HandlerStep, HandleEndOfQuery, HandlerSendResult, HandlerFreeWorker,
   HandlerRemoveSession, HandleEvictAck, HandlerApplyAck, HandlerAckWorker,
   HandlerEnds, HandlerEndsAtPeek, Watchdog, EvictDeadline, WorkerReceive,
   WorkerYields, WorkerStep, WorkerCrash, MonitorStep, MonitorPick, MonitorCheck,
   MonitorFindQuery, MonitorRemoveWorker, MonitorSendError, MonitorCloseSession

\* The two updates of a Worker the scheduler makes.
LEMMA WorkerUpdates ==
  ASSUME winfo \in [Workers -> WorkerInfo], NEW w, NEW b \in BOOLEAN
  PROVE  /\ [winfo EXCEPT ![w].is_busy = b] \in [Workers -> WorkerInfo]
         /\ [winfo EXCEPT ![w].awaiting_evict_response = b, ![w].expired = FALSE]
              \in [Workers -> WorkerInfo]
<1>1. ASSUME NEW r \in WorkerInfo
      PROVE  /\ [r EXCEPT !.is_busy = b] \in WorkerInfo
             /\ [r EXCEPT !.awaiting_evict_response = b] \in WorkerInfo
             /\ [r EXCEPT !.expired = FALSE] \in WorkerInfo
  BY <1>1 DEF WorkerInfo
<1>2. ASSUME NEW f \in [Workers -> WorkerInfo]
      PROVE  /\ [f EXCEPT ![w].is_busy = b] \in [Workers -> WorkerInfo]
             /\ [f EXCEPT ![w].awaiting_evict_response = b] \in [Workers -> WorkerInfo]
             /\ [f EXCEPT ![w].expired = FALSE] \in [Workers -> WorkerInfo]
  <2>1. CASE w \in Workers
    BY <1>1, <1>2, <2>1
  <2>2. CASE w \notin Workers
    BY <1>2, <2>2
  <2> QED BY <2>1, <2>2
<1> QED BY <1>2

\* A message sent to a Worker.
LEMMA SendTypes ==
  ASSUME to_worker \in [Workers -> Seq(Msg)], NEW w, NEW m \in Msg,
         UNCHANGED to_worker \/ SendToWorker(w, m)
  PROVE  to_worker' \in [Workers -> Seq(Msg)]
<1>1. [to_worker EXCEPT ![w] = Append(@, m)] \in [Workers -> Seq(Msg)]
  BY OneMoreAt
<1> QED BY <1>1 DEF SendToWorker

\* The ids given so far.
SubmittedIds == 0 .. next_query_id - 1

\* Priority and activity of a session change in the core for a new submission
\* only.
LEMMA CoreKeepsRanks ==
  ASSUME CoreTypeInv, CoreNext, NEW q \in SubmittedIds
  PROVE  /\ session'[q].priority = session[q].priority
         /\ session'[q].is_active = session[q].is_active
<1>1. q \in Queries /\ q # next_query_id /\ session \in [Queries -> Session]
  BY MasterAssumption
     DEF SubmittedIds, CoreTypeInv, CoreTypeOK, SessionsTypeOK, Queries
<1>2. CASE UNCHANGED session
  BY <1>2
<1>3. CASE Submit
  BY <1>1, <1>3 DEF Submit
<1>4. ASSUME NEW w \in Workers, HandlerApplyAck(w)
      PROVE  /\ session'[q].priority = session[q].priority
             /\ session'[q].is_active = session[q].is_active
  BY <1>1, <1>4 DEF HandlerApplyAck, Session
<1> QED
  BY <1>2, <1>3, <1>4
     DEF CoreNext, Confirm, ConfirmFails, QueryControlLeaves, Register, HandlerStep,
         HandleEndOfQuery, HandlerSendResult, HandlerFreeWorker,
         HandlerRemoveSession, HandleEvictAck, HandlerAckWorker, HandlerEnds,
         HandlerEndsAtPeek, Watchdog, EvictDeadline, WorkerReceive, WorkerYields,
         WorkerStep, WorkerCrash, MonitorStep, MonitorPick, MonitorCheck,
         MonitorFindQuery, MonitorRemoveWorker, MonitorSendError,
         MonitorCloseSession, sessVars

\* In the core, ids are given in order and only sessions with one are listed.
LEMMA CoreListsSubmitted ==
  ASSUME CoreTypeInv, CoreNext, query_sessions \subseteq SubmittedIds
  PROVE  query_sessions' \subseteq SubmittedIds' /\ SubmittedIds \subseteq SubmittedIds'
<1>1. next_query_id \in Int
  BY DEF CoreTypeInv, CoreTypeOK, SessionsTypeOK
<1>2. CASE query_sessions' \subseteq query_sessions /\ UNCHANGED next_query_id
  BY <1>2 DEF SubmittedIds
<1>3. CASE Submit
  BY <1>1, <1>3 DEF Submit, SubmittedIds, Queries
<1> QED
  BY <1>2, <1>3
     DEF CoreNext, Confirm, ConfirmFails, QueryControlLeaves, Register, HandlerStep,
         HandleEndOfQuery, HandlerSendResult, HandlerFreeWorker, HandlerApplyAck,
         HandlerRemoveSession, HandleEvictAck, HandlerAckWorker, HandlerEnds,
         HandlerEndsAtPeek, Watchdog, EvictDeadline, WorkerReceive, WorkerYields,
         WorkerStep, WorkerCrash, MonitorStep, MonitorPick, MonitorCheck,
         MonitorFindQuery, MonitorRemoveWorker, MonitorSendError,
         MonitorCloseSession, sessVars

\* The version of a session changes in the core for a new submission only.
LEMMA CoreKeepsVersions ==
  ASSUME CoreTypeInv, CoreNext, NEW q \in SubmittedIds
  PROVE  session'[q].version = session[q].version
<1>1. q \in Queries /\ q # next_query_id /\ session \in [Queries -> Session]
  BY MasterAssumption
     DEF SubmittedIds, CoreTypeInv, CoreTypeOK, SessionsTypeOK, Queries
<1>2. CASE UNCHANGED session
  BY <1>2
<1>3. CASE Submit
  BY <1>1, <1>3 DEF Submit
<1>4. ASSUME NEW w \in Workers, HandlerApplyAck(w)
      PROVE  session'[q].version = session[q].version
  BY <1>1, <1>4 DEF HandlerApplyAck, Session
<1> QED
  BY <1>2, <1>3, <1>4
     DEF CoreNext, Confirm, ConfirmFails, QueryControlLeaves, Register, HandlerStep,
         HandleEndOfQuery, HandlerSendResult, HandlerFreeWorker,
         HandlerRemoveSession, HandleEvictAck, HandlerAckWorker, HandlerEnds,
         HandlerEndsAtPeek, Watchdog, EvictDeadline, WorkerReceive, WorkerYields,
         WorkerStep, WorkerCrash, MonitorStep, MonitorPick, MonitorCheck,
         MonitorFindQuery, MonitorRemoveWorker, MonitorSendError,
         MonitorCloseSession, sessVars
=============================================================================
