----------------------------- MODULE QueryPath -----------------------------
(***************************************************************************)
(* One query end to end, as the bytes see it: Query Control, the threads   *)
(* of the Master that serve it, a Worker and its thread in Storage, joined *)
(* by TCP streams.  A stream carries fields, not messages: each function   *)
(* that sends and each that receives has its own idea of a frame, both are *)
(* written down here, and nothing but the code's order keeps them in step. *)
(*                                                                         *)
(* A field is the name of its kind, except operation codes, statuses and   *)
(* the two results, which are themselves.  The stream to Query Control has *)
(* three writers in the Master, so its fields are written one by one; the  *)
(* others have one, so a frame is written whole or, when the Worker dies,  *)
(* cut anywhere.                                                           *)
(*                                                                         *)
(* Left out: eviction and several queries (MasterCore), what the memory    *)
(* holds (WorkerMemory: here an access sends any of the request lists it   *)
(* may send), what Storage holds (Storage: here it accepts or refuses).    *)
(***************************************************************************)
EXTENDS Integers, Sequences

CONSTANTS
  MaxInstructions,  \* bound on the instructions before END
  Room,             \* the fields that fit into the stream to Query Control
  Faults            \* of "worker", "storage": what may end abruptly

ASSUME BoundsAssumption == MaxInstructions \in Nat /\ Room \in Nat \ {0}
ASSUME FaultsAssumption == Faults \subseteq {"worker", "storage"}

VARIABLES
  client,     \* Query Control: where it is, the fields it waits for, its result
  session,    \* the Master's session: "none", "listed", "given", "closed"
  handler,    \* the Master's thread for the Worker
  monitor,    \* the Master's connection monitor
  out,        \* by thread of the Master, what it still has to write to the client
  worker,     \* where it is, its instruction, the requests left, what it is sending
  storage,    \* the thread of the Worker in Storage
  wire,       \* the streams
  unmet,      \* requests Storage did not carry out, with their instruction
  cut,        \* frames acted upon although their end never came
  trouble,    \* what happened on the stream to Query Control
  astray      \* readers that took a field for another

vars == <<client, session, handler, monitor, out, worker, storage, wire,
          unmet, cut, trouble, astray>>

----------------------------------------------------------------------------
(* Frames, as their senders write them *)

Str == <<"len", "text">>

protocol_send_worker_handshake == <<"HANDSHAKE", "id">>
protocol_send_storage_handshake_ok == <<"OK", "size">>
protocol_send_worker_register_master == <<"REGISTER", "id">>
protocol_send_worker_register_ack == <<"ACK", "id">>
protocol_send_query_submit == <<"SUBMIT">> \o Str \o <<"num">>
protocol_send_query_confirm == <<"CONFIRM", "id">>
protocol_send_master_path == <<"PATH", "id">> \o Str \o <<"num">>
protocol_send_query_result(r) == <<"RESULT", "id", "len", r>>
protocol_send_query_read_message == <<"READ_MESSAGE", "id">> \o Str
protocol_send_worker_read_result == <<"READ_RESULT", "id">> \o Str \o <<"size", "data">>
protocol_send_worker_query_finished == <<"QUERY_FINISHED", "id">>
protocol_send_worker_query_error == <<"QUERY_ERROR", "id">> \o Str

protocol_send_worker_create == <<"CREATE", "id">> \o Str \o Str \o <<"num">>
protocol_send_worker_truncate == <<"TRUNCATE", "id">> \o Str \o Str \o <<"num">>
protocol_send_worker_tag == <<"TAG", "id">> \o Str \o Str \o Str \o Str
protocol_send_worker_commit == <<"COMMIT", "id">> \o Str \o Str
\* DELETE, READ and WRITE are written field by field where they are needed.
DeleteFrame == <<"DELETE">> \o Str
\* Nobody calls this one.
protocol_send_storage_delete == <<"DELETE", "id">> \o Str
ReadFrame == <<"READ", "id">> \o Str \o Str \o <<"num">>
WriteFrame == <<"WRITE", "id">> \o Str \o Str \o <<"num", "data">>

----------------------------------------------------------------------------
(* Frames, as their receivers read them after the operation code: the kind *)
(* of each field, and whether the reader notices that it never came.       *)
(* "recv_all(...) < 0" never holds, since recv_all returns a size_t.       *)

Must(k) == <<[kind |-> k, noticed |-> TRUE]>>
May(k)  == <<[kind |-> k, noticed |-> FALSE]>>
RecvStr == Must("len") \o May("text")

protocol_recv_worker_handshake == Must("id")
protocol_recv_worker_register == Must("id")
protocol_recv_worker_register_ack == Must("id")
protocol_recv_query_submit == Must("len") \o Must("text") \o Must("num")
protocol_recv_master_path == Must("id") \o Must("len") \o Must("text") \o Must("num")
protocol_recv_worker_read_result == Must("id") \o RecvStr \o Must("size") \o May("data")
protocol_recv_worker_query_finished == Must("id")
protocol_recv_worker_query_error == Must("id") \o Must("len") \o Must("text")

RecvRead == Must("id") \o RecvStr \o RecvStr \o May("num")
RecvWrite == Must("id") \o RecvStr \o RecvStr \o May("num") \o May("data")
RecvCreate == Must("id") \o RecvStr \o RecvStr \o Must("num")
\* Variant: the size of a TRUNCATE is read as the number of a block is.
RecvTruncateUnnoticed == Must("id") \o RecvStr \o RecvStr \o May("num")
RecvTruncate == Must("id") \o RecvStr \o RecvStr \o Must("num")
protocol_recv_worker_tag == RecvStr \o RecvStr \o RecvStr \o RecvStr
RecvTag == Must("id") \o protocol_recv_worker_tag
RecvDelete == RecvStr
RecvCommit == Must("id") \o RecvStr \o RecvStr

StorageReads ==
  [READ |-> RecvRead, WRITE |-> RecvWrite, CREATE |-> RecvCreate,
   TRUNCATE |-> RecvTruncate, TAG |-> RecvTag, DELETE |-> RecvDelete,
   COMMIT |-> RecvCommit]
HandlerReads ==
  [READ_RESULT |-> protocol_recv_worker_read_result,
   QUERY_FINISHED |-> protocol_recv_worker_query_finished,
   QUERY_ERROR |-> protocol_recv_worker_query_error]
\* After CONFIRM; after READ_MESSAGE and after RESULT.
protocol_recv_query_confirm == <<"id">>
\* Variant: a reader of READ_MESSAGE that expects no query id.
RecvReadMessageWithoutId == <<"len", "text">>
protocol_recv_query_read_message == <<"id", "len", "text">>
protocol_recv_query_result == <<"id", "len", "text">>

Kind(f) == IF f \in {"SUCCESS", "ERROR"} THEN "text" ELSE f
\* The fields s, read with format: come in whole, in step, in vain.
Came(s, format) == Len(s) >= Len(format)
InStep(s, format) == \A i \in DOMAIN s \intersect DOMAIN format :
                       Kind(s[i]) = format[i].kind
InVain(s, format) == \E i \in DOMAIN format \ DOMAIN s : format[i].noticed
From(s, n) == SubSeq(s, n + 1, Len(s))

Sent(w, s) == [wire EXCEPT ![w] = @ \o s]
Gone == worker.at = "gone"

Init ==
  /\ client = [at |-> "start", need |-> <<>>, result |-> "none"]
  /\ session = "none"
  /\ handler = "new"
  /\ monitor = "watch"
  /\ out = [t \in {"admission", "handler", "monitor"} |-> <<>>]
  /\ worker = [at |-> "down", ins |-> "none", todo |-> <<>>, failed |-> FALSE,
               done |-> 0, sending |-> <<>>]
  /\ storage = "accept"
  /\ wire = [w \in {"toMaster", "toClient", "toWorker", "toHandler",
                    "toStorage", "fromStorage"} |-> <<>>]
  /\ unmet = {} /\ cut = {} /\ trouble = {} /\ astray = {}

master == <<session, handler, monitor, out>>
history == <<unmet, cut, trouble, astray>>

----------------------------------------------------------------------------
(* Query Control *)

ClientSubmits ==
  /\ client.at = "start"
  /\ client' = [client EXCEPT !.at = "confirm"]
  /\ wire' = Sent("toMaster", protocol_send_query_submit)
  /\ UNCHANGED <<master, worker, storage, history>>

\* It gives up if the first operation code is not CONFIRM.
ClientConfirms ==
  /\ client.at = "confirm" /\ client.need = <<>> /\ wire["toClient"] # <<>>
  /\ client' = IF Head(wire["toClient"]) = "CONFIRM"
               THEN [client EXCEPT !.need = protocol_recv_query_confirm, !.at = "listen"]
               ELSE [client EXCEPT !.at = "done", !.result = "unconfirmed"]
  /\ wire' = [wire EXCEPT !["toClient"] = Tail(@)]
  /\ UNCHANGED <<master, worker, storage, history>>

\* listen_to_master: the next operation code.
ClientListens ==
  /\ client.at = "listen" /\ client.need = <<>> /\ wire["toClient"] # <<>>
  /\ LET op == Head(wire["toClient"]) IN
       client' = CASE op = "READ_MESSAGE" ->
                        [client EXCEPT !.need = protocol_recv_query_read_message]
                   [] op = "RESULT" ->
                        [client EXCEPT !.need = protocol_recv_query_result, !.at = "result"]
                   [] OTHER -> [client EXCEPT !.at = "lost"]
  /\ wire' = [wire EXCEPT !["toClient"] = Tail(@)]
  /\ UNCHANGED <<master, worker, storage, history>>

\* The next field of the frame; the text of a RESULT is the last of all.
ClientReadsField ==
  /\ client.at \in {"listen", "result"} /\ client.need # <<>> /\ wire["toClient"] # <<>>
  /\ LET f == Head(wire["toClient"]) IN
       client' = IF Kind(f) # Head(client.need) THEN [client EXCEPT !.at = "lost"]
                 ELSE IF client.at = "result" /\ Len(client.need) = 1
                 THEN [at |-> "done", need |-> <<>>, result |-> f]
                 ELSE [client EXCEPT !.need = Tail(@)]
  /\ wire' = [wire EXCEPT !["toClient"] = Tail(@)]
  /\ UNCHANGED <<master, worker, storage, history>>

\* Out of step it goes on taking bytes, for whatever it takes them for.
ClientDrifts ==
  /\ client.at = "lost" /\ wire["toClient"] # <<>>
  /\ wire' = [wire EXCEPT !["toClient"] = Tail(@)]
  /\ UNCHANGED <<client, master, worker, storage, history>>

----------------------------------------------------------------------------
(* Master: admission, scheduler *)

\* The session is listed, and may be given to a Worker, before the CONFIRM.
MasterAdmits ==
  /\ session = "none" /\ Came(wire["toMaster"], protocol_send_query_submit)
  /\ IF InStep(Tail(wire["toMaster"]), protocol_recv_query_submit)
     THEN session' = "listed" /\ UNCHANGED astray
          /\ out' = [out EXCEPT !["admission"] = protocol_send_query_confirm]
     ELSE astray' = astray \union {"admission"} /\ UNCHANGED <<session, out>>
  /\ wire' = [wire EXCEPT !["toMaster"] = <<>>]
  /\ UNCHANGED <<client, handler, monitor, worker, storage, unmet, cut, trouble>>

\* A Worker that died idle stays in workers_list: nobody looks at it, and it may
\* be given the query, or refuse it for ever.
SchedulerAssigns ==
  /\ session = "listed" /\ handler \in {"serve", "end"} /\ monitor = "watch"
  /\ session' = "given"
  /\ wire' = Sent("toWorker", protocol_send_master_path)
  /\ UNCHANGED <<client, handler, monitor, out, worker, storage, history>>

\* A thread t writes its next field to Query Control, when there is room.
Begun(t) == out[t] # <<>> /\ Head(out[t]) \notin {"CONFIRM", "READ_MESSAGE", "RESULT"}
Others(t) == DOMAIN out \ {t}
MasterWrites(t) ==
  /\ out[t] # <<>> /\ client.at # "done" /\ Len(wire["toClient"]) < Room
  /\ wire' = Sent("toClient", <<Head(out[t])>>)
  /\ out' = [out EXCEPT ![t] = Tail(@)]
  /\ trouble' = trouble
       \union {"overlap" : u \in {v \in Others(t) : Begun(v)}}
       \union {"overtaken" : u \in {v \in Others(t) : out[v] = protocol_send_query_confirm}}
  /\ UNCHANGED <<client, session, handler, monitor, worker, storage, unmet, cut, astray>>

\* A READ message does not wait for room after its operation code.
HandlerTruncates ==
  /\ Begun("handler") /\ handler = "serve" /\ client.at # "done"
  /\ Len(wire["toClient"]) >= Room
  /\ out' = [out EXCEPT !["handler"] = <<>>]
  /\ trouble' = trouble \union {"truncated"}
  /\ UNCHANGED <<client, session, handler, monitor, worker, storage, wire, unmet, cut, astray>>

\* Query Control has closed its end.  If the thread notices, a CONFIRM makes it
\* drop the session and a RESULT leaves the session as it is for good.
WriteFails(t) ==
  /\ out[t] # <<>> /\ client.at = "done"
  /\ out' = [out EXCEPT ![t] = <<>>]
  /\ \E noticed \in BOOLEAN :
       /\ session' = IF noticed /\ t = "admission" THEN "closed" ELSE session
       /\ handler' = IF noticed /\ t = "handler" THEN "serve" ELSE handler
  /\ UNCHANGED <<client, monitor, worker, storage, wire, history>>

----------------------------------------------------------------------------
(* Master: the thread of the Worker, the connection monitor *)

\* The Worker is listed after its ACK is sent.
MasterRegisters ==
  /\ handler = "new" /\ wire["toHandler"] # <<>>
  /\ LET s == Tail(wire["toHandler"])  f == protocol_recv_worker_register IN
       /\ Came(s, f) \/ Gone
       /\ IF InVain(s, f)
          THEN handler' = "end" /\ monitor' = "done"
               /\ wire' = [wire EXCEPT !["toHandler"] = <<>>]
          ELSE handler' = "serve" /\ UNCHANGED monitor
               /\ wire' = [Sent("toWorker", protocol_send_worker_register_ack)
                             EXCEPT !["toHandler"] = From(@, 2)]
  /\ UNCHANGED <<client, session, out, worker, storage, history>>

\* Variant: the end of a query is not passed on.
HandlerKeepsQuiet ==
  /\ handler = "serve" /\ out["handler"] = <<>> /\ wire["toHandler"] # <<>>
  /\ wire' = [wire EXCEPT !["toHandler"] =
                From(@, 1 + Len(HandlerReads[Head(@)]))]
  /\ UNCHANGED <<client, session, handler, monitor, out, worker, storage, history>>

\* What the frame at the head of the Worker's stream makes of the session's
\* client.  A frame that never came in whole is acted upon if its reader does
\* not notice; the others are dropped.
Verdict == [READ_RESULT |-> protocol_send_query_read_message,
            QUERY_FINISHED |-> protocol_send_query_result("SUCCESS"),
            QUERY_ERROR |-> protocol_send_query_result("ERROR")]
HandlerReceives ==
  /\ handler = "serve" /\ out["handler"] = <<>> /\ wire["toHandler"] # <<>>
  /\ LET op == Head(wire["toHandler"])
         s  == Tail(wire["toHandler"])
         f  == HandlerReads[op] IN
       /\ Came(s, f) \/ Gone
       /\ astray' = IF InStep(s, f) THEN astray ELSE astray \union {"handler"}
       /\ cut' = IF Came(s, f) \/ InVain(s, f) THEN cut ELSE cut \union {op}
       /\ out' = IF session = "given" /\ ~InVain(s, f)
                 THEN [out EXCEPT !["handler"] = Verdict[op]] ELSE out
       /\ handler' = IF out' # out /\ op # "READ_RESULT" THEN "close" ELSE handler
       /\ wire' = [wire EXCEPT !["toHandler"] = From(s, Len(f))]
  /\ UNCHANGED <<client, session, monitor, worker, storage, unmet, trouble>>

HandlerCloses ==
  /\ handler = "close" /\ out["handler"] = <<>>
  /\ handler' = "serve" /\ session' = "closed"
  /\ UNCHANGED <<client, monitor, out, worker, storage, wire, history>>

\* Its loop sees the end of the stream, or its peek does, which marks the Worker
\* idle.
HandlerEnds ==
  /\ handler = "serve" /\ out["handler"] = <<>> /\ Gone /\ wire["toHandler"] = <<>>
  /\ handler' \in IF session = "given" THEN {"end", "idled"} ELSE {"end"}
  /\ UNCHANGED <<client, session, monitor, out, worker, storage, wire, history>>

\* The monitor looks only at a busy Worker, and sees the end of its stream once
\* everything before it was taken; it removes the Worker, then answers.
MonitorFinds ==
  /\ monitor = "watch" /\ session = "given" /\ handler # "idled"
  /\ Gone /\ wire["toHandler"] = <<>>
  /\ monitor' = "found"
  /\ UNCHANGED <<client, session, handler, out, worker, storage, wire, history>>

MonitorRemoves ==
  /\ monitor = "found"
  /\ monitor' = "close"
  /\ out' = [out EXCEPT !["monitor"] = protocol_send_query_result("ERROR")]
  /\ UNCHANGED <<client, session, handler, worker, storage, wire, history>>

MonitorCloses ==
  /\ monitor = "close" /\ out["monitor"] = <<>>
  /\ monitor' = "done" /\ session' = "closed"
  /\ UNCHANGED <<client, handler, out, worker, storage, wire, history>>

----------------------------------------------------------------------------
(* The requests an instruction sends to Storage, in order, each with what  *)
(* the Worker makes of an answer that is not OK: it gives up at once       *)
(* ("fail") or at the end ("note"), tries once more in vain ("retry"),     *)
(* gives up only without an answer ("answer"), only if it could not even   *)
(* send ("send"), or never ("ignore").                                     *)

Req(frame, role) == [frame |-> frame, role |-> role, why |-> "asked"]
Swap(frame) == [frame |-> frame, role |-> "ignore", why |-> "replacement"]

memoria_cargar_pagina(role) == <<Req(ReadFrame, role)>>
\* The victim is written back if it was modified; neither answer matters.
memoria_reemplazar_pagina ==
  {<<Swap(ReadFrame)>>, <<Swap(WriteFrame), Swap(ReadFrame)>>}
solicitar_pagina_storage(role) == <<Req(ReadFrame, role)>>
enviar_pagina_storage == <<Req(WriteFrame, "fail")>>

\* Variant: an answer to CREATE is only logged, as one to COMMIT is.
execute_create_unheeded == <<Req(protocol_send_worker_create, "ignore")>>
execute_create == <<Req(protocol_send_worker_create, "fail")>>
execute_truncate == <<Req(protocol_send_worker_truncate, "answer")>>
execute_tag == <<Req(protocol_send_worker_tag, "fail")>>
\* Variant: the unused sender's frame.
execute_delete_with_id == <<Req(protocol_send_storage_delete, "send")>>
execute_delete == <<Req(DeleteFrame, "send")>>
\* Nothing was modified, or one page was.
execute_flush(role) == {<<>>, <<Req(WriteFrame, role)>>}
execute_commit ==
  {f \o <<Req(protocol_send_worker_commit, "send")>> : f \in execute_flush("ignore")}
\* One page: in memory, loaded into a free frame, or in place of another.
execute_write ==
  {load \o enviar_pagina_storage :
     load \in {<<>>, memoria_cargar_pagina("fail")} \union memoria_reemplazar_pagina}
\* One page, of a File:Tag with a table of pages or without.
execute_read ==
  {<<>>, memoria_cargar_pagina("retry")} \union memoria_reemplazar_pagina
  \union {solicitar_pagina_storage("fail") \o load :
            load \in {memoria_cargar_pagina("fail")} \union memoria_reemplazar_pagina}

Instructions ==
  {<<"CREATE", execute_create>>, <<"TRUNCATE", execute_truncate>>,
   <<"TAG", execute_tag>>, <<"DELETE", execute_delete>>}
  \union {<<"FLUSH", t>> : t \in execute_flush("note")}
  \union {<<"COMMIT", t>> : t \in execute_commit}
  \union {<<"WRITE", t>> : t \in execute_write}
  \union {<<"READ", t>> : t \in execute_read}

----------------------------------------------------------------------------
(* Worker *)

Resting == worker.sending = <<>> /\ ~Gone
\* It is at a place p, with something to send on a stream w before it goes on.
Sending(w, frame, p) == worker' = [worker EXCEPT !.at = p, !.sending = <<w, frame>>]

WorkerConnects ==
  /\ worker.at = "down" /\ Resting
  /\ Sending("toStorage", protocol_send_worker_handshake, "handshake")
  /\ UNCHANGED <<client, master, storage, wire, history>>

WorkerSends ==
  /\ worker.sending # <<>>
  /\ wire' = IF worker.sending[1] = "toStorage" /\ storage = "gone" THEN wire
             ELSE Sent(worker.sending[1], worker.sending[2])
  /\ worker' = [worker EXCEPT !.sending = <<>>]
  /\ UNCHANGED <<client, master, storage, history>>

\* main: without Storage it aborts; then connect_master_server.
WorkerRegisters ==
  /\ worker.at = "handshake" /\ Resting
  /\ IF Came(wire["fromStorage"], protocol_send_storage_handshake_ok)
     THEN /\ Sending("toHandler", protocol_send_worker_register_master, "register")
          /\ wire' = [wire EXCEPT !["fromStorage"] = From(@, 2)]
     ELSE /\ storage = "gone"
          /\ worker' = [worker EXCEPT !.at = "gone"]
          /\ UNCHANGED wire
  /\ UNCHANGED <<client, master, storage, history>>

WorkerRegistered ==
  /\ worker.at = "register" /\ Resting
  /\ Came(wire["toWorker"], protocol_send_worker_register_ack)
  /\ astray' = IF /\ Head(wire["toWorker"]) = "ACK"
                  /\ InStep(Tail(wire["toWorker"]), protocol_recv_worker_register_ack)
               THEN astray ELSE astray \union {"worker"}
  /\ wire' = [wire EXCEPT !["toWorker"] = From(@, 2)]
  /\ worker' = [worker EXCEPT !.at = "idle"]
  /\ UNCHANGED <<client, master, storage, unmet, cut, trouble>>

WorkerTakesPath ==
  /\ worker.at = "idle" /\ Resting
  /\ Came(wire["toWorker"], protocol_send_master_path)
  /\ LET f == protocol_recv_master_path IN
       /\ astray' = IF /\ Head(wire["toWorker"]) = "PATH"
                       /\ InStep(Tail(wire["toWorker"]), f)
                    THEN astray ELSE astray \union {"worker"}
       /\ wire' = [wire EXCEPT !["toWorker"] = From(@, 1 + Len(f))]
  /\ worker' = [worker EXCEPT !.at = "fetch"]
  /\ UNCHANGED <<client, master, storage, unmet, cut, trouble>>

\* ejecutar_tarea, with a script that ends in END.
WorkerFetches ==
  /\ worker.at = "fetch" /\ Resting /\ worker.done < MaxInstructions
  /\ \E i \in Instructions :
       worker' = [worker EXCEPT !.at = "execute", !.ins = i[1], !.todo = i[2],
                                !.failed = FALSE]
  /\ UNCHANGED <<client, master, storage, wire, history>>

WorkerFinishes ==
  /\ worker.at = "fetch" /\ Resting
  /\ Sending("toHandler", protocol_send_worker_query_finished, "idle")
  /\ UNCHANGED <<client, master, storage, wire, history>>

WorkerRequests ==
  /\ worker.at = "execute" /\ Resting /\ worker.todo # <<>>
  /\ Sending("toStorage", Head(worker.todo).frame, "wait")
  /\ UNCHANGED <<client, master, storage, wire, history>>

\* What is left to do, and whether the instruction failed, after an answer.
Todo(ok, role) ==
  CASE ok \/ role \in {"ignore", "note", "answer", "send"} -> Tail(worker.todo)
    [] ~ok /\ role = "retry" -> solicitar_pagina_storage("note")
    [] ~ok /\ role = "fail" -> <<>>
Failed(ok, role) == worker.failed \/ (~ok /\ role \in {"fail", "note", "retry"})

\* A READ that is accepted is followed by the page.
AnswerTo(frame) == IF frame[1] = "READ" THEN <<"OK", "size", "data">> ELSE <<"OK">>
WorkerHears ==
  LET r == Head(worker.todo)  s == wire["fromStorage"]  ok == s[1] = "OK" IN
  /\ worker.at = "wait" /\ Resting /\ s # <<>>
  /\ astray' = IF s[1] \in {"OK", "REFUSED"} THEN astray ELSE astray \union {"worker"}
  /\ wire' = [wire EXCEPT !["fromStorage"] =
                IF ok THEN From(@, Len(AnswerTo(r.frame))) ELSE Tail(@)]
  /\ worker' = [worker EXCEPT !.at = "execute", !.todo = Todo(ok, r.role),
                              !.failed = Failed(ok, r.role)]
  /\ UNCHANGED <<client, master, storage, unmet, cut, trouble>>

\* Storage has ended: the request could not be sent, or was and got no answer.
WorkerHearsNothing ==
  LET r == Head(worker.todo) IN
  /\ worker.at = "wait" /\ Resting /\ storage = "gone" /\ wire["fromStorage"] = <<>>
  /\ \E sent \in BOOLEAN :
       LET gives == r.role = "answer" \/ (r.role = "send" /\ ~sent) IN
       worker' = [worker EXCEPT !.at = "execute",
                    !.todo = IF gives THEN <<>> ELSE Todo(FALSE, r.role),
                    !.failed = gives \/ Failed(FALSE, r.role)]
  /\ unmet' = unmet \union {<<worker.ins, r.why>>}
  /\ UNCHANGED <<client, master, storage, wire, cut, trouble, astray>>

\* The instruction is over: a READ sends what it read, a failure ends the query.
WorkerGoesOn ==
  /\ worker.at = "execute" /\ Resting /\ worker.todo = <<>>
  /\ CASE worker.failed ->
            Sending("toHandler", protocol_send_worker_query_error, "idle")
       [] ~worker.failed /\ worker.ins = "READ" ->
            worker' = [worker EXCEPT !.at = "fetch", !.done = @ + 1, !.todo = <<>>,
                         !.sending = <<"toHandler", protocol_send_worker_read_result>>]
       [] OTHER -> worker' = [worker EXCEPT !.at = "fetch", !.done = @ + 1]
  /\ UNCHANGED <<client, master, storage, wire, history>>

\* It dies anywhere, in the middle of a frame too.  A DELETE kills it by itself
\* when Storage has ended: it alone is sent without MSG_NOSIGNAL.
WorkerDies ==
  /\ ~Gone
  /\ \/ "worker" \in Faults
     \/ worker.at = "wait" /\ worker.ins = "DELETE" /\ storage = "gone"
  /\ IF worker.sending = <<>> THEN UNCHANGED wire
     ELSE \E n \in 0 .. Len(worker.sending[2]) - 1 :
            wire' = Sent(worker.sending[1], SubSeq(worker.sending[2], 1, n))
  /\ worker' = [worker EXCEPT !.at = "gone", !.sending = <<>>]
  /\ UNCHANGED <<client, master, storage, history>>

----------------------------------------------------------------------------
(* Storage: loop_aceptar_workers, then worker_thread *)

StorageAccepts ==
  LET s == Tail(wire["toStorage"])  f == protocol_recv_worker_handshake IN
  /\ storage = "accept" /\ wire["toStorage"] # <<>>
  /\ Came(s, f) \/ Gone
  /\ IF InVain(s, f)
     THEN storage' = "gone" /\ wire' = [wire EXCEPT !["toStorage"] = <<>>]
     ELSE storage' = "serve" /\ wire' = [Sent("fromStorage", protocol_send_storage_handshake_ok)
                                           EXCEPT !["toStorage"] = From(@, 2)]
  /\ UNCHANGED <<client, master, worker, history>>

\* TRUNCATE is answered OK whatever became of it.
Answer(op, ok, frame) == IF op = "TRUNCATE" THEN <<"OK">>
                         ELSE IF ok THEN AnswerTo(frame) ELSE <<"REFUSED">>
StorageServes ==
  /\ storage = "serve" /\ wire["toStorage"] # <<>>
  /\ LET op == Head(wire["toStorage"])
         s  == Tail(wire["toStorage"])
         f  == StorageReads[op] IN
       /\ Came(s, f) \/ Gone
       /\ astray' = IF InStep(s, f) THEN astray ELSE astray \union {"storage"}
       /\ IF InVain(s, f)
          THEN /\ storage' = "gone"
               /\ wire' = [wire EXCEPT !["toStorage"] = <<>>]
               /\ UNCHANGED <<unmet, cut>>
          ELSE \E ok \in BOOLEAN :
               /\ cut' = IF Came(s, f) THEN cut ELSE cut \union {op}
               /\ unmet' = IF ok THEN unmet ELSE unmet \union {<<worker.ins, Head(worker.todo).why>>}
               /\ wire' = [Sent("fromStorage", Answer(op, ok, <<op>>))
                             EXCEPT !["toStorage"] = From(s, Len(f))]
               /\ UNCHANGED storage
  /\ UNCHANGED <<client, master, worker, trouble>>

StorageEnds ==
  /\ \/ "storage" \in Faults
     \/ Gone /\ wire["toStorage"] = <<>>
  /\ storage # "gone"
  /\ storage' = "gone"
  /\ wire' = [wire EXCEPT !["toStorage"] = <<>>]
  /\ UNCHANGED <<client, master, worker, history>>

----------------------------------------------------------------------------
ClientNext == ClientSubmits \/ ClientConfirms \/ ClientListens \/ ClientReadsField \/ ClientDrifts
WritesOut(t) == MasterWrites(t) \/ WriteFails(t)
HandlerNext == MasterRegisters \/ HandlerReceives \/ HandlerTruncates \/ HandlerCloses
               \/ HandlerEnds \/ WritesOut("handler")
MonitorNext == MonitorFinds \/ MonitorRemoves \/ MonitorCloses \/ WritesOut("monitor")
AdmissionNext == MasterAdmits \/ WritesOut("admission")
WorkerNext == WorkerConnects \/ WorkerSends \/ WorkerRegisters \/ WorkerRegistered
              \/ WorkerTakesPath \/ WorkerFetches \/ WorkerFinishes \/ WorkerRequests
              \/ WorkerHears \/ WorkerHearsNothing \/ WorkerGoesOn
StorageNext == StorageAccepts \/ StorageServes

Next == ClientNext \/ AdmissionNext \/ SchedulerAssigns \/ HandlerNext \/ MonitorNext
        \/ WorkerNext \/ WorkerDies \/ StorageNext \/ StorageEnds

Spec == Init /\ [][Next]_vars

\* Every thread runs on while it can; nothing obliges anybody to die.
Fairness ==
  /\ WF_vars(ClientNext) /\ WF_vars(AdmissionNext) /\ WF_vars(~Gone /\ SchedulerAssigns)
  /\ WF_vars(HandlerNext) /\ WF_vars(MonitorNext)
  /\ WF_vars(WorkerNext) /\ WF_vars(StorageNext)
FairSpec == Spec /\ Fairness

----------------------------------------------------------------------------
\* Senders and receivers agree on every frame of the streams between Worker,
\* Storage and Master, in every order they reach one another and wherever a
\* death cuts a frame; and when the Worker sends Storage a request no byte of
\* an earlier answer is left to be taken for the answer to it.
InStepAndAnswered ==
  /\ astray = {}
  /\ worker.at = "wait" /\ worker.sending # <<>> => wire["fromStorage"] = <<>>

\* A frame the Worker's death cut is acted upon only if its last field is one
\* nobody notices missing: never a CREATE, a TRUNCATE, the end of a query.  A
\* query of which this happened is never reported SUCCESS.
CutFrames ==
  /\ cut \subseteq {"READ", "WRITE", "TAG", "DELETE", "COMMIT", "READ_RESULT"}
  /\ cut # {} => client.result # "SUCCESS"

\* Query Control takes a field for another only after two threads of the
\* Master wrote their frames into each other or a READ message was truncated,
\* and misses its CONFIRM only when the query overtook it or in the same way.
LosesStepOnlyBy ==
  /\ client.at = "lost" => trouble \intersect {"overlap", "truncated"} # {}
  /\ client.result = "unconfirmed" => trouble \intersect {"overtaken", "overlap"} # {}

\* SUCCESS means Storage carried out every request of the query but those the
\* Worker does not look at: TRUNCATE, DELETE, COMMIT with its flush, and what
\* replacing a page writes back or loads.  ERROR means Storage failed to
\* carry out some request or the Worker died.
Unheeded == {u \in unmet : u[1] \in {"TRUNCATE", "DELETE", "COMMIT"}
                           \/ u[2] = "replacement"}
OutcomeMatchesStorage ==
  /\ client.result = "SUCCESS" => unmet = Unheeded
  /\ client.result = "ERROR" => unmet # {} \/ Gone

\* Whatever Storage and the Worker do, even end, a query that was given to a
\* Worker comes to an end for its Query Control, which is told or has lost step,
\* unless the Worker died and the peek of its handler saw that before the
\* monitor did.  A query that was not given waits only for want of a live Worker.
Ended == client.at \in {"done", "lost"}
ClientEnds == <>(Ended \/ (Gone /\ (handler = "idled" \/ session = "listed")))
=============================================================================
