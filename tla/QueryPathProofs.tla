-------------------------- MODULE QueryPathProofs ---------------------------
(***************************************************************************)
(* Theorems about QueryPath, for any number of instructions, any room on   *)
(* the stream to Query Control and any of the faults.                      *)
(*                                                                         *)
(* The invariant PathInv says what may be on each stream, given where its  *)
(* two ends are: StorageStream and Heeded of the Worker and Storage,       *)
(* HandlerStream, Reports and WorkerStream of the Worker and the Master,   *)
(* Outs, ToClient and Confirmation of the Master and Query Control; and    *)
(* Outcomes, what the end of the query, once it is on its way, says of     *)
(* what Storage did.  One lemma per part and per process shows it kept.    *)
(***************************************************************************)
EXTENDS QueryPath, SequenceTheorems, TLAPS

(***************************************************************************)
(* Types                                                                   *)
(***************************************************************************)
Fields ==
  {"id", "len", "text", "num", "size", "data", "OK", "REFUSED", "HANDSHAKE", "REGISTER", "ACK",
   "SUBMIT", "CONFIRM", "PATH", "RESULT", "SUCCESS", "ERROR", "READ_MESSAGE", "READ_RESULT",
   "QUERY_FINISHED", "QUERY_ERROR", "CREATE", "TRUNCATE", "TAG", "COMMIT", "DELETE", "READ",
   "WRITE"}
Threads == {"admission", "handler", "monitor"}
Streams == {"toMaster", "toClient", "toWorker", "toHandler", "toStorage", "fromStorage"}
RequestFrames ==
  {protocol_send_worker_create, protocol_send_worker_truncate, protocol_send_worker_tag,
   protocol_send_worker_commit, DeleteFrame, ReadFrame, WriteFrame}
\* The requests an instruction may send: the Worker heeds the answer, or the
\* instruction is one whose answers it does not look at, or a page is replaced.
Requests(ins) ==
  {r \in [frame: RequestFrames, role: {"fail", "note", "retry", "answer", "send", "ignore"},
          why: {"asked", "replacement"}] :
     /\ \/ r.role \in {"fail", "note", "retry"}
        \/ ins \in {"TRUNCATE", "DELETE", "COMMIT"}
        \/ r.why = "replacement"
     /\ r.frame = protocol_send_worker_truncate => ins = "TRUNCATE"}

ClientType ==
  /\ client.at \in {"start", "confirm", "listen", "result", "lost", "done"}
  /\ client.need \in Seq(Fields)
  /\ DOMAIN client = {"at", "need", "result"}
MasterType ==
  /\ session \in {"none", "listed", "given", "closed"}
  /\ handler \in {"new", "serve", "close", "end", "idled"}
  /\ monitor \in {"watch", "found", "close", "done"}
  /\ out \in [Threads -> Seq(Fields)]
WorkerType ==
  /\ worker.at \in {"down", "handshake", "register", "idle", "fetch", "execute", "wait", "gone"}
  /\ DOMAIN worker = {"at", "ins", "todo", "failed", "done", "sending"}
  /\ worker.failed \in BOOLEAN /\ worker.done \in Nat
  /\ worker.todo \in Seq(Requests(worker.ins))
PathTypeOK ==
  /\ ClientType /\ MasterType /\ WorkerType
  /\ storage \in {"accept", "serve", "gone"}
  /\ wire \in [Streams -> Seq(Fields)]

-----------------------------------------------------------------------------
(***************************************************************************)
(* The Worker and Storage                                                  *)
(***************************************************************************)
Begins(s, frame) == Len(s) <= Len(frame) /\ \A i \in 1 .. Len(s) : s[i] = frame[i]
Quiet == wire["toStorage"] = <<>> /\ wire["fromStorage"] = <<>>
Asks(frame, serving) ==
  \/ Quiet /\ storage = "gone"
  \/ wire["toStorage"] = frame /\ wire["fromStorage"] = <<>> /\ storage = serving
Answered(answers) ==
  wire["toStorage"] = <<>> /\ wire["fromStorage"] \in answers /\ storage # "accept"
Answers == {<<"REFUSED">>, AnswerTo(Head(worker.todo).frame)}
\* Where the Worker lives, what it is sending, and what is between it and Storage.
AtHandshake ==
  IF worker.sending = <<>>
  THEN \/ Asks(protocol_send_worker_handshake, "accept")
       \/ Answered({protocol_send_storage_handshake_ok})
  ELSE /\ worker.sending = <<"toStorage", protocol_send_worker_handshake>>
       /\ Quiet /\ storage # "serve"
AtWait ==
  /\ worker.todo # <<>>
  /\ IF worker.sending = <<>>
     THEN Asks(Head(worker.todo).frame, "serve") \/ Answered(Answers)
     ELSE /\ worker.sending = <<"toStorage", Head(worker.todo).frame>>
          /\ Quiet /\ storage # "accept"
Elsewhere ==
  /\ Quiet /\ storage # "accept"
  /\ worker.at \in {"register", "idle", "fetch"} \/ worker.sending = <<>>
\* A Worker that died has left at most the beginning of a frame.
LeftBehind ==
  /\ worker.sending = <<>>
  /\ \/ storage = "gone"
     \/ storage = "accept" /\ Begins(wire["toStorage"], protocol_send_worker_handshake)
     \/ storage = "serve" /\ wire["toStorage"] = <<>>
     \/ /\ storage = "serve" /\ worker.todo # <<>>
        /\ Begins(wire["toStorage"], Head(worker.todo).frame)
StorageStream ==
  CASE worker.at = "down" -> Quiet /\ storage # "serve" /\ worker.sending = <<>>
    [] worker.at = "handshake" -> AtHandshake
    [] worker.at = "wait" -> AtWait
    [] worker.at = "gone" -> LeftBehind
    [] OTHER -> Elsewhere

\* A request that was refused, and that the Worker heeds, made the instruction fail
\* or will; an instruction fails only for such a request.
RefusalPending ==
  /\ worker.at = "wait" /\ worker.sending = <<>> /\ wire["fromStorage"] = <<"REFUSED">>
  /\ Head(worker.todo).role \in {"fail", "note", "retry"}
Heeded ==
  /\ unmet = Unheeded \/ worker.failed \/ RefusalPending \/ Gone
  /\ worker.failed => unmet # {}
  /\ wire["fromStorage"] = <<"REFUSED">> => unmet # {} \/ Gone
  /\ worker.at \in {"down", "handshake", "register", "fetch"} => ~worker.failed

-----------------------------------------------------------------------------
(***************************************************************************)
(* The Worker and the Master                                               *)
(***************************************************************************)
\* A stream of frames: it begins with an operation code; the fields after one are
\* those its reader expects, and after them comes the next one.
Framed(s, reads) ==
  /\ s # <<>> => s[1] \in DOMAIN reads
  /\ \A i \in 1 .. Len(s) : s[i] \in DOMAIN reads =>
       /\ \A j \in 1 .. Len(reads[s[i]]) :
            i + j <= Len(s) => Kind(s[i + j]) = reads[s[i]][j].kind
       /\ i + Len(reads[s[i]]) < Len(s) => s[i + Len(reads[s[i]]) + 1] \in DOMAIN reads
\* Its last frame is whole.
Complete(s, reads) ==
  \A i \in 1 .. Len(s) : s[i] \in DOMAIN reads => i + Len(reads[s[i]]) <= Len(s)
HandlerStream ==
  IF handler = "new"
  THEN /\ Len(wire["toHandler"]) <= 2 /\ wire["toWorker"] = <<>> /\ out["handler"] = <<>>
       /\ worker.at \in {"down", "handshake", "register", "gone"}
       /\ wire["toHandler"] # <<>> => worker.at \in {"register", "gone"} /\ worker.sending = <<>>
  ELSE /\ worker.at \notin {"down", "handshake"}
       /\ worker.at = "register" => worker.sending = <<>>
       /\ Framed(wire["toHandler"], HandlerReads)
       /\ Gone \/ Complete(wire["toHandler"], HandlerReads)
Ack == protocol_send_worker_register_ack
Path == protocol_send_master_path
\* What the Worker is sending to the Master.
Reports ==
  /\ worker.at = "register" => worker.sending \in {<<>>, <<"toHandler", protocol_send_worker_register_master>>}
  /\ worker.at = "fetch" => worker.sending \in {<<>>, <<"toHandler", protocol_send_worker_read_result>>}
  /\ worker.at = "idle" =>
       worker.sending \in
         {<<>>, <<"toHandler", IF worker.failed THEN protocol_send_worker_query_error
                               ELSE protocol_send_worker_query_finished>>}
\* The PATH is sent once, after the ACK.
PathPending == wire["toWorker"] \notin {<<>>, Ack}
ToBeGiven == session \in {"none", "listed"} \/ PathPending
WorkerStream ==
  Gone \/
  /\ worker.at \in {"down", "handshake", "fetch", "execute", "wait"} => wire["toWorker"] = <<>>
  /\ worker.at = "register" => wire["toWorker"] \in {<<>>, Ack, Ack \o Path}
  /\ worker.at = "register" /\ handler # "new" => wire["toWorker"] # <<>>
  /\ worker.at = "idle" => wire["toWorker"] \in {<<>>, Path}
  /\ worker.at = "idle" /\ (worker.failed \/ worker.sending # <<>>) => ~ToBeGiven
  /\ worker.at \in {"fetch", "execute", "wait"} => session \notin {"none", "listed"}
  /\ PathPending => session \notin {"none", "listed"}

-----------------------------------------------------------------------------
(***************************************************************************)
(* What the Master tells Query Control                                     *)
(***************************************************************************)
\* The end of the query is on its way to the Master, or further.
Told(r) ==
  \/ client.result = r
  \/ \E i \in 1 .. Len(wire["toClient"]) : wire["toClient"][i] = r
  \/ \E t \in Threads : \E i \in 1 .. Len(out[t]) : out[t][i] = r
Finished ==
  \/ Told("SUCCESS")
  \/ \E i \in 1 .. Len(wire["toHandler"]) - 1 : wire["toHandler"][i] = "QUERY_FINISHED"
Blamed ==
  \/ Told("ERROR")
  \/ \E i \in 1 .. Len(wire["toHandler"]) : wire["toHandler"][i] = "QUERY_ERROR"
\* Nothing can go wrong with the query any more.
Settled ==
  /\ unmet = Unheeded /\ cut = {} /\ Complete(wire["toHandler"], HandlerReads)
  /\ worker.at \in {"idle", "gone"} /\ worker.sending = <<>>
  /\ wire["toStorage"] = <<>> /\ handler # "new"
  /\ session \notin {"none", "listed"} /\ (Gone \/ wire["toWorker"] = <<>>)
Outcomes ==
  /\ Finished => Settled
  /\ Blamed => unmet # {} \/ Gone
  /\ cut # {} \/ monitor = "found" => Gone
  /\ cut \subseteq {"READ", "WRITE", "TAG", "DELETE", "COMMIT", "READ_RESULT"}

-----------------------------------------------------------------------------
(***************************************************************************)
(* The stream to Query Control                                             *)
(***************************************************************************)
Opcodes == {"CONFIRM", "READ_MESSAGE", "RESULT"}
ClientReads ==
  [CONFIRM |-> protocol_recv_query_confirm, READ_MESSAGE |-> protocol_recv_query_read_message,
   RESULT |-> protocol_recv_query_result]
Whole(s) ==
  /\ s[1] \in Opcodes /\ Len(s) = 1 + Len(ClientReads[s[1]])
  /\ \A i \in 1 .. Len(ClientReads[s[1]]) : Kind(s[1 + i]) = ClientReads[s[1]][i]
  /\ \A i \in 2 .. Len(s) : s[i] \notin Opcodes
\* Every frame of s is whole, and one follows another.
Unbroken(s) ==
  \A i \in 1 .. Len(s) : s[i] \in Opcodes =>
    LET f == ClientReads[s[i]] IN
    /\ i + Len(f) <= Len(s)
    /\ \A j \in 1 .. Len(f) : Kind(s[i + j]) = f[j] /\ s[i + j] \notin Opcodes
    /\ i + Len(f) < Len(s) => s[i + Len(f) + 1] \in Opcodes
\* The fields s complete the frame of which need is what is still to be read, and
\* whole frames follow.
Follows(s, need) ==
  /\ Len(need) <= Len(s)
  /\ \A j \in 1 .. Len(need) : Kind(s[j]) = need[j] /\ s[j] \notin Opcodes
  /\ Len(need) < Len(s) => s[Len(need) + 1] \in Opcodes
  /\ Unbroken(s)

Clean == trouble \intersect {"overlap", "truncated"} = {}
Listening == client.at \in {"confirm", "listen", "result"}
Outs ==
  /\ \A t \in Threads : out[t] # <<>> =>
       \/ Whole(out[t])
       \/ \A i \in 1 .. Len(out[t]) : out[t][i] \notin Opcodes
  /\ \A t \in {"handler", "monitor"} : \A i \in 1 .. Len(out[t]) : out[t][i] # "CONFIRM"
  /\ session = "none" => \A t \in Threads : out[t] = <<>>
  /\ monitor \in {"watch", "found"} => out["monitor"] = <<>>
  /\ session \in {"none", "listed"} =>
       out["handler"] = <<>> /\ handler # "close" /\ monitor \in {"watch", "done"}
ToClient ==
  Clean /\ Listening =>
    /\ \A t \in Threads : Begun(t) =>
         /\ Follows(wire["toClient"] \o out[t], client.need)
         /\ \A u \in Threads \ {t} : ~Begun(u)
    /\ (\A t \in Threads : ~Begun(t)) => Follows(wire["toClient"], client.need)
\* The CONFIRM is sent once.
Confirms(s) == {i \in 1 .. Len(s) : s[i] = "CONFIRM"}
Confirmation ==
  /\ client.at = "start" => session = "none" /\ wire["toMaster"] = <<>>
  /\ session = "none" => client.at \in {"start", "confirm"} /\ wire["toClient"] = <<>>
  /\ wire["toMaster"] \in {<<>>, protocol_send_query_submit}
  /\ client.at \in {"start", "confirm"} => client.need = <<>>
  /\ client.at \in {"listen", "result"} =>
       \A i \in 1 .. Len(wire["toClient"]) : wire["toClient"][i] # "CONFIRM"
  /\ \A i, j \in Confirms(wire["toClient"]) : i = j
  /\ out["admission"] # <<>> /\ ~Begun("admission") =>
       /\ out["admission"] = protocol_send_query_confirm
       /\ Confirms(wire["toClient"]) = {} /\ client.at \notin {"listen", "result"}
  /\ client.at = "confirm" /\ trouble \intersect {"overtaken", "overlap"} = {} =>
       \/ wire["toClient"] # <<>> /\ wire["toClient"][1] = "CONFIRM"
       \/ /\ wire["toClient"] = <<>>
          /\ session = "none" \/ out["admission"] = protocol_send_query_confirm
  /\ client.at = "result" => client.need # <<>>

PathInv ==
  /\ PathTypeOK /\ StorageStream /\ Heeded /\ HandlerStream /\ Reports /\ WorkerStream
  /\ Outcomes /\ Outs /\ ToClient /\ Confirmation
  /\ astray = {} /\ LosesStepOnlyBy
-----------------------------------------------------------------------------
(***************************************************************************)
(* Sequences                                                               *)
(***************************************************************************)
LEMMA Joined ==
  ASSUME NEW S, NEW s \in Seq(S), NEW t \in Seq(S)
  PROVE  /\ s \o t \in Seq(S) /\ Len(s \o t) = Len(s) + Len(t)
         /\ \A i \in 1 .. Len(s) : (s \o t)[i] = s[i]
         /\ \A i \in 1 .. Len(t) : (s \o t)[Len(s) + i] = t[i]
         /\ s = <<>> => s \o t = t
         /\ t = <<>> => s \o t = s
BY ConcatProperties, ConcatEmptySeq

LEMMA Emptied == ASSUME NEW S, NEW s \in Seq(S) PROVE s = <<>> <=> Len(s) = 0
BY EmptySeq

LEMMA Dropped ==
  ASSUME NEW S, NEW s \in Seq(S), NEW n \in Nat
  PROVE  /\ From(s, n) \in Seq(S)
         /\ n <= Len(s) => Len(From(s, n)) = Len(s) - n
         /\ n > Len(s) => Len(From(s, n)) = 0
         /\ \A i \in 1 .. Len(From(s, n)) : From(s, n)[i] = s[i + n]
         /\ n >= Len(s) => From(s, n) = <<>>
BY SubSeqProperties, EmptySeq DEF From

LEMMA Rest ==
  ASSUME NEW S, NEW s \in Seq(S), s # <<>>
  PROVE  /\ Tail(s) \in Seq(S) /\ Len(Tail(s)) = Len(s) - 1 /\ Head(s) \in S /\ Head(s) = s[1]
         /\ Len(s) > 0
         /\ \A i \in 1 .. Len(s) - 1 : Tail(s)[i] = s[i + 1]
BY HeadTailProperties, EmptySeq

-----------------------------------------------------------------------------
(***************************************************************************)
(* Frames                                                                  *)
(***************************************************************************)
LEMMA Tuples ==
  ASSUME NEW S, NEW a \in S, NEW b \in S, NEW c \in S, NEW d \in S
  PROVE  /\ <<a>> \in Seq(S) /\ <<a, b>> \in Seq(S) /\ <<a, b, c>> \in Seq(S)
         /\ <<a, b, c, d>> \in Seq(S)
OBVIOUS

LEMMA Strings == Str \in Seq(Fields)
BY Tuples DEF Str, Fields

LEMMA SequencesJoin ==
  /\ \A s, t \in Seq(Fields) : s \o t \in Seq(Fields)
  /\ \A a \in Fields : <<a>> \in Seq(Fields)
  /\ \A a, b \in Fields : <<a, b>> \in Seq(Fields)
BY Joined, Tuples

\* The sender's frame is the operation code op and the fields of format.
Shaped(frame, op, format) ==
  /\ frame \in Seq(Fields) /\ frame[1] = op
  /\ Len(format) \in Nat /\ DOMAIN format = 1 .. Len(format)
  /\ Len(frame) = 1 + Len(format)
  /\ \A i \in 1 .. Len(format) : Kind(frame[1 + i]) = format[i].kind

LEMMA RequestsShaped ==
  /\ Shaped(protocol_send_worker_create, "CREATE", RecvCreate)
  /\ Shaped(protocol_send_worker_truncate, "TRUNCATE", RecvTruncate)
  /\ Shaped(protocol_send_worker_tag, "TAG", RecvTag)
  /\ Shaped(protocol_send_worker_commit, "COMMIT", RecvCommit)
  /\ Shaped(DeleteFrame, "DELETE", RecvDelete)
  /\ Shaped(ReadFrame, "READ", RecvRead)
  /\ Shaped(WriteFrame, "WRITE", RecvWrite)
<1>1. Shaped(protocol_send_worker_create, "CREATE", RecvCreate)
  <2>1. protocol_send_worker_create \in Seq(Fields)
    BY Strings, SequencesJoin DEF Fields, protocol_send_worker_create
  <2> QED BY <2>1 DEF Shaped, protocol_send_worker_create, RecvCreate, RecvStr, Must, May, Str, Kind
<1>2. Shaped(protocol_send_worker_truncate, "TRUNCATE", RecvTruncate)
  <2>1. protocol_send_worker_truncate \in Seq(Fields)
    BY Strings, SequencesJoin DEF Fields, protocol_send_worker_truncate
  <2> QED BY <2>1 DEF Shaped, protocol_send_worker_truncate, RecvTruncate, RecvStr, Must, May, Str,
                      Kind
<1>3. Shaped(protocol_send_worker_tag, "TAG", RecvTag)
  <2>1. protocol_send_worker_tag \in Seq(Fields)
    BY Strings, SequencesJoin DEF Fields, protocol_send_worker_tag
  <2> QED BY <2>1 DEF Shaped, protocol_send_worker_tag, RecvTag, protocol_recv_worker_tag, RecvStr,
                      Must, May, Str, Kind
<1>4. Shaped(protocol_send_worker_commit, "COMMIT", RecvCommit)
  <2>1. protocol_send_worker_commit \in Seq(Fields)
    BY Strings, SequencesJoin DEF Fields, protocol_send_worker_commit
  <2> QED BY <2>1 DEF Shaped, protocol_send_worker_commit, RecvCommit, RecvStr, Must, May, Str, Kind
<1>5. Shaped(DeleteFrame, "DELETE", RecvDelete)
  <2>1. DeleteFrame \in Seq(Fields)
    BY Strings, SequencesJoin DEF Fields, DeleteFrame
  <2> QED BY <2>1 DEF Shaped, DeleteFrame, RecvDelete, RecvStr, Must, May, Str, Kind
<1>6. Shaped(ReadFrame, "READ", RecvRead)
  <2>1. ReadFrame \in Seq(Fields)
    BY Strings, SequencesJoin DEF Fields, ReadFrame
  <2> QED BY <2>1 DEF Shaped, ReadFrame, RecvRead, RecvStr, Must, May, Str, Kind
<1>7. Shaped(WriteFrame, "WRITE", RecvWrite)
  <2>1. WriteFrame \in Seq(Fields)
    BY Strings, SequencesJoin DEF Fields, WriteFrame
  <2> QED BY <2>1 DEF Shaped, WriteFrame, RecvWrite, RecvStr, Must, May, Str, Kind
<1> QED BY <1>1, <1>2, <1>3, <1>4, <1>5, <1>6, <1>7

LEMMA ReportsShaped ==
  /\ Shaped(protocol_send_worker_read_result, "READ_RESULT", protocol_recv_worker_read_result)
  /\ Shaped(protocol_send_worker_query_finished, "QUERY_FINISHED",
            protocol_recv_worker_query_finished)
  /\ Shaped(protocol_send_worker_query_error, "QUERY_ERROR", protocol_recv_worker_query_error)
<1>1. Shaped(protocol_send_worker_read_result, "READ_RESULT", protocol_recv_worker_read_result)
  <2>1. protocol_send_worker_read_result \in Seq(Fields)
    BY Strings, SequencesJoin DEF Fields, protocol_send_worker_read_result
  <2> QED BY <2>1 DEF Shaped, protocol_send_worker_read_result, protocol_recv_worker_read_result,
                      RecvStr, Must, May, Str, Kind
<1>2. Shaped(protocol_send_worker_query_finished, "QUERY_FINISHED",
             protocol_recv_worker_query_finished)
  <2>1. protocol_send_worker_query_finished \in Seq(Fields)
    BY Strings, SequencesJoin DEF Fields, protocol_send_worker_query_finished
  <2> QED BY <2>1 DEF Shaped, protocol_send_worker_query_finished,
                      protocol_recv_worker_query_finished, Must, Kind
<1>3. Shaped(protocol_send_worker_query_error, "QUERY_ERROR", protocol_recv_worker_query_error)
  <2>1. protocol_send_worker_query_error \in Seq(Fields)
    BY Strings, SequencesJoin DEF Fields, protocol_send_worker_query_error
  <2> QED BY <2>1 DEF Shaped, protocol_send_worker_query_error, protocol_recv_worker_query_error,
                      Must, Str, Kind
<1> QED BY <1>1, <1>2, <1>3

LEMMA GreetingsShaped ==
  /\ Shaped(protocol_send_worker_handshake, "HANDSHAKE", protocol_recv_worker_handshake)
  /\ Shaped(protocol_send_worker_register_master, "REGISTER", protocol_recv_worker_register)
  /\ Shaped(protocol_send_worker_register_ack, "ACK", protocol_recv_worker_register_ack)
  /\ Shaped(protocol_send_master_path, "PATH", protocol_recv_master_path)
  /\ Shaped(protocol_send_query_submit, "SUBMIT", protocol_recv_query_submit)
<1>1. /\ protocol_send_master_path \in Seq(Fields) /\ protocol_send_query_submit \in Seq(Fields)
      /\ protocol_send_worker_handshake \in Seq(Fields)
      /\ protocol_send_worker_register_master \in Seq(Fields)
      /\ protocol_send_worker_register_ack \in Seq(Fields)
  BY Strings, SequencesJoin
     DEF Fields, protocol_send_master_path, protocol_send_query_submit,
         protocol_send_worker_handshake,
         protocol_send_worker_register_master, protocol_send_worker_register_ack
<1>2. Shaped(protocol_send_master_path, "PATH", protocol_recv_master_path)
  BY <1>1 DEF Shaped, protocol_send_master_path, protocol_recv_master_path, Must, Str, Kind
<1>3. Shaped(protocol_send_query_submit, "SUBMIT", protocol_recv_query_submit)
  BY <1>1 DEF Shaped, protocol_send_query_submit, protocol_recv_query_submit, Must, Str, Kind
<1> QED
  BY <1>1, <1>2, <1>3
     DEF Shaped, protocol_send_worker_handshake, protocol_recv_worker_handshake,
         protocol_send_worker_register_master, protocol_recv_worker_register,
         protocol_send_worker_register_ack, protocol_recv_worker_register_ack, Must, Kind

\* A frame, or its beginning, that follows whole frames.
LEMMA FrameAdded ==
  ASSUME NEW reads, NEW s \in Seq(Fields), NEW g \in Seq(Fields), NEW frame, NEW op \in DOMAIN reads,
         Framed(s, reads), Complete(s, reads), \A x \in DOMAIN reads : Len(reads[x]) \in Nat,
         Shaped(frame, op, reads[op]), Begins(g, frame),
         \A i \in 2 .. Len(frame) : frame[i] \notin DOMAIN reads
  PROVE  Framed(s \o g, reads) /\ (g = frame => Complete(s \o g, reads))
<1> DEFINE t == s \o g
<1>1. /\ t \in Seq(Fields) /\ Len(t) = Len(s) + Len(g)
      /\ Len(s) \in Nat /\ Len(g) \in Nat /\ Len(frame) \in Nat
      /\ \A i \in 1 .. Len(s) : t[i] = s[i]
      /\ \A i \in 1 .. Len(g) : t[Len(s) + i] = frame[i]
      /\ s = <<>> <=> Len(s) = 0
  BY Joined, Emptied DEF Begins, Shaped
<1> HIDE DEF t
<1>2. \A i \in 1 .. Len(t) : i \in 1 .. Len(s) \/ (i - Len(s) \in 1 .. Len(g) /\ t[i] = frame[i - Len(s)])
  <2> TAKE i \in 1 .. Len(t)
  <2>1. i <= Len(s) \/ i - Len(s) \in 1 .. Len(g)
    BY <1>1
  <2>2. ASSUME i - Len(s) \in 1 .. Len(g) PROVE t[Len(s) + (i - Len(s))] = frame[i - Len(s)]
    BY <1>1, <2>2
  <2> QED BY <1>1, <2>1, <2>2
<1>3. t # <<>> => t[1] \in DOMAIN reads
  <2> SUFFICES ASSUME t # <<>> PROVE t[1] \in DOMAIN reads
    OBVIOUS
  <2>1. 1 \in 1 .. Len(t)
    BY <1>1, Emptied
  <2>2. CASE Len(s) = 0
    BY <1>1, <1>2, <2>1, <2>2 DEF Shaped
  <2>3. CASE Len(s) # 0
    BY <1>1, <2>3 DEF Framed
  <2> QED BY <2>2, <2>3
<1>4. ASSUME NEW i \in 1 .. Len(t), t[i] \in DOMAIN reads
      PROVE  /\ \A j \in 1 .. Len(reads[t[i]]) :
                  i + j <= Len(t) => Kind(t[i + j]) = reads[t[i]][j].kind
             /\ i + Len(reads[t[i]]) < Len(t) => t[i + Len(reads[t[i]]) + 1] \in DOMAIN reads
             /\ g = frame => i + Len(reads[t[i]]) <= Len(t)
  <2>0. PICK n \in Nat : n = Len(reads[t[i]])
    BY <1>4
  <2>1. i \in Nat /\ Len(t) \in Nat
    BY <1>1
  <2>2. CASE i \in 1 .. Len(s)
    <3>1. t[i] = s[i] /\ i + n <= Len(s)
      BY <1>1, <1>4, <2>0, <2>2 DEF Complete
    <3>2. ASSUME NEW j \in 1 .. n PROVE Kind(t[i + j]) = reads[t[i]][j].kind
      <4>1. i + j \in 1 .. Len(s)
        BY <1>1, <2>1, <3>1
      <4>2. Kind(s[i + j]) = reads[s[i]][j].kind
        BY <1>1, <1>4, <2>0, <2>2, <3>1, <4>1 DEF Framed
      <4> QED BY <1>1, <3>1, <4>1, <4>2
    <3>3. ASSUME i + n < Len(t) PROVE t[i + n + 1] \in DOMAIN reads
      <4>1. CASE i + n < Len(s)
        <5>1. i + n + 1 \in 1 .. Len(s) /\ s[i + n + 1] \in DOMAIN reads
          BY <1>1, <1>4, <2>0, <2>1, <2>2, <3>1, <4>1 DEF Framed
        <5> QED BY <1>1, <5>1
      <4>2. CASE i + n = Len(s)
        <5>1. 1 \in 1 .. Len(g)
          BY <1>1, <3>3, <4>2
        <5> QED BY <1>1, <4>2, <5>1 DEF Shaped
      <4> QED BY <1>1, <2>1, <3>1, <4>1, <4>2
    <3>4. i + n <= Len(t)
      BY <1>1, <2>1, <3>1
    <3> QED BY <2>0, <3>2, <3>3, <3>4
  <2>3. CASE i \notin 1 .. Len(s)
    <3>1. i - Len(s) \in 1 .. Len(g) /\ t[i] = frame[i - Len(s)]
      BY <1>2, <2>3
    <3>2. i = Len(s) + 1 /\ t[i] = op
      <4>1. i - Len(s) \in 1 .. Len(frame) /\ i - Len(s) \notin 2 .. Len(frame)
        BY <1>1, <1>4, <3>1 DEF Begins
      <4>2. i - Len(s) = 1
        BY <1>1, <2>1, <4>1
      <4> QED BY <1>1, <2>1, <3>1, <4>2 DEF Shaped
    <3>3. Len(g) <= 1 + n
      BY <2>0, <3>2 DEF Begins, Shaped
    <3>4. ASSUME NEW j \in 1 .. n, i + j <= Len(t) PROVE Kind(t[i + j]) = reads[t[i]][j].kind
      <4>1. 1 + j \in 1 .. Len(g) /\ i + j = Len(s) + (1 + j)
        BY <1>1, <2>1, <3>2, <3>4
      <4>2. t[i + j] = frame[1 + j]
        BY <1>1, <4>1
      <4> QED BY <2>0, <3>2, <4>2 DEF Shaped
    <3>5. g = frame => Len(g) = 1 + n
      BY <2>0, <3>2 DEF Shaped
    <3>6. ~(i + n < Len(t)) /\ (g = frame => i + n <= Len(t))
      BY <1>1, <2>1, <3>2, <3>3, <3>5
    <3> QED BY <2>0, <3>4, <3>6
  <2> QED BY <2>2, <2>3
<1> QED BY <1>3, <1>4 DEF Framed, Complete, t

\* The frame at the head of a stream is taken.
LEMMA FrameTaken ==
  ASSUME NEW reads, NEW s \in Seq(Fields), s # <<>>, Framed(s, reads),
         \A x \in DOMAIN reads : Len(reads[x]) \in Nat /\ DOMAIN reads[x] = 1 .. Len(reads[x])
  PROVE  /\ s[1] \in DOMAIN reads /\ InStep(Tail(s), reads[s[1]])
         /\ Framed(From(Tail(s), Len(reads[s[1]])), reads)
         /\ Complete(s, reads) => /\ Came(Tail(s), reads[s[1]])
                                  /\ Complete(From(Tail(s), Len(reads[s[1]])), reads)
<1>0. PICK n \in Nat, k \in Nat :
        n = Len(reads[s[1]]) /\ k = Len(s) /\ k > 0 /\ s[1] \in DOMAIN reads
  BY Rest DEF Framed
<1> DEFINE f == reads[s[1]]
           r == Tail(s)
           t == From(r, n)
<1>1. /\ r \in Seq(Fields) /\ Len(r) = k - 1 /\ DOMAIN r = 1 .. k - 1 /\ DOMAIN f = 1 .. n
      /\ \A i \in 1 .. k - 1 : r[i] = s[i + 1]
  BY <1>0, Rest
<1> HIDE DEF f, r
<1>2. /\ t \in Seq(Fields)
      /\ n <= k - 1 => Len(t) = k - 1 - n
      /\ n > k - 1 => Len(t) = 0
      /\ \A i \in 1 .. Len(t) : t[i] = r[i + n]
  <2>1. /\ t \in Seq(Fields)
        /\ n <= Len(r) => Len(t) = Len(r) - n
        /\ n > Len(r) => Len(t) = 0
        /\ \A i \in 1 .. Len(t) : t[i] = r[i + n]
    BY <1>1, Dropped
  <2> HIDE DEF t
  <2> QED BY <1>1, <2>1
<1>3. InStep(r, f)
  <2>1. ASSUME NEW i \in 1 .. n, i \in 1 .. k - 1 PROVE Kind(r[i]) = f[i].kind
    BY <1>0, <1>1, <2>1 DEF Framed, f
  <2> QED BY <1>1, <2>1 DEF InStep
<1>4. Complete(s, reads) => n <= k - 1
  BY <1>0 DEF Complete
<1> HIDE DEF t
<1>5. PICK l \in Nat : l = Len(t) /\ (l = k - 1 - n \/ l = 0)
  BY <1>0, <1>2
<1>6. \A i \in 1 .. l : i + n + 1 \in 1 .. k /\ t[i] = s[i + n + 1] /\ l = k - 1 - n
  <2> TAKE i \in 1 .. l
  <2>1. i + n \in 1 .. k - 1 /\ l = k - 1 - n
    BY <1>0, <1>5
  <2>2. t[i] = r[i + n] /\ r[i + n] = s[i + n + 1]
    BY <1>1, <1>2, <1>5, <2>1
  <2> QED BY <1>0, <2>1, <2>2
<1>7. t # <<>> => t[1] \in DOMAIN reads
  <2> SUFFICES ASSUME t # <<>> PROVE t[1] \in DOMAIN reads
    OBVIOUS
  <2>1. 1 \in 1 .. l
    BY <1>2, <1>5, Emptied
  <2>2. 1 + n < k /\ t[1] = s[1 + n + 1]
    BY <1>0, <1>6, <2>1
  <2> QED BY <1>0, <2>2 DEF Framed
<1>8. ASSUME NEW i \in 1 .. l, t[i] \in DOMAIN reads
      PROVE  /\ \A j \in 1 .. Len(reads[t[i]]) :
                  i + j <= l => Kind(t[i + j]) = reads[t[i]][j].kind
             /\ i + Len(reads[t[i]]) < l => t[i + Len(reads[t[i]]) + 1] \in DOMAIN reads
             /\ Complete(s, reads) => i + Len(reads[t[i]]) <= l
  <2>0. PICK m \in Nat : m = Len(reads[t[i]])
    BY <1>8
  <2>1. PICK p \in 1 .. k : p = i + n + 1 /\ s[p] = t[i] /\ l = k - 1 - n
    BY <1>6
  <2>2. ASSUME NEW j \in 1 .. m, i + j <= l PROVE Kind(t[i + j]) = reads[t[i]][j].kind
    <3>1. i + j \in 1 .. l /\ p + j <= k /\ (i + j) + n + 1 = p + j
      BY <2>1, <2>2
    <3>2. Kind(s[p + j]) = reads[t[i]][j].kind
      BY <1>0, <1>8, <2>0, <2>1, <3>1 DEF Framed
    <3> QED BY <1>6, <3>1, <3>2
  <2>3. ASSUME i + m < l PROVE t[i + m + 1] \in DOMAIN reads
    <3>1. i + m + 1 \in 1 .. l /\ p + m < k /\ (i + m + 1) + n + 1 = p + m + 1
      BY <2>1, <2>3
    <3>2. s[p + m + 1] \in DOMAIN reads
      BY <1>0, <1>8, <2>0, <2>1, <3>1 DEF Framed
    <3>3. t[i + m + 1] = s[p + m + 1]
      BY <1>6, <3>1
    <3> QED BY <3>2, <3>3
  <2>4. Complete(s, reads) => i + m <= l
    <3>1. Complete(s, reads) => p + m <= k
      BY <1>0, <1>8, <2>0, <2>1 DEF Complete
    <3> QED BY <2>1, <3>1
  <2> QED BY <2>0, <2>2, <2>3, <2>4
<1>9. Framed(t, reads) /\ (Complete(s, reads) => Complete(t, reads))
  BY <1>5, <1>7, <1>8 DEF Framed, Complete
<1>10. /\ t = From(Tail(s), Len(reads[s[1]])) /\ InStep(Tail(s), reads[s[1]])
       /\ Complete(s, reads) => Came(Tail(s), reads[s[1]])
  BY <1>0, <1>1, <1>3, <1>4 DEF Came, t, r, f
<1> QED BY <1>0, <1>9, <1>10

LEMMA RequestFacts ==
  ASSUME NEW frame \in RequestFrames
  PROVE  /\ Shaped(frame, frame[1], StorageReads[frame[1]])
         /\ frame[1] \in {"CREATE", "TRUNCATE", "TAG", "COMMIT", "DELETE", "READ", "WRITE"}
         /\ frame[1] = "TRUNCATE" => frame = protocol_send_worker_truncate
         /\ frame[1] \in {"CREATE", "TRUNCATE"} =>
              StorageReads[frame[1]][Len(StorageReads[frame[1]])].noticed
<1>1. /\ RecvCreate[Len(RecvCreate)].noticed /\ RecvTruncate[Len(RecvTruncate)].noticed
  BY DEF RecvCreate, RecvTruncate, RecvStr, Must, May
<1>2. /\ StorageReads["CREATE"] = RecvCreate /\ StorageReads["TRUNCATE"] = RecvTruncate
      /\ StorageReads["TAG"] = RecvTag /\ StorageReads["COMMIT"] = RecvCommit
      /\ StorageReads["DELETE"] = RecvDelete /\ StorageReads["READ"] = RecvRead
      /\ StorageReads["WRITE"] = RecvWrite
  BY DEF StorageReads
<1>3. \/ frame = protocol_send_worker_create /\ frame[1] = "CREATE"
      \/ frame = protocol_send_worker_truncate /\ frame[1] = "TRUNCATE"
      \/ frame = protocol_send_worker_tag /\ frame[1] = "TAG"
      \/ frame = protocol_send_worker_commit /\ frame[1] = "COMMIT"
      \/ frame = DeleteFrame /\ frame[1] = "DELETE"
      \/ frame = ReadFrame /\ frame[1] = "READ"
      \/ frame = WriteFrame /\ frame[1] = "WRITE"
  BY RequestsShaped DEF RequestFrames, Shaped
<1>4. Shaped(frame, frame[1], StorageReads[frame[1]])
  BY <1>2, <1>3, RequestsShaped
<1> QED BY <1>1, <1>2, <1>3, <1>4

\* The operation codes of the stream to the handler.
ReportCodes == {"READ_RESULT", "QUERY_FINISHED", "QUERY_ERROR"}
LEMMA ReportFacts ==
  /\ DOMAIN HandlerReads = ReportCodes
  /\ Shaped(protocol_send_worker_read_result, "READ_RESULT", HandlerReads["READ_RESULT"])
  /\ Shaped(protocol_send_worker_query_finished, "QUERY_FINISHED", HandlerReads["QUERY_FINISHED"])
  /\ Shaped(protocol_send_worker_query_error, "QUERY_ERROR", HandlerReads["QUERY_ERROR"])
  /\ \A x \in ReportCodes :
       /\ Len(HandlerReads[x]) \in Nat /\ DOMAIN HandlerReads[x] = 1 .. Len(HandlerReads[x])
       /\ x \in {"QUERY_FINISHED", "QUERY_ERROR"} =>
            \A i \in 1 .. Len(HandlerReads[x]) : HandlerReads[x][i].noticed
  /\ Len(HandlerReads["QUERY_FINISHED"]) = 1
  /\ \A i \in 2 .. Len(protocol_send_worker_read_result) :
       protocol_send_worker_read_result[i] \notin ReportCodes
  /\ \A i \in 2 .. Len(protocol_send_worker_query_finished) :
       protocol_send_worker_query_finished[i] \notin ReportCodes
  /\ \A i \in 2 .. Len(protocol_send_worker_query_error) :
       protocol_send_worker_query_error[i] \notin ReportCodes
<1>1. /\ HandlerReads["READ_RESULT"] = protocol_recv_worker_read_result
      /\ HandlerReads["QUERY_FINISHED"] = protocol_recv_worker_query_finished
      /\ HandlerReads["QUERY_ERROR"] = protocol_recv_worker_query_error
      /\ DOMAIN HandlerReads = ReportCodes
  BY DEF HandlerReads, ReportCodes
<1>2. /\ \A i \in 2 .. Len(protocol_send_worker_read_result) :
           protocol_send_worker_read_result[i] \notin ReportCodes
      /\ \A i \in 2 .. Len(protocol_send_worker_query_finished) :
           protocol_send_worker_query_finished[i] \notin ReportCodes
      /\ \A i \in 2 .. Len(protocol_send_worker_query_error) :
           protocol_send_worker_query_error[i] \notin ReportCodes
  BY DEF protocol_send_worker_read_result, protocol_send_worker_query_finished,
         protocol_send_worker_query_error, Str, ReportCodes
<1>3. /\ \A i \in 1 .. Len(protocol_recv_worker_query_finished) :
           protocol_recv_worker_query_finished[i].noticed
      /\ \A i \in 1 .. Len(protocol_recv_worker_query_error) :
           protocol_recv_worker_query_error[i].noticed
      /\ Len(protocol_recv_worker_query_finished) = 1
  BY DEF protocol_recv_worker_query_finished, protocol_recv_worker_query_error, Must
<1>4. \A x \in ReportCodes :
        /\ Len(HandlerReads[x]) \in Nat /\ DOMAIN HandlerReads[x] = 1 .. Len(HandlerReads[x])
        /\ x \in {"QUERY_FINISHED", "QUERY_ERROR"} =>
             \A i \in 1 .. Len(HandlerReads[x]) : HandlerReads[x][i].noticed
  BY <1>1, <1>3, ReportsShaped DEF Shaped, ReportCodes
<1> QED BY <1>1, <1>2, <1>3, <1>4, ReportsShaped

-----------------------------------------------------------------------------
(***************************************************************************)
(* The requests of an instruction                                          *)
(***************************************************************************)
LEMMA OneOrTwo ==
  ASSUME NEW ins, NEW a \in Requests(ins), NEW b \in Requests(ins), NEW c \in Requests(ins)
  PROVE  /\ <<>> \in Seq(Requests(ins)) /\ <<a>> \in Seq(Requests(ins))
         /\ <<a>> \o <<b>> \in Seq(Requests(ins))
         /\ <<a, b>> \in Seq(Requests(ins)) /\ <<a>> \o <<b, c>> \in Seq(Requests(ins))
         /\ <<a, b>> \o <<c>> \in Seq(Requests(ins)) /\ <<>> \o <<a>> \in Seq(Requests(ins))
<1> DEFINE R == Requests(ins)
<1>1. <<a>> \in Seq(R) /\ <<b>> \in Seq(R) /\ <<c>> \in Seq(R) /\ <<a, b>> \in Seq(R)
      /\ <<b, c>> \in Seq(R) /\ <<>> \in Seq(R)
  BY Tuples, EmptySeq
<1> HIDE DEF R
<1>2. /\ <<a>> \o <<b>> \in Seq(R) /\ <<a>> \o <<b, c>> \in Seq(R) /\ <<a, b>> \o <<c>> \in Seq(R)
      /\ <<>> \o <<a>> \in Seq(R)
  BY <1>1, Joined
<1> QED BY <1>1, <1>2 DEF R

LEMMA InstructionsAsk ==
  ASSUME NEW i \in Instructions PROVE i[2] \in Seq(Requests(i[1]))
<1>1. /\ protocol_send_worker_create # protocol_send_worker_truncate
      /\ protocol_send_worker_tag # protocol_send_worker_truncate
      /\ protocol_send_worker_commit # protocol_send_worker_truncate
      /\ DeleteFrame # protocol_send_worker_truncate /\ ReadFrame # protocol_send_worker_truncate
      /\ WriteFrame # protocol_send_worker_truncate
  BY RequestsShaped DEF Shaped
<1>2. \A ins : /\ Req(protocol_send_worker_create, "fail") \in Requests(ins)
               /\ Req(protocol_send_worker_tag, "fail") \in Requests(ins)
               /\ Req(WriteFrame, "fail") \in Requests(ins)
               /\ Req(WriteFrame, "note") \in Requests(ins)
               /\ Req(ReadFrame, "fail") \in Requests(ins)
               /\ Req(ReadFrame, "retry") \in Requests(ins)
               /\ Swap(ReadFrame) \in Requests(ins) /\ Swap(WriteFrame) \in Requests(ins)
  BY <1>1 DEF Requests, RequestFrames, Req, Swap
<1>3. /\ Req(protocol_send_worker_truncate, "answer") \in Requests("TRUNCATE")
      /\ Req(DeleteFrame, "send") \in Requests("DELETE")
      /\ Req(protocol_send_worker_commit, "send") \in Requests("COMMIT")
      /\ Req(WriteFrame, "ignore") \in Requests("COMMIT")
  BY <1>1 DEF Requests, RequestFrames, Req
<1>4. CASE i[1] = "CREATE" /\ i[2] = execute_create
  BY <1>2, <1>4, OneOrTwo DEF execute_create
<1>5. CASE i[1] = "TRUNCATE" /\ i[2] = execute_truncate
  BY <1>3, <1>5, OneOrTwo DEF execute_truncate
<1>6. CASE i[1] = "TAG" /\ i[2] = execute_tag
  BY <1>2, <1>6, OneOrTwo DEF execute_tag
<1>7. CASE i[1] = "DELETE" /\ i[2] = execute_delete
  BY <1>3, <1>7, OneOrTwo DEF execute_delete
<1>8. CASE i[1] = "FLUSH" /\ i[2] \in execute_flush("note")
  BY <1>2, <1>8, OneOrTwo DEF execute_flush
<1>9. CASE i[1] = "COMMIT" /\ i[2] \in execute_commit
  BY <1>3, <1>9, OneOrTwo DEF execute_flush, execute_commit
<1>10. CASE i[1] = "WRITE" /\ i[2] \in execute_write
  <2> DEFINE W == Req(WriteFrame, "fail")
             R == Req(ReadFrame, "fail")
             V == Swap(WriteFrame)
             S == Swap(ReadFrame)
  <2>1. \/ i[2] = <<>> \o <<W>>
        \/ i[2] = <<R>> \o <<W>>
        \/ i[2] = <<S>> \o <<W>>
        \/ i[2] = <<V, S>> \o <<W>>
    BY <1>10 DEF execute_write, enviar_pagina_storage, memoria_cargar_pagina,
                 memoria_reemplazar_pagina
  <2>2. W \in Requests(i[1]) /\ R \in Requests(i[1]) /\ V \in Requests(i[1])
        /\ S \in Requests(i[1])
    BY <1>2
  <2> HIDE DEF W, R, V, S
  <2> QED BY <2>1, <2>2, OneOrTwo
<1>11. CASE i[1] = "READ" /\ i[2] \in execute_read
  <2> DEFINE R == Req(ReadFrame, "fail")
             T == Req(ReadFrame, "retry")
             V == Swap(WriteFrame)
             S == Swap(ReadFrame)
  <2>1. \/ i[2] = <<>>
        \/ i[2] = <<T>>
        \/ i[2] = <<S>>
        \/ i[2] = <<V, S>>
        \/ i[2] = <<R>> \o <<R>>
        \/ i[2] = <<R>> \o <<S>>
        \/ i[2] = <<R>> \o <<V, S>>
    BY <1>11 DEF execute_read, solicitar_pagina_storage, memoria_cargar_pagina,
                 memoria_reemplazar_pagina
  <2>2. R \in Requests(i[1]) /\ T \in Requests(i[1]) /\ V \in Requests(i[1])
        /\ S \in Requests(i[1])
    BY <1>2
  <2> HIDE DEF T, R, V, S
  <2> QED BY <2>1, <2>2, OneOrTwo
<1> QED BY <1>4, <1>5, <1>6, <1>7, <1>8, <1>9, <1>10, <1>11 DEF Instructions

-----------------------------------------------------------------------------
(***************************************************************************)
(* Types are kept                                                          *)
(***************************************************************************)
LEMMA WireSent ==
  ASSUME wire \in [Streams -> Seq(Fields)], NEW w \in Streams, NEW s \in Seq(Fields)
  PROVE  /\ Sent(w, s) \in [Streams -> Seq(Fields)]
         /\ Sent(w, s)[w] = wire[w] \o s
         /\ \A v \in Streams \ {w} : Sent(w, s)[v] = wire[v]
BY Joined DEF Sent

LEMMA FramesTyped ==
  /\ \A frame \in RequestFrames : frame \in Seq(Fields)
  /\ protocol_send_worker_handshake \in Seq(Fields) /\ Path \in Seq(Fields) /\ Ack \in Seq(Fields)
  /\ protocol_send_worker_register_master \in Seq(Fields)
  /\ protocol_send_query_submit \in Seq(Fields)
  /\ protocol_send_worker_read_result \in Seq(Fields)
  /\ protocol_send_worker_query_finished \in Seq(Fields)
  /\ protocol_send_worker_query_error \in Seq(Fields)
  /\ protocol_send_storage_handshake_ok \in Seq(Fields)
  /\ protocol_send_query_confirm \in Seq(Fields)
  /\ protocol_send_query_read_message \in Seq(Fields)
  /\ \A r \in {"SUCCESS", "ERROR"} : protocol_send_query_result(r) \in Seq(Fields)
  /\ \A frame : AnswerTo(frame) \in Seq(Fields)
  /\ \A op, ok, frame : Answer(op, ok, frame) \in Seq(Fields)
<1>1. /\ protocol_send_storage_handshake_ok \in Seq(Fields)
      /\ protocol_send_query_confirm \in Seq(Fields)
  BY Tuples DEF protocol_send_storage_handshake_ok, protocol_send_query_confirm, Fields
<1>2. protocol_send_query_read_message \in Seq(Fields)
  BY SequencesJoin, Strings DEF protocol_send_query_read_message, Fields
<1>3. \A r \in {"SUCCESS", "ERROR"} : protocol_send_query_result(r) \in Seq(Fields)
  BY Tuples DEF protocol_send_query_result, Fields
<1>4. /\ <<"OK">> \in Seq(Fields) /\ <<"REFUSED">> \in Seq(Fields)
      /\ <<"OK", "size", "data">> \in Seq(Fields)
  BY Tuples DEF Fields
<1>5. \A frame : AnswerTo(frame) \in Seq(Fields)
  BY <1>4 DEF AnswerTo
<1>6. \A op, ok, frame : Answer(op, ok, frame) \in Seq(Fields)
  BY <1>4, <1>5 DEF Answer
<1>7. \A frame \in RequestFrames : frame \in Seq(Fields)
  BY RequestFacts DEF Shaped
<1> QED BY <1>1, <1>2, <1>3, <1>5, <1>6, <1>7, ReportsShaped, GreetingsShaped
           DEF Shaped, Path, Ack

LEMMA SendingKnown ==
  ASSUME PathTypeOK, StorageStream, Reports, worker.sending # <<>>
  PROVE  /\ worker.sending[1] \in {"toStorage", "toHandler"}
         /\ worker.sending[2] \in Seq(Fields)
         /\ worker.sending = <<worker.sending[1], worker.sending[2]>>
         /\ worker.at \in {"handshake", "wait", "register", "fetch", "idle"}
<1>1. CASE worker.at = "handshake"
  BY <1>1, FramesTyped DEF StorageStream, AtHandshake
<1>2. CASE worker.at = "wait"
  <2>1. worker.todo # <<>> /\ worker.sending = <<"toStorage", Head(worker.todo).frame>>
    BY <1>2 DEF StorageStream, AtWait
  <2>2. Head(worker.todo) \in Requests(worker.ins)
    BY <2>1, Rest DEF PathTypeOK, WorkerType
  <2> QED BY <1>2, <2>1, <2>2, FramesTyped DEF Requests
<1>3. CASE worker.at \in {"register", "fetch", "idle"}
  BY <1>3, FramesTyped DEF Reports
<1> QED BY <1>1, <1>2, <1>3 DEF StorageStream, Elsewhere, LeftBehind, PathTypeOK, WorkerType

\* What each group of actions leaves alone.
LEMMA ClientTypes ==
  ASSUME PathTypeOK, ClientNext PROVE PathTypeOK'
<1>0. /\ wire \in [Streams -> Seq(Fields)] /\ client.need \in Seq(Fields)
      /\ DOMAIN client = {"at", "need", "result"}
      /\ client.at \in {"start", "confirm", "listen", "result", "lost", "done"}
  BY DEF PathTypeOK, ClientType
<1>1. UNCHANGED <<master, worker, storage>>
  BY DEF ClientNext, ClientSubmits, ClientConfirms, ClientListens, ClientReadsField, ClientDrifts
<1>2. wire' \in [Streams -> Seq(Fields)]
  <2>1. CASE ClientSubmits
    BY <1>0, <2>1, WireSent, FramesTyped DEF ClientSubmits, Streams
  <2>2. CASE ~ClientSubmits
    <3>1. wire["toClient"] # <<>> /\ wire' = [wire EXCEPT !["toClient"] = Tail(@)]
      BY <2>2 DEF ClientNext, ClientConfirms, ClientListens, ClientReadsField, ClientDrifts
    <3>2. Tail(wire["toClient"]) \in Seq(Fields)
      BY <1>0, <3>1, Rest DEF Streams
    <3> QED BY <1>0, <3>1, <3>2
  <2> QED BY <2>1, <2>2
<1>3. ClientType'
  <2>0. /\ protocol_recv_query_confirm \in Seq(Fields)
        /\ protocol_recv_query_read_message \in Seq(Fields)
        /\ protocol_recv_query_result \in Seq(Fields) /\ <<>> \in Seq(Fields)
    BY Tuples, EmptySeq
       DEF protocol_recv_query_confirm, protocol_recv_query_read_message,
           protocol_recv_query_result, Fields
  <2>1. CASE ClientSubmits
    BY <1>0, <2>1 DEF ClientSubmits, ClientType
  <2>2. CASE ClientConfirms
    BY <1>0, <2>0, <2>2 DEF ClientConfirms, ClientType
  <2>3. CASE ClientListens
    BY <1>0, <2>0, <2>3 DEF ClientListens, ClientType
  <2>4. CASE ClientReadsField
    <3>1. Tail(client.need) \in Seq(Fields)
      BY <1>0, <2>4, Rest DEF ClientReadsField
    <3> QED BY <1>0, <2>0, <2>4, <3>1 DEF ClientReadsField, ClientType
  <2>5. CASE ClientDrifts
    BY <1>0, <2>5 DEF ClientDrifts, ClientType
  <2> QED BY <2>1, <2>2, <2>3, <2>4, <2>5 DEF ClientNext
<1> QED BY <1>1, <1>2, <1>3 DEF PathTypeOK, MasterType, WorkerType, master, Gone

MasterNext ==
  \/ MasterAdmits \/ SchedulerAssigns \/ HandlerTruncates \/ HandlerCloses \/ HandlerEnds
  \/ MonitorFinds \/ MonitorRemoves \/ MonitorCloses
  \/ \E t \in Threads : WritesOut(t)
LEMMA MasterTypes ==
  ASSUME PathTypeOK, MasterNext PROVE PathTypeOK'
<1>0. /\ wire \in [Streams -> Seq(Fields)] /\ out \in [Threads -> Seq(Fields)] /\ MasterType
      /\ <<>> \in Seq(Fields)
  BY EmptySeq DEF PathTypeOK, MasterType
<1>1. UNCHANGED <<client, worker, storage>>
  BY DEF MasterNext, MasterAdmits, SchedulerAssigns, HandlerTruncates, HandlerCloses, HandlerEnds,
         MonitorFinds, MonitorRemoves, MonitorCloses, WritesOut, MasterWrites, WriteFails
<1>2. wire' \in [Streams -> Seq(Fields)] /\ MasterType'
  <2>1. CASE MasterAdmits
    BY <1>0, <2>1, FramesTyped DEF MasterAdmits, MasterType
  <2>2. CASE SchedulerAssigns
    BY <1>0, <2>2, WireSent, FramesTyped DEF SchedulerAssigns, MasterType, Streams, Path
  <2>3. CASE HandlerTruncates
    BY <1>0, <2>3 DEF HandlerTruncates, MasterType
  <2>4. CASE HandlerCloses
    BY <1>0, <2>4 DEF HandlerCloses, MasterType
  <2>5. CASE HandlerEnds
    <3>1. handler' \in {"end", "idled"}
      BY <2>5 DEF HandlerEnds
    <3> QED BY <1>0, <2>5, <3>1 DEF HandlerEnds, MasterType
  <2>6. CASE MonitorFinds
    BY <1>0, <2>6 DEF MonitorFinds, MasterType
  <2>7. CASE MonitorRemoves
    BY <1>0, <2>7, FramesTyped DEF MonitorRemoves, MasterType
  <2>8. CASE MonitorCloses
    BY <1>0, <2>8 DEF MonitorCloses, MasterType
  <2>9. ASSUME NEW t \in Threads, MasterWrites(t) PROVE wire' \in [Streams -> Seq(Fields)] /\ MasterType'
    <3>1. /\ Head(out[t]) \in Fields /\ Tail(out[t]) \in Seq(Fields)
          /\ <<Head(out[t])>> \in Seq(Fields)
      BY <1>0, <2>9, Rest, Tuples DEF MasterWrites
    <3> QED BY <1>0, <2>9, <3>1, WireSent DEF MasterWrites, MasterType, Streams
  <2>10. ASSUME NEW t \in Threads, WriteFails(t) PROVE wire' \in [Streams -> Seq(Fields)] /\ MasterType'
    <3>1. session' \in {session, "closed"} /\ handler' \in {handler, "serve"}
      BY <2>10 DEF WriteFails
    <3> QED BY <1>0, <2>10, <3>1 DEF WriteFails, MasterType
  <2> QED BY <2>1, <2>2, <2>3, <2>4, <2>5, <2>6, <2>7, <2>8, <2>9, <2>10 DEF MasterNext, WritesOut
<1> QED BY <1>1, <1>2 DEF PathTypeOK, ClientType, WorkerType, Gone

\* The frame at the head of the Worker's stream, and what it becomes.
LEMMA HandlerHears ==
  ASSUME PathTypeOK, HandlerStream, handler # "new", wire["toHandler"] # <<>>
  PROVE  LET op == Head(wire["toHandler"])
             s  == Tail(wire["toHandler"])
             f  == HandlerReads[op]
         IN  /\ op = wire["toHandler"][1] /\ op \in ReportCodes /\ InStep(s, f)
             /\ Len(f) \in Nat /\ DOMAIN f = 1 .. Len(f) /\ s \in Seq(Fields)
             /\ From(s, Len(f)) \in Seq(Fields)
             /\ Framed(From(s, Len(f)), HandlerReads)
             /\ Complete(wire["toHandler"], HandlerReads) =>
                  Came(s, f) /\ Complete(From(s, Len(f)), HandlerReads)
             /\ Verdict[op] \in Seq(Fields)
<1> DEFINE w == wire["toHandler"]
<1>1. w \in Seq(Fields) /\ w # <<>> /\ Framed(w, HandlerReads)
  BY DEF PathTypeOK, HandlerStream, Streams
<1>2. Head(w) = w[1] /\ Tail(w) \in Seq(Fields)
  BY <1>1, Rest
<1> HIDE DEF w
<1>3. /\ w[1] \in DOMAIN HandlerReads /\ InStep(Tail(w), HandlerReads[w[1]])
      /\ Framed(From(Tail(w), Len(HandlerReads[w[1]])), HandlerReads)
      /\ Complete(w, HandlerReads) =>
           /\ Came(Tail(w), HandlerReads[w[1]])
           /\ Complete(From(Tail(w), Len(HandlerReads[w[1]])), HandlerReads)
  BY <1>1, FrameTaken, ReportFacts
<1>4. /\ w[1] \in ReportCodes /\ Len(HandlerReads[w[1]]) \in Nat
      /\ DOMAIN HandlerReads[w[1]] = 1 .. Len(HandlerReads[w[1]])
  BY <1>3, ReportFacts
<1>5. From(Tail(w), Len(HandlerReads[w[1]])) \in Seq(Fields)
  BY <1>2, <1>4, Dropped
<1>6. Verdict[w[1]] \in Seq(Fields)
  BY <1>4, FramesTyped DEF Verdict, ReportCodes
<1> QED BY <1>2, <1>3, <1>4, <1>5, <1>6 DEF w

LEMMA HandlerTypes ==
  ASSUME PathTypeOK, HandlerStream, MasterRegisters \/ HandlerReceives
  PROVE  PathTypeOK'
<1>0. /\ wire \in [Streams -> Seq(Fields)] /\ out \in [Threads -> Seq(Fields)] /\ MasterType
      /\ <<>> \in Seq(Fields)
  BY EmptySeq DEF PathTypeOK, MasterType
<1>1. UNCHANGED <<client, worker, storage>>
  BY DEF MasterRegisters, HandlerReceives
<1>2. CASE MasterRegisters
  <2>1. From(wire["toHandler"], 2) \in Seq(Fields)
    BY <1>0, Dropped DEF Streams
  <2>2. Sent("toWorker", protocol_send_worker_register_ack) \in [Streams -> Seq(Fields)]
        /\ Sent("toWorker", protocol_send_worker_register_ack)["toHandler"] = wire["toHandler"]
    <3>1. protocol_send_worker_register_ack \in Seq(Fields)
      BY FramesTyped DEF Ack
    <3>2. "toWorker" \in Streams /\ "toHandler" \in Streams \ {"toWorker"}
      BY DEF Streams
    <3> QED BY <1>0, <3>1, <3>2, WireSent
  <2>3. wire' \in [Streams -> Seq(Fields)]
    <3>1. \/ wire' = [wire EXCEPT !["toHandler"] = <<>>]
          \/ wire' = [Sent("toWorker", protocol_send_worker_register_ack)
                        EXCEPT !["toHandler"] = From(@, 2)]
      BY <1>2 DEF MasterRegisters
    <3> QED BY <1>0, <2>1, <2>2, <3>1
  <2>4. MasterType'
    BY <1>0, <1>2 DEF MasterRegisters, MasterType
  <2> QED BY <1>1, <2>3, <2>4 DEF PathTypeOK, ClientType, WorkerType, Gone
<1>3. CASE HandlerReceives
  <2>1. handler # "new" /\ wire["toHandler"] # <<>>
    BY <1>3 DEF HandlerReceives
  <2>2. PICK s \in Seq(Fields), v \in Seq(Fields) :
          /\ wire' = [wire EXCEPT !["toHandler"] = s]
          /\ out' \in {out, [out EXCEPT !["handler"] = v]}
          /\ handler' \in {"close", handler} /\ UNCHANGED <<session, monitor>>
    BY <1>3, <2>1, HandlerHears DEF HandlerReceives
  <2>3. wire' \in [Streams -> Seq(Fields)] /\ MasterType'
    BY <1>0, <2>2 DEF MasterType
  <2> QED BY <1>1, <2>3 DEF PathTypeOK, ClientType, WorkerType, Gone
<1> QED BY <1>2, <1>3

LEMMA HeadAsked ==
  ASSUME PathTypeOK, worker.todo # <<>>
  PROVE  /\ Head(worker.todo) \in Requests(worker.ins)
         /\ Head(worker.todo).frame \in RequestFrames
         /\ Head(worker.todo).frame \in Seq(Fields)
         /\ Head(worker.todo).frame # <<>>
         /\ Tail(worker.todo) \in Seq(Requests(worker.ins))
<1>1. /\ Head(worker.todo) \in Requests(worker.ins)
      /\ Tail(worker.todo) \in Seq(Requests(worker.ins))
  BY Rest DEF PathTypeOK, WorkerType
<1>2. Head(worker.todo).frame \in RequestFrames
  BY <1>1 DEF Requests
<1>3. PICK f \in RequestFrames : f = Head(worker.todo).frame
  BY <1>2
<1>4. f \in Seq(Fields) /\ Len(f) > 0
  BY RequestFacts DEF Shaped
<1> QED BY <1>1, <1>3, <1>4, Emptied

WorkerMoves ==
  WorkerConnects \/ WorkerFetches \/ WorkerFinishes \/ WorkerRequests \/ WorkerGoesOn
WorkerListens ==
  WorkerRegisters \/ WorkerRegistered \/ WorkerTakesPath \/ WorkerHears \/ WorkerHearsNothing

LEMMA TodoTyped ==
  ASSUME PathTypeOK, worker.todo # <<>>, NEW ok \in BOOLEAN
  PROVE  /\ Todo(ok, Head(worker.todo).role) \in Seq(Requests(worker.ins))
         /\ Failed(ok, Head(worker.todo).role) \in BOOLEAN
<1>1. /\ Tail(worker.todo) \in Seq(Requests(worker.ins)) /\ <<>> \in Seq(Requests(worker.ins))
      /\ Head(worker.todo).role \in {"fail", "note", "retry", "answer", "send", "ignore"}
  BY HeadAsked, EmptySeq DEF Requests
<1>2. solicitar_pagina_storage("note") \in Seq(Requests(worker.ins))
  <2>1. ReadFrame # protocol_send_worker_truncate
    BY RequestsShaped DEF Shaped
  <2>2. Req(ReadFrame, "note") \in Requests(worker.ins)
    BY <2>1 DEF Req, Requests, RequestFrames
  <2> QED BY <2>2, Tuples DEF solicitar_pagina_storage
<1> QED BY <1>1, <1>2 DEF Todo, Failed, PathTypeOK, WorkerType

LEMMA WorkerTypes ==
  ASSUME PathTypeOK, StorageStream, Reports, WorkerMoves \/ WorkerListens \/ WorkerSends \/ WorkerDies
  PROVE  PathTypeOK'
<1>0. /\ wire \in [Streams -> Seq(Fields)] /\ WorkerType
      /\ <<>> \in Seq(Requests(worker.ins))
  BY EmptySeq DEF PathTypeOK
<1>1. UNCHANGED <<client, master, storage>>
  BY DEF WorkerMoves, WorkerListens, WorkerConnects, WorkerFetches, WorkerFinishes, WorkerRequests,
         WorkerGoesOn, WorkerRegisters, WorkerRegistered, WorkerTakesPath, WorkerHears,
         WorkerHearsNothing, WorkerSends, WorkerDies
<1>2. CASE WorkerMoves
  <2>1. wire' = wire
    BY <1>2 DEF WorkerMoves, WorkerConnects, WorkerFetches, WorkerFinishes, WorkerRequests,
                WorkerGoesOn
  <2>2. WorkerType'
    <3>1. CASE WorkerConnects
      BY <1>0, <3>1 DEF WorkerConnects, WorkerType, Sending
    <3>2. CASE WorkerFetches
      <4>1. PICK i \in Instructions :
              worker' = [worker EXCEPT !.at = "execute", !.ins = i[1], !.todo = i[2],
                                       !.failed = FALSE]
        BY <3>2 DEF WorkerFetches
      <4>2. i[2] \in Seq(Requests(i[1]))
        BY InstructionsAsk
      <4> QED BY <1>0, <4>1, <4>2 DEF WorkerType
    <3>3. CASE WorkerFinishes
      BY <1>0, <3>3 DEF WorkerFinishes, WorkerType, Sending
    <3>4. CASE WorkerRequests
      BY <1>0, <3>4 DEF WorkerRequests, WorkerType, Sending
    <3>5. CASE WorkerGoesOn
      <4>1. CASE worker.failed
        BY <1>0, <3>5, <4>1 DEF WorkerGoesOn, WorkerType, Sending
      <4>2. CASE ~worker.failed /\ worker.ins = "READ"
        <5>1. worker' = [worker EXCEPT !.at = "fetch", !.done = @ + 1, !.todo = <<>>,
                           !.sending = <<"toHandler", protocol_send_worker_read_result>>]
          BY <3>5, <4>2 DEF WorkerGoesOn
        <5> QED BY <1>0, <5>1 DEF WorkerType
      <4>3. CASE ~worker.failed /\ worker.ins # "READ"
        <5>1. worker' = [worker EXCEPT !.at = "fetch", !.done = @ + 1]
          BY <3>5, <4>3 DEF WorkerGoesOn
        <5> QED BY <1>0, <5>1 DEF WorkerType
      <4> QED BY <4>1, <4>2, <4>3
    <3> QED BY <1>2, <3>1, <3>2, <3>3, <3>4, <3>5 DEF WorkerMoves
  <2> QED BY <1>1, <2>1, <2>2 DEF PathTypeOK, ClientType, MasterType, master
<1>3. CASE WorkerListens
  <2>1. wire' \in [Streams -> Seq(Fields)]
    <3>1. \A w \in Streams, n \in Nat : From(wire[w], n) \in Seq(Fields)
      BY <1>0, Dropped
    <3>2. \A frame : Len(AnswerTo(frame)) \in Nat
      BY FramesTyped, LenProperties
    <3>3. Len(protocol_recv_master_path) \in Nat
      BY GreetingsShaped DEF Shaped
    <3>4. "toWorker" \in Streams /\ "fromStorage" \in Streams
      BY DEF Streams
    <3>5. wire["fromStorage"] # <<>> => Tail(wire["fromStorage"]) \in Seq(Fields)
      BY <1>0, <3>4, Rest
    <3>6. CASE WorkerRegisters
      BY <1>0, <3>1, <3>4, <3>6 DEF WorkerRegisters
    <3>7. CASE WorkerRegistered
      BY <1>0, <3>1, <3>4, <3>7 DEF WorkerRegistered
    <3>8. CASE WorkerTakesPath
      BY <1>0, <3>1, <3>3, <3>4, <3>8 DEF WorkerTakesPath
    <3>9. CASE WorkerHears
      BY <1>0, <3>1, <3>2, <3>4, <3>5, <3>9 DEF WorkerHears
    <3>10. CASE WorkerHearsNothing
      BY <1>0, <3>10 DEF WorkerHearsNothing
    <3> QED BY <1>3, <3>6, <3>7, <3>8, <3>9, <3>10 DEF WorkerListens
  <2>2. WorkerType'
    <3>1. CASE WorkerRegisters
      BY <1>0, <3>1 DEF WorkerRegisters, WorkerType, Sending
    <3>2. CASE WorkerRegistered
      BY <1>0, <3>2 DEF WorkerRegistered, WorkerType
    <3>3. CASE WorkerTakesPath
      BY <1>0, <3>3 DEF WorkerTakesPath, WorkerType
    <3>4. ASSUME WorkerHears \/ WorkerHearsNothing PROVE worker.todo # <<>>
      BY <3>4 DEF WorkerHears, WorkerHearsNothing, StorageStream, AtWait
    <3>5. CASE WorkerHears
      <4>1. PICK ok \in BOOLEAN :
              worker' = [worker EXCEPT !.at = "execute", !.todo = Todo(ok, Head(worker.todo).role),
                                       !.failed = Failed(ok, Head(worker.todo).role)]
        BY <3>5 DEF WorkerHears
      <4>2. /\ Todo(ok, Head(worker.todo).role) \in Seq(Requests(worker.ins))
            /\ Failed(ok, Head(worker.todo).role) \in BOOLEAN
        BY <3>4, <3>5, TodoTyped
      <4> QED BY <1>0, <4>1, <4>2 DEF WorkerType
    <3>6. CASE WorkerHearsNothing
      <4>1. PICK gives \in BOOLEAN :
              worker' = [worker EXCEPT !.at = "execute",
                           !.todo = IF gives THEN <<>> ELSE Todo(FALSE, Head(worker.todo).role),
                           !.failed = gives \/ Failed(FALSE, Head(worker.todo).role)]
        BY <3>6 DEF WorkerHearsNothing
      <4>2. /\ Todo(FALSE, Head(worker.todo).role) \in Seq(Requests(worker.ins))
            /\ Failed(FALSE, Head(worker.todo).role) \in BOOLEAN
        BY <3>4, <3>6, TodoTyped
      <4> QED BY <1>0, <4>1, <4>2 DEF WorkerType
    <3> QED BY <1>3, <3>1, <3>2, <3>3, <3>5, <3>6 DEF WorkerListens
  <2> QED BY <1>1, <2>1, <2>2 DEF PathTypeOK, ClientType, MasterType, master
<1>4. CASE WorkerSends
  <2>1. wire' \in [Streams -> Seq(Fields)]
    <3>1. worker.sending # <<>>
      BY <1>4 DEF WorkerSends
    <3>2. worker.sending[1] \in Streams /\ worker.sending[2] \in Seq(Fields)
      BY <3>1, SendingKnown DEF Streams
    <3>3. Sent(worker.sending[1], worker.sending[2]) \in [Streams -> Seq(Fields)]
      BY <1>0, <3>2, WireSent
    <3> QED BY <1>0, <1>4, <3>3 DEF WorkerSends
  <2>2. WorkerType'
    BY <1>0, <1>4 DEF WorkerSends, WorkerType
  <2> QED BY <1>1, <2>1, <2>2 DEF PathTypeOK, ClientType, MasterType, master
<1>5. CASE WorkerDies
  <2>1. wire' \in [Streams -> Seq(Fields)]
    <3>1. CASE worker.sending = <<>>
      BY <1>0, <1>5, <3>1 DEF WorkerDies
    <3>2. CASE worker.sending # <<>>
      <4>1. PICK w \in Streams, frame \in Seq(Fields) : worker.sending[1] = w /\ worker.sending[2] = frame
        BY <3>2, SendingKnown DEF Streams
      <4>2. PICK n \in 0 .. Len(frame) - 1 : wire' = Sent(w, SubSeq(frame, 1, n))
        BY <1>5, <3>2, <4>1 DEF WorkerDies
      <4>3. SubSeq(frame, 1, n) \in Seq(Fields)
        BY SubSeqProperties
      <4> QED BY <1>0, <4>2, <4>3, WireSent
    <3> QED BY <3>1, <3>2
  <2>2. WorkerType'
    BY <1>0, <1>5 DEF WorkerDies, WorkerType
  <2> QED BY <1>1, <2>1, <2>2 DEF PathTypeOK, ClientType, MasterType, master
<1> QED BY <1>2, <1>3, <1>4, <1>5

\* The beginning of the frame Storage is served, and what it becomes.
LEMMA StorageHears ==
  ASSUME PathTypeOK, StorageStream, storage = "serve", wire["toStorage"] # <<>>
  PROVE  LET r  == Head(worker.todo)
             op == Head(wire["toStorage"])
             s  == Tail(wire["toStorage"])
             f  == StorageReads[op]
         IN  /\ worker.todo # <<>> /\ worker.sending = <<>> /\ worker.at \in {"wait", "gone"}
             /\ r \in Requests(worker.ins) /\ op = r.frame[1]
             /\ worker.at = "wait" => Came(s, f) /\ wire["fromStorage"] = <<>>
             /\ InStep(s, f) /\ From(s, Len(f)) = <<>>
             /\ ~Came(s, f) /\ ~InVain(s, f) => op \in {"READ", "WRITE", "TAG", "DELETE", "COMMIT"}
<1> DEFINE w == wire["toStorage"]
           r == Head(worker.todo)
<1>1. /\ w \in Seq(Fields) /\ worker.todo # <<>> /\ worker.sending = <<>> /\ Begins(w, r.frame)
      /\ worker.at \in {"wait", "gone"} 
      /\ worker.at = "wait" => w = r.frame /\ wire["fromStorage"] = <<>>
  <2>1. w \in Seq(Fields)
    BY DEF PathTypeOK, Streams
  <2>2. CASE worker.at = "wait"
    <3>1. worker.todo # <<>> /\ worker.sending = <<>> /\ w = r.frame /\ wire["fromStorage"] = <<>>
      BY <2>2 DEF StorageStream, AtWait, Asks, Answered, Quiet
    <3>2. Begins(r.frame, r.frame)
      BY <2>1, <3>1 DEF Begins
    <3> QED BY <2>1, <2>2, <3>1, <3>2
  <2>3. CASE worker.at = "gone"
    BY <2>1, <2>3 DEF StorageStream, LeftBehind
  <2>4. worker.at \in {"wait", "gone"}
    BY DEF StorageStream, AtHandshake, Asks, Answered, Elsewhere, Quiet
  <2> QED BY <2>2, <2>3, <2>4
<1>2. PICK frame \in RequestFrames : frame = r.frame
  BY <1>1, HeadAsked
<1>3. r \in Requests(worker.ins)
  BY <1>1, HeadAsked
<1>4. /\ Len(w) > 0 /\ Head(w) = w[1] /\ w[1] = frame[1]
      /\ Tail(w) \in Seq(Fields) /\ Len(Tail(w)) = Len(w) - 1 /\ DOMAIN Tail(w) = 1 .. Len(w) - 1
      /\ \A i \in 1 .. Len(w) - 1 : Tail(w)[i] = w[i + 1]
      /\ Len(w) \in Nat
  BY <1>1, <1>2, Rest DEF Begins
<1> DEFINE f == StorageReads[frame[1]]
<1>5. /\ Len(f) \in Nat /\ DOMAIN f = 1 .. Len(f) /\ Len(frame) = 1 + Len(f)
      /\ \A i \in 1 .. Len(f) : Kind(frame[1 + i]) = f[i].kind
  BY RequestFacts DEF Shaped
<1>6. frame[1] \in {"CREATE", "TRUNCATE"} => f[Len(f)].noticed
  BY RequestFacts
<1>7. frame[1] \in {"CREATE", "TRUNCATE", "TAG", "COMMIT", "DELETE", "READ", "WRITE"}
  BY RequestFacts
<1> HIDE DEF w, r, f
<1>8. Len(w) <= 1 + Len(f) /\ \A i \in 1 .. Len(w) : w[i] = frame[i]
  BY <1>1, <1>2, <1>5 DEF Begins
<1>9. InStep(Tail(w), f)
  <2>1. ASSUME NEW i \in 1 .. Len(f), i \in 1 .. Len(w) - 1 PROVE Kind(Tail(w)[i]) = f[i].kind
    BY <1>4, <1>5, <1>8, <2>1
  <2> QED BY <1>4, <1>5, <2>1 DEF InStep
<1>10. From(Tail(w), Len(f)) = <<>>
  <2>1. Len(f) >= Len(Tail(w))
    BY <1>4, <1>5, <1>8
  <2> QED BY <1>4, <1>5, <2>1, Dropped
<1>11. worker.at = "wait" => Came(Tail(w), f)
  BY <1>1, <1>2, <1>4, <1>5 DEF Came
<1>12. ~Came(Tail(w), f) => Len(f) \in DOMAIN f \ DOMAIN Tail(w)
  BY <1>4, <1>5 DEF Came
<1>13. ~Came(Tail(w), f) /\ ~InVain(Tail(w), f) => frame[1] \notin {"CREATE", "TRUNCATE"}
  BY <1>6, <1>12 DEF InVain
<1> QED BY <1>1, <1>2, <1>3, <1>4, <1>7, <1>9, <1>10, <1>11, <1>13 DEF w, r, f

LEMMA StorageTypes ==
  ASSUME PathTypeOK, StorageStream, StorageNext \/ StorageEnds
  PROVE  PathTypeOK'
<1>0. /\ wire \in [Streams -> Seq(Fields)] /\ <<>> \in Seq(Fields)
      /\ "toStorage" \in Streams /\ "fromStorage" \in Streams
  BY EmptySeq DEF PathTypeOK, Streams
<1>1. UNCHANGED <<client, master, worker>>
  BY DEF StorageNext, StorageAccepts, StorageServes, StorageEnds
<1>2. wire' \in [Streams -> Seq(Fields)] /\ storage' \in {"serve", "gone", storage}
  <2>1. CASE StorageEnds
    BY <1>0, <2>1 DEF StorageEnds
  <2>2. CASE StorageNext
    <3>0. From(wire["toStorage"], 2) \in Seq(Fields)
      BY <1>0, Dropped
    <3>1. \/ wire' = [wire EXCEPT !["toStorage"] = <<>>]
          \/ \E u, v \in Seq(Fields) : wire' = [Sent("fromStorage", u) EXCEPT !["toStorage"] = v]
      <4>1. CASE StorageAccepts
        <5>1. \/ wire' = [wire EXCEPT !["toStorage"] = <<>>]
              \/ wire' = [Sent("fromStorage", protocol_send_storage_handshake_ok)
                            EXCEPT !["toStorage"] = From(@, 2)]
          BY <4>1 DEF StorageAccepts
        <5>2. /\ protocol_send_storage_handshake_ok \in Seq(Fields)
              /\ "toStorage" \in Streams \ {"fromStorage"}
          BY FramesTyped DEF Streams
        <5>3. Sent("fromStorage", protocol_send_storage_handshake_ok)["toStorage"] = wire["toStorage"]
          BY <1>0, <5>2, WireSent
        <5> QED BY <3>0, <5>1, <5>2, <5>3
      <4>2. CASE StorageServes
        <5>1. storage = "serve" /\ wire["toStorage"] # <<>>
          BY <4>2 DEF StorageServes
        <5>2. PICK op, ok, frame :
                \/ wire' = [wire EXCEPT !["toStorage"] = <<>>]
                \/ wire' = [Sent("fromStorage", Answer(op, ok, frame)) EXCEPT !["toStorage"] = <<>>]
          BY <4>2, <5>1, StorageHears DEF StorageServes
        <5> QED BY <1>0, <5>2, FramesTyped
      <4> QED BY <2>2, <4>1, <4>2 DEF StorageNext
    <3>2. ASSUME wire' = [wire EXCEPT !["toStorage"] = <<>>]
          PROVE  wire' \in [Streams -> Seq(Fields)]
      BY <1>0, <3>2
    <3>3. ASSUME NEW u \in Seq(Fields), NEW v \in Seq(Fields),
                 wire' = [Sent("fromStorage", u) EXCEPT !["toStorage"] = v]
          PROVE  wire' \in [Streams -> Seq(Fields)]
      BY <1>0, <3>3, WireSent
    <3>4. storage' \in {"serve", "gone", storage}
      BY <2>2 DEF StorageNext, StorageAccepts, StorageServes
    <3> QED BY <3>1, <3>2, <3>3, <3>4
  <2> QED BY <2>1, <2>2
<1> QED BY <1>1, <1>2 DEF PathTypeOK, ClientType, MasterType, WorkerType, master, Gone

-----------------------------------------------------------------------------
(***************************************************************************)
(* The Worker and Storage stay in step                                     *)
(***************************************************************************)
\* The streams an action does not write or read.
LEMMA ClientStreams ==
  ASSUME PathTypeOK, ClientNext
  PROVE  /\ \A v \in Streams \ {"toMaster", "toClient"} : wire'[v] = wire[v]
         /\ UNCHANGED <<master, worker, storage, history>>
BY DEF ClientNext, ClientSubmits, ClientConfirms, ClientListens, ClientReadsField, ClientDrifts,
       PathTypeOK, Streams, Sent

LEMMA MasterStreams ==
  ASSUME PathTypeOK, MasterNext
  PROVE  /\ \A v \in Streams \ {"toMaster", "toClient", "toWorker"} : wire'[v] = wire[v]
         /\ UNCHANGED <<client, worker, storage, unmet, cut>>
<1>1. CASE \E t \in Threads : WritesOut(t)
  BY <1>1 DEF WritesOut, MasterWrites, WriteFails, PathTypeOK, Streams, Sent, history
<1>2. CASE ~(\E t \in Threads : WritesOut(t))
  BY <1>2 DEF MasterNext, MasterAdmits, SchedulerAssigns, HandlerTruncates, HandlerCloses,
              HandlerEnds, MonitorFinds, MonitorRemoves, MonitorCloses, PathTypeOK, Streams, Sent,
              history
<1> QED BY <1>1, <1>2

LEMMA HandlerStreams ==
  ASSUME PathTypeOK, MasterRegisters \/ HandlerReceives
  PROVE  /\ \A v \in Streams \ {"toHandler", "toWorker"} : wire'[v] = wire[v]
         /\ UNCHANGED <<client, worker, storage, unmet, trouble>>
<1>1. CASE MasterRegisters
  BY <1>1 DEF MasterRegisters, PathTypeOK, Streams, Sent, history
<1>2. CASE HandlerReceives
  BY <1>2 DEF HandlerReceives, PathTypeOK, Streams
<1> QED BY <1>1, <1>2

LEMMA StorageStreamStays ==
  ASSUME StorageStream, UNCHANGED <<worker, storage>>,
         wire'["toStorage"] = wire["toStorage"], wire'["fromStorage"] = wire["fromStorage"]
  PROVE  StorageStream'
BY DEF StorageStream, AtHandshake, AtWait, Asks, Answered, Answers, Elsewhere, LeftBehind, Quiet

LEMMA ShortFrames ==
  /\ Len(protocol_send_storage_handshake_ok) = 2 /\ Len(protocol_send_worker_handshake) = 2
  /\ protocol_send_storage_handshake_ok # <<>> /\ protocol_send_worker_handshake # <<>>
  /\ Len(protocol_send_worker_register_ack) = 2 /\ Len(protocol_send_worker_register_master) = 2
  /\ protocol_send_storage_handshake_ok # <<"REFUSED">>
BY DEF protocol_send_storage_handshake_ok, protocol_send_worker_handshake,
       protocol_send_worker_register_ack, protocol_send_worker_register_master

LEMMA WholeTaken ==
  ASSUME NEW s \in Seq(Fields), NEW n \in Nat, Len(s) <= n PROVE From(s, n) = <<>>
BY Dropped

LEMMA AnswersKnown ==
  ASSUME NEW frame
  PROVE  /\ AnswerTo(frame)[1] = "OK" /\ AnswerTo(frame) # <<>> /\ AnswerTo(frame) \in Seq(Fields)
         /\ From(AnswerTo(frame), Len(AnswerTo(frame))) = <<>>
         /\ Tail(<<"REFUSED">>) = <<>> /\ <<"REFUSED">> # <<>> /\ <<"REFUSED">> # AnswerTo(frame)
<1>1. AnswerTo(frame) \in {<<"OK">>, <<"OK", "size", "data">>}
  BY DEF AnswerTo
<1>2. AnswerTo(frame) \in Seq(Fields) /\ Len(AnswerTo(frame)) \in Nat
  BY FramesTyped
<1>3. From(AnswerTo(frame), Len(AnswerTo(frame))) = <<>>
  BY <1>2, Dropped
<1> QED BY <1>1, <1>2, <1>3

LEMMA WorkerKeepsStorageStream ==
  ASSUME PathTypeOK, StorageStream, Reports,
         WorkerMoves \/ WorkerListens \/ WorkerSends \/ WorkerDies
  PROVE  StorageStream'
<1>0. /\ wire \in [Streams -> Seq(Fields)] /\ DOMAIN worker = {"at", "ins", "todo", "failed", "done", "sending"}
      /\ "toStorage" \in Streams /\ "fromStorage" \in Streams /\ "toHandler" \in Streams
      /\ worker.at \in {"down", "handshake", "register", "idle", "fetch", "execute", "wait", "gone"}
      /\ storage \in {"accept", "serve", "gone"}
  BY DEF PathTypeOK, WorkerType, Streams
<1> DEFINE Still == UNCHANGED <<storage, wire>>
<1>1. CASE WorkerConnects
  BY <1>0, <1>1 DEF WorkerConnects, Sending, StorageStream, AtHandshake, Quiet
<1>2. CASE WorkerFetches
  BY <1>0, <1>2 DEF WorkerFetches, Resting, StorageStream, Elsewhere, Quiet
<1>3. CASE WorkerFinishes
  BY <1>0, <1>3 DEF WorkerFinishes, Sending, StorageStream, Elsewhere, Quiet
<1>4. CASE WorkerRequests
  BY <1>0, <1>4 DEF WorkerRequests, Sending, StorageStream, Elsewhere, AtWait, Quiet
<1>5. CASE WorkerGoesOn
  <2>1. Elsewhere /\ worker'.at \in {"fetch", "idle"} /\ UNCHANGED <<storage, wire>>
    BY <1>0, <1>5 DEF WorkerGoesOn, Sending, StorageStream
  <2> QED BY <2>1 DEF StorageStream, Elsewhere, Quiet
<1>6. CASE WorkerRegisters
  <2>1. AtHandshake /\ worker.sending = <<>>
    BY <1>6 DEF WorkerRegisters, StorageStream, Resting
  <2>2. CASE Came(wire["fromStorage"], protocol_send_storage_handshake_ok)
    <3>1. wire["fromStorage"] # <<>>
      BY <2>2, ShortFrames DEF Came
    <3>2. /\ wire["fromStorage"] = protocol_send_storage_handshake_ok /\ wire["toStorage"] = <<>>
          /\ storage # "accept"
      BY <2>1, <3>1 DEF AtHandshake, Asks, Answered, Quiet
    <3>3. From(wire["fromStorage"], 2) = <<>>
      <4>1. From(protocol_send_storage_handshake_ok, 2) = <<>>
        <5>1. protocol_send_storage_handshake_ok \in Seq(Fields)
          BY FramesTyped
        <5>2. Len(protocol_send_storage_handshake_ok) <= 2
          BY ShortFrames
        <5> QED BY <5>1, <5>2, WholeTaken
      <4> QED BY <3>2, <4>1
    <3>4. /\ worker' = [worker EXCEPT !.at = "register",
                          !.sending = <<"toHandler", protocol_send_worker_register_master>>]
          /\ wire' = [wire EXCEPT !["fromStorage"] = From(@, 2)] /\ storage' = storage
      BY <1>6, <2>2 DEF WorkerRegisters, Sending
    <3> QED BY <1>0, <3>2, <3>3, <3>4 DEF StorageStream, Elsewhere, Quiet
  <2>3. CASE ~Came(wire["fromStorage"], protocol_send_storage_handshake_ok)
    BY <1>0, <1>6, <2>1, <2>3 DEF WorkerRegisters, StorageStream, LeftBehind
  <2> QED BY <2>2, <2>3
<1>7. CASE WorkerRegistered \/ WorkerTakesPath
  <2>1. /\ Elsewhere /\ worker.sending = <<>> /\ storage' = storage
        /\ worker'.at \in {"idle", "fetch"} /\ worker'.sending = worker.sending
        /\ wire'["toStorage"] = wire["toStorage"] /\ wire'["fromStorage"] = wire["fromStorage"]
    BY <1>0, <1>7 DEF WorkerRegistered, WorkerTakesPath, Resting, StorageStream
  <2> QED BY <2>1 DEF StorageStream, Elsewhere, Quiet
<1>8. CASE WorkerHears
  <2>1. AtWait /\ worker.sending = <<>> /\ wire["fromStorage"] # <<>>
    BY <1>8 DEF WorkerHears, StorageStream, Resting
  <2>2. Answered(Answers)
    BY <2>1 DEF AtWait, Asks, Quiet
  <2>3. wire'["fromStorage"] = <<>> /\ wire'["toStorage"] = wire["toStorage"]
    <3>1. CASE wire["fromStorage"] = <<"REFUSED">>
      BY <1>0, <1>8, <3>1, AnswersKnown DEF WorkerHears
    <3>2. CASE wire["fromStorage"] = AnswerTo(Head(worker.todo).frame)
      BY <1>0, <1>8, <3>2, AnswersKnown DEF WorkerHears
    <3> QED BY <2>2, <3>1, <3>2 DEF Answered, Answers
  <2>4. worker'.at = "execute" /\ worker'.sending = <<>> /\ storage' = storage
    BY <1>0, <1>8, <2>1 DEF WorkerHears
  <2> QED BY <2>2, <2>3, <2>4 DEF StorageStream, Elsewhere, Quiet, Answered
<1>9. CASE WorkerHearsNothing
  <2>1. AtWait /\ worker.sending = <<>> /\ wire["fromStorage"] = <<>> /\ storage = "gone"
    BY <1>9 DEF WorkerHearsNothing, StorageStream, Resting
  <2>2. Quiet
    BY <2>1, AnswersKnown DEF AtWait, Asks, Answered, Answers, Quiet
  <2>3. worker'.at = "execute" /\ worker'.sending = <<>> /\ UNCHANGED <<storage, wire>>
    BY <1>0, <1>9, <2>1 DEF WorkerHearsNothing
  <2> QED BY <2>1, <2>2, <2>3 DEF StorageStream, Elsewhere, Quiet
<1>10. CASE WorkerSends
  <2>1. /\ worker'.at = worker.at /\ worker'.sending = <<>> /\ worker'.todo = worker.todo
        /\ worker.sending # <<>> /\ storage' = storage
    BY <1>0, <1>10 DEF WorkerSends
  <2>2. CASE worker.sending[1] = "toHandler"
    <3>1. worker.at \in {"register", "fetch", "idle"}
      BY <2>1, <2>2, SendingKnown DEF StorageStream, AtHandshake, AtWait
    <3>2. wire' = Sent("toHandler", worker.sending[2])
      BY <1>10, <2>2 DEF WorkerSends
    <3>3. wire'["toStorage"] = wire["toStorage"] /\ wire'["fromStorage"] = wire["fromStorage"]
      BY <1>0, <3>2 DEF Sent
    <3> QED BY <2>1, <3>1, <3>3 DEF StorageStream, Elsewhere, Quiet
  <2>3. CASE worker.sending[1] = "toStorage"
    <3>1. /\ Quiet
          /\ \/ /\ worker.at = "handshake" /\ worker.sending[2] = protocol_send_worker_handshake
                /\ storage # "serve"
             \/ /\ worker.at = "wait" /\ worker.todo # <<>>
                /\ worker.sending[2] = Head(worker.todo).frame /\ storage # "accept"
      BY <1>0, <2>1, <2>3 DEF StorageStream, AtHandshake, AtWait, LeftBehind, Elsewhere, Reports
    <3>2. worker.sending[2] \in Seq(Fields)
      BY <2>1, SendingKnown
    <3>3. CASE storage = "gone"
      <4>1. wire' = wire
        BY <1>10, <2>3, <3>3 DEF WorkerSends
      <4> QED BY <2>1, <3>1, <3>3, <4>1 DEF StorageStream, AtHandshake, AtWait, Asks, Quiet
    <3>4. CASE storage # "gone"
      <4>1. wire' = Sent("toStorage", worker.sending[2])
        BY <1>10, <2>3, <3>4 DEF WorkerSends
      <4>2. wire'["toStorage"] = worker.sending[2] /\ wire'["fromStorage"] = <<>>
        BY <1>0, <3>1, <3>2, <4>1, Joined DEF Sent, Quiet
      <4> QED BY <1>0, <2>1, <3>1, <3>4, <4>2 DEF StorageStream, AtHandshake, AtWait, Asks
    <3> QED BY <3>3, <3>4
  <2> QED BY <2>1, <2>2, <2>3, SendingKnown
<1>11. CASE WorkerDies
  <2>1. /\ worker'.at = "gone" /\ worker'.sending = <<>> /\ worker'.todo = worker.todo
        /\ storage' = storage /\ worker.at # "gone"
    BY <1>0, <1>11 DEF WorkerDies, Gone
  <2> SUFFICES ASSUME storage # "gone" PROVE LeftBehind'
    BY <2>1 DEF StorageStream, LeftBehind
  <2>2. CASE worker.sending = <<>>
    <3>1. wire' = wire
      BY <1>11, <2>2 DEF WorkerDies
    <3>2. \A frame \in Seq(Fields) : Begins(frame, frame) /\ Begins(<<>>, frame)
      BY EmptySeq DEF Begins
    <3>3. \/ Quiet
          \/ /\ storage = "accept" /\ wire["toStorage"] = protocol_send_worker_handshake
          \/ /\ storage = "serve" /\ wire["toStorage"] = <<>>
          \/ /\ storage = "serve" /\ worker.todo # <<>> /\ wire["toStorage"] = Head(worker.todo).frame
      BY <1>0, <2>1, <2>2 DEF StorageStream, AtHandshake, AtWait, Asks, Answered, Elsewhere, Quiet
    <3> QED BY <1>0, <2>1, <3>1, <3>2, <3>3, FramesTyped, HeadAsked DEF LeftBehind, Quiet
  <2>3. CASE worker.sending # <<>>
    <3>1. PICK w \in {"toStorage", "toHandler"}, frame \in Seq(Fields) :
            worker.sending = <<w, frame>> /\ worker.at \in {"handshake", "wait", "register", "fetch", "idle"}
      BY <2>3, SendingKnown
    <3>2. PICK n \in 0 .. Len(frame) - 1 : wire' = Sent(w, SubSeq(frame, 1, n))
      BY <1>11, <2>3, <3>1 DEF WorkerDies
    <3>3. SubSeq(frame, 1, n) \in Seq(Fields) /\ Begins(SubSeq(frame, 1, n), frame)
      BY SubSeqProperties DEF Begins
    <3>4. Quiet
      BY <1>0, <2>3, <3>1 DEF StorageStream, AtHandshake, AtWait, Elsewhere
    <3>5. /\ w = "toStorage" => wire'["toStorage"] = SubSeq(frame, 1, n)
          /\ w = "toHandler" => wire'["toStorage"] = <<>>
      <4>1. <<>> \o SubSeq(frame, 1, n) = SubSeq(frame, 1, n)
        BY <3>3, ConcatEmptySeq
      <4> QED BY <1>0, <3>2, <3>4, <4>1 DEF Sent, Quiet
    <3>6. CASE w = "toStorage"
      <4>1. \/ /\ worker.at = "handshake" /\ frame = protocol_send_worker_handshake
                /\ storage # "serve"
            \/ /\ worker.at = "wait" /\ worker.todo # <<>>
                /\ frame = Head(worker.todo).frame /\ storage # "accept"
        BY <1>0, <3>1, <3>6 DEF StorageStream, AtHandshake, AtWait, Elsewhere, Reports
      <4> QED BY <1>0, <2>1, <3>3, <3>5, <3>6, <4>1 DEF LeftBehind
    <3>7. CASE w = "toHandler"
      <4>1. storage = "serve"
        BY <1>0, <3>1, <3>7 DEF StorageStream, AtHandshake, AtWait, Elsewhere
      <4> QED BY <2>1, <3>5, <3>7, <4>1 DEF LeftBehind
    <3> QED BY <3>6, <3>7
  <2> QED BY <2>2, <2>3
<1> QED BY <1>1, <1>2, <1>3, <1>4, <1>5, <1>6, <1>7, <1>8, <1>9, <1>10, <1>11
           DEF WorkerMoves, WorkerListens

LEMMA StorageKeepsStream ==
  ASSUME PathTypeOK, StorageStream, StorageNext \/ StorageEnds
  PROVE  StorageStream'
<1>0. /\ wire \in [Streams -> Seq(Fields)] /\ UNCHANGED worker
      /\ "toStorage" \in Streams /\ "fromStorage" \in Streams
      /\ worker.at \in {"down", "handshake", "register", "idle", "fetch", "execute", "wait", "gone"}
      /\ storage \in {"accept", "serve", "gone"}
  BY DEF PathTypeOK, WorkerType, Streams, StorageNext, StorageAccepts, StorageServes, StorageEnds
<1>1. CASE StorageAccepts
  <2>1. storage = "accept" /\ wire["toStorage"] # <<>>
    BY <1>1 DEF StorageAccepts
  <2>2. /\ worker.sending = <<>> /\ worker.at \in {"handshake", "gone"}
        /\ Begins(wire["toStorage"], protocol_send_worker_handshake)
        /\ worker.at = "handshake" =>
             /\ wire["toStorage"] = protocol_send_worker_handshake
             /\ wire["fromStorage"] = <<>>
    <3>1. CASE worker.at = "handshake"
      <4>1. worker.sending = <<>> /\ wire["toStorage"] = protocol_send_worker_handshake
            /\ wire["fromStorage"] = <<>>
        BY <1>0, <2>1, <3>1 DEF StorageStream, AtHandshake, Asks, Answered, Quiet
      <4>2. Begins(protocol_send_worker_handshake, protocol_send_worker_handshake)
        BY ShortFrames DEF Begins
      <4> QED BY <3>1, <4>1, <4>2
    <3>2. CASE worker.at = "gone"
      BY <1>0, <2>1, <3>2 DEF StorageStream, LeftBehind
    <3>3. worker.at \in {"handshake", "gone"}
      BY <1>0, <2>1, AnswersKnown
         DEF StorageStream, AtWait, Asks, Answered, Elsewhere, Quiet
    <3> QED BY <3>1, <3>2, <3>3
  <2>3. /\ Len(wire["toStorage"]) > 0 /\ Len(wire["toStorage"]) <= 2
        /\ wire["toStorage"] \in Seq(Fields) /\ From(wire["toStorage"], 2) = <<>>
    <3>1. wire["toStorage"] \in Seq(Fields) /\ Len(wire["toStorage"]) <= 2
      BY <1>0, <2>2, ShortFrames DEF Begins
    <3> QED BY <2>1, <3>1, Rest, WholeTaken
  <2>4. CASE worker.at = "gone"
    <3>1. storage' = "gone" \/ (storage' = "serve" /\ wire'["toStorage"] = <<>>)
      BY <1>0, <1>1, <2>3 DEF StorageAccepts, Sent
    <3> QED BY <1>0, <2>2, <2>4, <3>1 DEF StorageStream, LeftBehind
  <2>5. CASE worker.at = "handshake"
    <3>1. /\ Len(wire["toStorage"]) = 2 /\ Tail(wire["toStorage"]) \in Seq(Fields)
          /\ Len(Tail(wire["toStorage"])) = 1
      BY <2>2, <2>3, <2>5, ShortFrames, Rest
    <3>2. 1 \in DOMAIN Tail(wire["toStorage"])
      <4>1. DOMAIN Tail(wire["toStorage"]) = 1 .. Len(Tail(wire["toStorage"]))
        BY <3>1, LenProperties
      <4>2. 1 \in 1 .. Len(Tail(wire["toStorage"]))
        BY <3>1
      <4> QED BY <4>1, <4>2
    <3>3. ~InVain(Tail(wire["toStorage"]), protocol_recv_worker_handshake)
      BY <3>2 DEF InVain, protocol_recv_worker_handshake, Must
    <3>4. /\ storage' = "serve"
          /\ wire' = [Sent("fromStorage", protocol_send_storage_handshake_ok)
                        EXCEPT !["toStorage"] = From(@, 2)]
      BY <1>1, <3>3 DEF StorageAccepts
    <3>5. <<>> \o protocol_send_storage_handshake_ok = protocol_send_storage_handshake_ok
      BY FramesTyped, ConcatEmptySeq
    <3>6. wire'["toStorage"] = <<>> /\ wire'["fromStorage"] = protocol_send_storage_handshake_ok
      BY <1>0, <2>2, <2>3, <2>5, <3>4, <3>5 DEF Sent
    <3> QED BY <1>0, <2>2, <2>5, <3>4, <3>6 DEF StorageStream, AtHandshake, Answered
  <2> QED BY <2>2, <2>4, <2>5
<1>2. CASE StorageServes
  <2>1. storage = "serve" /\ wire["toStorage"] # <<>>
    BY <1>2 DEF StorageServes
  <2> DEFINE r == Head(worker.todo)
             op == Head(wire["toStorage"])
             s == Tail(wire["toStorage"])
             f == StorageReads[op]
  <2>2. /\ worker.todo # <<>> /\ worker.sending = <<>> /\ worker.at \in {"wait", "gone"}
        /\ op = r.frame[1]
        /\ worker.at = "wait" => Came(s, f) /\ wire["fromStorage"] = <<>>
        /\ From(s, Len(f)) = <<>>
    BY <2>1, StorageHears
  <2>3. \/ /\ InVain(s, f) /\ storage' = "gone" /\ wire' = [wire EXCEPT !["toStorage"] = <<>>]
        \/ \E ok \in BOOLEAN :
             /\ storage' = storage
             /\ wire' = [Sent("fromStorage", Answer(op, ok, <<op>>)) EXCEPT !["toStorage"] = <<>>]
    BY <1>2, <2>2 DEF StorageServes
  <2>4. CASE worker.at = "gone"
    BY <1>0, <2>1, <2>2, <2>3, <2>4 DEF StorageStream, LeftBehind, Sent
  <2>5. CASE worker.at = "wait"
    <3>1. \A ok \in BOOLEAN : Answer(op, ok, <<op>>) \in {<<"REFUSED">>, AnswerTo(r.frame)}
      BY <2>2 DEF Answer, AnswerTo
    <3>2. \A ok \in BOOLEAN : <<>> \o Answer(op, ok, <<op>>) = Answer(op, ok, <<op>>)
      BY FramesTyped, ConcatEmptySeq
    <3>3. \/ storage' = "gone" /\ Quiet'
          \/ storage' = storage /\ wire'["toStorage"] = <<>> /\ wire'["fromStorage"] \in Answers
      <4>1. CASE storage' = "gone" /\ wire' = [wire EXCEPT !["toStorage"] = <<>>]
        BY <1>0, <2>2, <2>5, <4>1 DEF Quiet
      <4>2. ASSUME NEW ok \in BOOLEAN, storage' = storage,
                   wire' = [Sent("fromStorage", Answer(op, ok, <<op>>)) EXCEPT !["toStorage"] = <<>>]
            PROVE  wire'["toStorage"] = <<>> /\ wire'["fromStorage"] \in Answers
        <5>1. wire'["toStorage"] = <<>> /\ wire'["fromStorage"] = Answer(op, ok, <<op>>)
          BY <1>0, <2>2, <2>5, <3>2, <4>2 DEF Sent
        <5> QED BY <3>1, <5>1 DEF Answers
      <4> QED BY <2>3, <4>1, <4>2
    <3>4. Answers' = Answers
      BY <1>0 DEF Answers
    <3> QED BY <1>0, <2>1, <2>2, <2>5, <3>3, <3>4 DEF StorageStream, AtWait, Asks, Answered
  <2> QED BY <2>2, <2>4, <2>5
<1>3. CASE StorageEnds
  <2>1. storage' = "gone" /\ wire'["toStorage"] = <<>> /\ wire'["fromStorage"] = wire["fromStorage"]
    BY <1>0, <1>3 DEF StorageEnds
  <2>2. CASE worker.at = "down"
    BY <1>0, <2>1, <2>2 DEF StorageStream, Quiet
  <2>3. CASE worker.at = "handshake"
    BY <1>0, <2>1, <2>3 DEF StorageStream, AtHandshake, Asks, Answered, Quiet
  <2>4. CASE worker.at = "wait"
    BY <1>0, <2>1, <2>4 DEF StorageStream, AtWait, Asks, Answered, Answers, Quiet
  <2>5. CASE worker.at = "gone"
    BY <1>0, <2>1, <2>5 DEF StorageStream, LeftBehind
  <2>6. CASE worker.at \in {"register", "idle", "fetch", "execute"}
    BY <1>0, <2>1, <2>6 DEF StorageStream, Elsewhere, Quiet
  <2> QED BY <1>0, <2>2, <2>3, <2>4, <2>5, <2>6
<1> QED BY <1>1, <1>2, <1>3 DEF StorageNext

-----------------------------------------------------------------------------
(***************************************************************************)
(* What Storage refused                                                    *)
(***************************************************************************)
LEMMA HeededStays ==
  ASSUME Heeded, UNCHANGED <<worker, unmet>>, wire'["fromStorage"] = wire["fromStorage"]
  PROVE  Heeded'
BY DEF Heeded, RefusalPending, Unheeded, Gone

LEMMA PathComes ==
  ASSUME PathTypeOK, WorkerStream, WorkerTakesPath
  PROVE  /\ wire["toWorker"] = Path /\ PathPending /\ ~worker.failed
         /\ session \notin {"none", "listed"}
<1>1. /\ worker.at = "idle" /\ ~Gone /\ Len(wire["toWorker"]) >= Len(Path)
  BY DEF WorkerTakesPath, Resting, Came, Path
<1>2. Len(Path) = 5 /\ Len(Ack) = 2
  BY DEF Path, Ack, protocol_send_master_path, protocol_send_worker_register_ack, Str
<1>3. wire["toWorker"] \in {<<>>, Path} /\ wire["toWorker"] \notin {<<>>, Ack}
  <2>1. wire["toWorker"] \in {<<>>, Path}
    BY <1>1 DEF WorkerStream
  <2>2. Len(wire["toWorker"]) \notin {0, 2}
    <3>1. PICK n \in Nat : n = Len(wire["toWorker"])
      BY LenProperties DEF PathTypeOK, Streams
    <3>2. n >= 5
      BY <1>1, <1>2, <3>1
    <3> QED BY <3>1, <3>2
  <2>3. wire["toWorker"] # <<>> /\ wire["toWorker"] # Ack
    <3>1. Len(<<>>) = 0
      OBVIOUS
    <3> QED BY <1>2, <2>2, <3>1, Zenon
  <2> QED BY <2>1, <2>3
<1> QED BY <1>1, <1>3 DEF WorkerStream, PathPending, ToBeGiven

LEMMA WorkerHeeds ==
  ASSUME PathTypeOK, StorageStream, Heeded, Reports, WorkerStream,
         WorkerMoves \/ WorkerListens \/ WorkerSends \/ WorkerDies
  PROVE  Heeded'
<1>0. /\ DOMAIN worker = {"at", "ins", "todo", "failed", "done", "sending"}
      /\ worker.failed \in BOOLEAN /\ wire \in [Streams -> Seq(Fields)]
      /\ worker.at \in {"down", "handshake", "register", "idle", "fetch", "execute", "wait", "gone"}
      /\ "fromStorage" \in Streams
  BY DEF PathTypeOK, WorkerType, Streams
<1>1. CASE WorkerConnects \/ WorkerFinishes \/ WorkerRequests \/ WorkerRegistered
  <2>1. /\ worker'.at \in {"handshake", "idle", "wait"}
        /\ ~Gone /\ worker.at # "wait" /\ worker'.failed = worker.failed /\ unmet' = unmet
        /\ wire'["fromStorage"] = wire["fromStorage"]
        /\ worker'.at = "handshake" => worker.at = "down"
    BY <1>0, <1>1 DEF WorkerConnects, WorkerFinishes, WorkerRequests, WorkerRegistered,
                      Sending, Resting, Gone, history
  <2> QED BY <1>0, <2>1 DEF Heeded, RefusalPending, Unheeded, Gone
<1>2. CASE WorkerRegisters
  <2>1. /\ worker'.at \in {"register", "gone"} /\ unmet' = unmet
        /\ worker.at = "handshake" /\ worker'.failed = worker.failed
    BY <1>0, <1>2 DEF WorkerRegisters, Sending, history
  <2>2. wire'["fromStorage"] # <<"REFUSED">> \/ worker'.at = "gone"
    <3>1. AtHandshake /\ worker.sending = <<>>
      BY <1>2, <2>1 DEF WorkerRegisters, StorageStream, Resting
    <3>2. CASE Came(wire["fromStorage"], protocol_send_storage_handshake_ok)
      <4>1. wire["fromStorage"] # <<>>
        BY <3>2, ShortFrames DEF Came
      <4>2. wire["fromStorage"] = protocol_send_storage_handshake_ok
        BY <3>1, <4>1 DEF AtHandshake, Asks, Answered, Quiet
      <4>3. From(protocol_send_storage_handshake_ok, 2) = <<>>
        <5>1. protocol_send_storage_handshake_ok \in Seq(Fields)
          BY FramesTyped
        <5>2. Len(protocol_send_storage_handshake_ok) <= 2
          BY ShortFrames
        <5> QED BY <5>1, <5>2, WholeTaken
      <4>4. wire' = [wire EXCEPT !["fromStorage"] = From(@, 2)]
        BY <1>2, <3>2 DEF WorkerRegisters
      <4>5. <<>> # <<"REFUSED">>
        BY AnswersKnown
      <4>6. wire'["fromStorage"] = From(wire["fromStorage"], 2)
        BY <1>0, <4>4
      <4> QED BY <4>2, <4>3, <4>5, <4>6
    <3>3. CASE ~Came(wire["fromStorage"], protocol_send_storage_handshake_ok)
      BY <1>0, <1>2, <3>3 DEF WorkerRegisters
    <3> QED BY <3>2, <3>3
  <2> QED BY <1>0, <2>1, <2>2 DEF Heeded, RefusalPending, Unheeded, Gone
<1>3. CASE WorkerFetches
  <2>1. /\ worker.at = "fetch" /\ worker'.at = "execute" /\ worker'.failed = FALSE
        /\ unmet' = unmet /\ wire' = wire
    BY <1>0, <1>3 DEF WorkerFetches, history
  <2> QED BY <1>0, <2>1 DEF Heeded, RefusalPending, Unheeded, Gone
<1>4. CASE WorkerGoesOn
  <2>1. /\ worker.at = "execute" /\ worker'.failed = worker.failed
        /\ worker'.at \in {"idle", "fetch"} /\ (worker'.at = "fetch" => ~worker.failed)
        /\ unmet' = unmet /\ wire' = wire
    <3>1. worker.at = "execute" /\ unmet' = unmet /\ wire' = wire
      BY <1>4 DEF WorkerGoesOn, history
    <3>2. CASE worker.failed
      BY <1>0, <1>4, <3>1, <3>2 DEF WorkerGoesOn, Sending
    <3>3. CASE ~worker.failed /\ worker.ins = "READ"
      BY <1>0, <1>4, <3>1, <3>3 DEF WorkerGoesOn
    <3>4. CASE ~worker.failed /\ worker.ins # "READ"
      BY <1>0, <1>4, <3>1, <3>4 DEF WorkerGoesOn
    <3> QED BY <3>2, <3>3, <3>4
  <2> QED BY <1>0, <2>1 DEF Heeded, RefusalPending, Unheeded, Gone
<1>5. CASE WorkerTakesPath
  <2>1. ~worker.failed
    BY <1>5, PathComes
  <2>2. /\ worker.at = "idle" /\ worker'.at = "fetch" /\ worker'.failed = worker.failed
        /\ unmet' = unmet /\ wire'["fromStorage"] = wire["fromStorage"]
    BY <1>0, <1>5 DEF WorkerTakesPath
  <2> QED BY <1>0, <2>1, <2>2 DEF Heeded, RefusalPending, Unheeded, Gone
<1>6. CASE WorkerHears
  <2>1. AtWait /\ worker.sending = <<>> /\ wire["fromStorage"] # <<>> /\ worker.at = "wait"
    BY <1>6 DEF WorkerHears, StorageStream, Resting
  <2>2. wire["fromStorage"] \in Answers
    BY <2>1 DEF AtWait, Asks, Quiet, Answered
  <2>3. wire["fromStorage"][1] # "OK" => wire["fromStorage"] = <<"REFUSED">>
    BY <2>2, AnswersKnown DEF Answers
  <2>4. wire["fromStorage"] = <<"REFUSED">> => wire["fromStorage"][1] # "OK"
    OBVIOUS
  <2> DEFINE ok == wire["fromStorage"][1] = "OK"
  <2>5. /\ worker'.at = "execute" /\ worker'.failed = Failed(ok, Head(worker.todo).role)
        /\ unmet' = unmet
    BY <1>0, <1>6 DEF WorkerHears
  <2>6. wire'["fromStorage"] = <<>>
    <3>1. CASE wire["fromStorage"] = <<"REFUSED">>
      BY <1>0, <1>6, <3>1, AnswersKnown DEF WorkerHears
    <3>2. CASE wire["fromStorage"] = AnswerTo(Head(worker.todo).frame)
      BY <1>0, <1>6, <3>2, AnswersKnown DEF WorkerHears
    <3> QED BY <2>2, <3>1, <3>2 DEF Answers
  <2>7. unmet = Unheeded \/ worker'.failed
    BY <1>0, <2>1, <2>4, <2>5 DEF Heeded, RefusalPending, Gone, Failed
  <2>8. worker'.failed => unmet # {}
    BY <1>0, <2>1, <2>3, <2>5 DEF Heeded, Failed, Gone
  <2> QED BY <2>5, <2>6, <2>7, <2>8 DEF Heeded, Unheeded
<1>7. CASE WorkerHearsNothing
  <2>1. worker.todo # <<>> /\ worker.at = "wait" /\ wire["fromStorage"] = <<>>
    BY <1>7 DEF WorkerHearsNothing, StorageStream, AtWait
  <2>2. Head(worker.todo) \in Requests(worker.ins)
    BY <2>1, HeadAsked
  <2>3. PICK gives \in BOOLEAN :
          worker'.failed = (gives \/ Failed(FALSE, Head(worker.todo).role))
    BY <1>0, <1>7 DEF WorkerHearsNothing
  <2>4. /\ worker'.at = "execute" /\ wire' = wire
        /\ unmet' = unmet \union {<<worker.ins, Head(worker.todo).why>>}
    BY <1>0, <1>7 DEF WorkerHearsNothing
  <2>5. unmet' = Unheeded' \/ worker'.failed
    <3>1. CASE Head(worker.todo).role \in {"fail", "note", "retry"}
      BY <2>3, <3>1 DEF Failed
    <3>2. CASE worker.failed
      BY <2>3, <3>2 DEF Failed
    <3>3. CASE /\ unmet = Unheeded
               /\ worker.ins \in {"TRUNCATE", "DELETE", "COMMIT"} \/ Head(worker.todo).why = "replacement"
      BY <2>4, <3>3 DEF Unheeded
    <3> QED BY <2>1, <2>2, <3>1, <3>2, <3>3 DEF Heeded, RefusalPending, Gone, Requests
  <2> QED BY <2>1, <2>4, <2>5 DEF Heeded
<1>8. CASE WorkerSends
  <2>1. /\ worker'.at = worker.at /\ worker'.failed = worker.failed /\ worker'.todo = worker.todo
        /\ worker.sending # <<>> /\ unmet' = unmet
    BY <1>0, <1>8 DEF WorkerSends, history
  <2>2. wire'["fromStorage"] = wire["fromStorage"]
    <3>1. worker.sending[1] # "fromStorage"
      BY <2>1, SendingKnown
    <3> QED BY <1>0, <1>8, <3>1 DEF WorkerSends, Sent
  <2> QED BY <1>0, <2>1, <2>2 DEF Heeded, RefusalPending, Unheeded, Gone
<1>9. CASE WorkerDies
  <2>1. /\ worker'.at = "gone" /\ worker'.failed = worker.failed /\ unmet' = unmet
    BY <1>0, <1>9 DEF WorkerDies, history
  <2> QED BY <2>1 DEF Heeded, Gone
<1> QED BY <1>1, <1>2, <1>3, <1>4, <1>5, <1>6, <1>7, <1>8, <1>9 DEF WorkerMoves, WorkerListens

LEMMA StorageHeeds ==
  ASSUME PathTypeOK, StorageStream, Heeded, StorageNext \/ StorageEnds
  PROVE  Heeded'
<1>0. /\ wire \in [Streams -> Seq(Fields)] /\ UNCHANGED worker
      /\ "toStorage" \in Streams /\ "fromStorage" \in Streams
      /\ worker.failed \in BOOLEAN
  BY DEF PathTypeOK, WorkerType, Streams, StorageNext, StorageAccepts, StorageServes, StorageEnds
<1>1. CASE StorageEnds
  BY <1>0, <1>1, HeededStays DEF StorageEnds, history
<1>2. CASE StorageAccepts
  <2>1. CASE wire'["fromStorage"] = wire["fromStorage"]
    BY <1>0, <1>2, <2>1, HeededStays DEF StorageAccepts, history
  <2>2. CASE wire'["fromStorage"] # wire["fromStorage"]
    <3>1. wire'["fromStorage"] = wire["fromStorage"] \o protocol_send_storage_handshake_ok
      BY <1>0, <1>2, <2>2 DEF StorageAccepts, Sent
    <3>2. wire["fromStorage"] \in Seq(Fields) /\ protocol_send_storage_handshake_ok \in Seq(Fields)
      BY <1>0, FramesTyped
    <3>3. Len(wire'["fromStorage"]) # 1
      <4>1. PICK n \in Nat : n = Len(wire["fromStorage"])
        BY <3>2, LenProperties
      <4>2. Len(wire'["fromStorage"]) = n + 2
        <5>1. Len(wire'["fromStorage"]) = n + Len(protocol_send_storage_handshake_ok)
          BY <3>1, <3>2, <4>1, Joined
        <5> QED BY <5>1, ShortFrames
      <4>3. n + 2 # 1
        BY <4>1
      <4> QED BY <4>2, <4>3
    <3>4. wire'["fromStorage"] # <<"REFUSED">>
      <4>1. Len(<<"REFUSED">>) = 1
        OBVIOUS
      <4> QED BY <3>3, <4>1, Zenon
    <3>5. worker.at \in {"handshake", "gone"}
      BY <1>2, AnswersKnown
         DEF StorageAccepts, StorageStream, AtWait, Asks, Answered, Elsewhere, Quiet
    <3> QED BY <1>0, <1>2, <3>4, <3>5 DEF StorageAccepts, history, Heeded, RefusalPending, Gone, Unheeded
  <2> QED BY <2>1, <2>2
<1>3. CASE StorageServes
  <2>1. storage = "serve" /\ wire["toStorage"] # <<>>
    BY <1>3 DEF StorageServes
  <2> DEFINE r == Head(worker.todo)
             op == Head(wire["toStorage"])
             s == Tail(wire["toStorage"])
             f == StorageReads[op]
  <2>2. /\ worker.todo # <<>> /\ worker.sending = <<>> /\ worker.at \in {"wait", "gone"}
        /\ r \in Requests(worker.ins) /\ op = r.frame[1]
        /\ worker.at = "wait" => wire["fromStorage"] = <<>>
    BY <2>1, StorageHears
  <2>3. CASE worker.at = "gone"
    <3>1. unmet \subseteq unmet'
      BY <1>3 DEF StorageServes
    <3> QED BY <1>0, <2>3, <3>1 DEF Heeded, Gone
  <2>4. CASE InVain(s, f)
    BY <1>0, <1>3, <2>4, HeededStays DEF StorageServes
  <2>5. ASSUME worker.at = "wait", NEW ok \in BOOLEAN,
               unmet' = IF ok THEN unmet ELSE unmet \union {<<worker.ins, r.why>>},
               wire'["fromStorage"] = wire["fromStorage"] \o Answer(op, ok, <<op>>)
        PROVE  Heeded'
    <3>1. wire'["fromStorage"] = Answer(op, ok, <<op>>)
      <4>1. Answer(op, ok, <<op>>) \in Seq(Fields)
        BY FramesTyped
      <4>2. <<>> \o Answer(op, ok, <<op>>) = Answer(op, ok, <<op>>)
        BY <4>1, ConcatEmptySeq
      <4> QED BY <2>2, <2>5, <4>2
    <3>2. wire["fromStorage"] # <<"REFUSED">> /\ ~Gone
      BY <2>2, <2>5 DEF Gone
    <3>3. CASE ok
      <4>1. wire'["fromStorage"] # <<"REFUSED">>
        BY <3>1, <3>3, AnswersKnown DEF Answer
      <4> QED BY <1>0, <2>5, <3>2, <3>3, <4>1 DEF Heeded, RefusalPending, Unheeded, Gone
    <3>4. CASE ~ok
      <4>1. unmet' = unmet \union {<<worker.ins, r.why>>}
        BY <2>5, <3>4
      <4>2. CASE worker.ins \in {"TRUNCATE", "DELETE", "COMMIT"} \/ r.why = "replacement"
        <5>1. unmet = Unheeded => unmet' = Unheeded'
          BY <4>1, <4>2 DEF Unheeded
        <5>2. unmet = Unheeded \/ worker.failed
          BY <3>2 DEF Heeded, RefusalPending
        <5>3. unmet' # {}
          BY <4>1
        <5>4. worker'.at = "wait" /\ worker'.failed = worker.failed
          BY <1>0, <2>5
        <5> QED BY <5>1, <5>2, <5>3, <5>4 DEF Heeded
      <4>3. CASE worker.ins # "TRUNCATE" /\ r.role \in {"fail", "note", "retry"}
        <5>1. op # "TRUNCATE"
          BY <2>2, <4>3, RequestFacts DEF Requests
        <5>2. wire'["fromStorage"] = <<"REFUSED">>
          BY <3>1, <3>4, <5>1 DEF Answer
        <5> QED BY <1>0, <2>2, <2>5, <3>2, <4>1, <4>3, <5>2 DEF Heeded, RefusalPending, Unheeded, Gone
      <4> QED BY <2>2, <4>2, <4>3 DEF Requests
    <3> QED BY <3>3, <3>4
  <2>6. worker.at = "wait" /\ ~InVain(s, f) => Heeded'
    <3> SUFFICES ASSUME worker.at = "wait", ~InVain(s, f) PROVE Heeded'
      OBVIOUS
    <3>1. PICK ok \in BOOLEAN :
            /\ unmet' = IF ok THEN unmet ELSE unmet \union {<<worker.ins, r.why>>}
            /\ wire' = [Sent("fromStorage", Answer(op, ok, <<op>>))
                          EXCEPT !["toStorage"] = From(s, Len(f))]
      BY <1>3 DEF StorageServes
    <3>2. wire'["fromStorage"] = wire["fromStorage"] \o Answer(op, ok, <<op>>)
      BY <1>0, <3>1 DEF Sent
    <3> QED BY <2>5, <3>1, <3>2
  <2> QED BY <2>2, <2>3, <2>4, <2>6
<1> QED BY <1>1, <1>2, <1>3 DEF StorageNext

-----------------------------------------------------------------------------
(***************************************************************************)
(* The Worker and the Master stay in step                                  *)
(***************************************************************************)
\* Taking what was joined in front leaves what was joined behind.
LEMMA FrontTaken ==
  ASSUME NEW s \in Seq(Fields), NEW t \in Seq(Fields)
  PROVE  From(s \o t, Len(s)) = t
<1> DEFINE w == s \o t
<1>1. PICK n \in Nat, m \in Nat : n = Len(s) /\ m = Len(t)
  BY LenProperties
<1>2. /\ w \in Seq(Fields) /\ Len(w) = Len(s) + Len(t)
      /\ \A i \in 1 .. Len(t) : w[Len(s) + i] = t[i]
  BY Joined
<1> HIDE DEF w
<1>3. Len(w) = n + m /\ \A i \in 1 .. m : w[n + i] = t[i]
  BY <1>1, <1>2
<1>4. PICK u \in Seq(Fields) :
        /\ u = From(w, n)
        /\ n <= Len(w) => Len(u) = Len(w) - n
        /\ \A i \in 1 .. Len(u) : u[i] = w[i + n]
  BY <1>2, Dropped
<1>5. Len(u) = m
  BY <1>3, <1>4
<1>6. \A i \in 1 .. m : u[i] = t[i]
  <2> TAKE i \in 1 .. m
  <2>1. u[i] = w[i + n] /\ w[n + i] = t[i] /\ i + n = n + i
    BY <1>3, <1>4, <1>5
  <2> QED BY <2>1
<1>7. u = t
  BY <1>1, <1>5, <1>6, SeqEqual
<1> QED BY <1>1, <1>4, <1>7 DEF w

LEMMA PathFrames ==
  /\ Ack \in Seq(Fields) /\ Path \in Seq(Fields) /\ Ack \o Path \in Seq(Fields)
  /\ Len(Ack) = 2 /\ Len(Path) = 5 /\ Len(Ack \o Path) = 7
  /\ From(Ack, 2) = <<>> /\ From(Path, 5) = <<>> /\ From(Ack \o Path, 2) = Path
  /\ Ack # <<>> /\ Path # <<>> /\ Path # Ack /\ Ack \o Path # <<>> /\ Ack \o Path # Ack
  /\ <<>> \o Ack = Ack /\ <<>> \o Path = Path
<1>1. /\ Ack \in Seq(Fields) /\ Path \in Seq(Fields)
  BY FramesTyped
<1>2. Len(Ack) = 2 /\ Len(Path) = 5
  BY DEF Path, Ack, protocol_send_master_path, protocol_send_worker_register_ack, Str
<1>3. Len(Ack \o Path) = Len(Ack) + Len(Path) /\ Ack \o Path \in Seq(Fields)
  BY <1>1, Joined
<1>4. Len(Ack \o Path) = 7
  <2>1. Len(Ack) + Len(Path) = 7
    BY <1>2
  <2> QED BY <1>3, <2>1, Zenon
<1>5. From(Ack, 2) = <<>> /\ From(Path, 5) = <<>>
  <2>1. Len(Ack) <= 2 /\ Len(Path) <= 5 /\ 2 \in Nat /\ 5 \in Nat
    BY <1>2
  <2> QED BY <1>1, <2>1, WholeTaken
<1>6. From(Ack \o Path, 2) = Path
  BY <1>1, <1>2, FrontTaken
<1>7. Len(<<>>) = 0
  OBVIOUS
<1>8. Ack # <<>> /\ Path # <<>> /\ Path # Ack /\ Ack \o Path # <<>> /\ Ack \o Path # Ack
  <2>1. Len(Ack) # Len(<<>>) /\ Len(Path) # Len(<<>>) /\ Len(Path) # Len(Ack)
        /\ Len(Ack \o Path) # Len(<<>>) /\ Len(Ack \o Path) # Len(Ack)
    BY <1>2, <1>4, <1>7
  <2> QED BY <2>1, Zenon
<1>9. <<>> \o Ack = Ack /\ <<>> \o Path = Path
  BY <1>1, ConcatEmptySeq
<1> QED BY <1>1, <1>2, <1>3, <1>4, <1>5, <1>6, <1>8, <1>9

LEMMA ReportsKept ==
  ASSUME PathTypeOK, Heeded, Reports, WorkerMoves \/ WorkerListens \/ WorkerSends \/ WorkerDies
  PROVE  Reports'
<1>0. DOMAIN worker = {"at", "ins", "todo", "failed", "done", "sending"} /\ worker.failed \in BOOLEAN
  BY DEF PathTypeOK, WorkerType
<1>1. CASE WorkerConnects \/ WorkerFetches \/ WorkerRequests
  BY <1>0, <1>1 DEF WorkerConnects, WorkerFetches, WorkerRequests, Sending, Reports
<1>2. CASE WorkerFinishes
  <2>1. /\ worker'.at = "idle" /\ ~worker'.failed
        /\ worker'.sending = <<"toHandler", protocol_send_worker_query_finished>>
    BY <1>0, <1>2 DEF WorkerFinishes, Sending, Heeded
  <2> QED BY <2>1 DEF Reports
<1>3. CASE WorkerGoesOn
  <2>1. worker.at = "execute" /\ worker.sending = <<>>
    BY <1>3 DEF WorkerGoesOn, Resting
  <2>2. CASE worker.failed
    BY <1>0, <1>3, <2>2 DEF WorkerGoesOn, Sending, Reports
  <2>3. CASE ~worker.failed /\ worker.ins = "READ"
    BY <1>0, <1>3, <2>3 DEF WorkerGoesOn, Reports
  <2>4. CASE ~worker.failed /\ worker.ins # "READ"
    BY <1>0, <1>3, <2>1, <2>4 DEF WorkerGoesOn, Reports
  <2> QED BY <2>2, <2>3, <2>4
<1>4. CASE WorkerRegisters
  BY <1>0, <1>4 DEF WorkerRegisters, Sending, Reports
<1>5. CASE WorkerRegistered \/ WorkerTakesPath \/ WorkerSends \/ WorkerDies
  <2>1. worker'.sending = <<>>
    BY <1>0, <1>5 DEF WorkerRegistered, WorkerTakesPath, WorkerSends, WorkerDies, Resting
  <2> QED BY <2>1 DEF Reports
<1>6. CASE WorkerHears \/ WorkerHearsNothing
  <2>1. worker'.at = "execute"
    BY <1>0, <1>6 DEF WorkerHears, WorkerHearsNothing
  <2> QED BY <2>1 DEF Reports
<1> QED BY <1>1, <1>2, <1>3, <1>4, <1>5, <1>6 DEF WorkerMoves, WorkerListens

LEMMA WorkerStreamStays ==
  ASSUME WorkerStream, UNCHANGED <<worker, session>>, (handler' = "new") = (handler = "new"),
         wire'["toWorker"] = wire["toWorker"]
  PROVE  WorkerStream'
BY DEF WorkerStream, PathPending, ToBeGiven, Gone

LEMMA WorkerKeepsWorkerStream ==
  ASSUME PathTypeOK, StorageStream, Heeded, Reports, HandlerStream, WorkerStream,
         WorkerMoves \/ WorkerListens \/ WorkerSends \/ WorkerDies
  PROVE  WorkerStream' /\ astray' = astray
<1>0. /\ DOMAIN worker = {"at", "ins", "todo", "failed", "done", "sending"}
      /\ wire \in [Streams -> Seq(Fields)] /\ "toWorker" \in Streams
      /\ worker.at \in {"down", "handshake", "register", "idle", "fetch", "execute", "wait", "gone"}
  BY DEF PathTypeOK, WorkerType, Streams
<1>1. UNCHANGED <<session, handler>>
  BY DEF WorkerMoves, WorkerListens, WorkerConnects, WorkerFetches, WorkerFinishes, WorkerRequests,
         WorkerGoesOn, WorkerRegisters, WorkerRegistered, WorkerTakesPath, WorkerHears,
         WorkerHearsNothing, WorkerSends, WorkerDies, master
<1>2. ~PathPending \/ session \notin {"none", "listed"} \/ Gone
  BY DEF WorkerStream
<1>3. CASE WorkerMoves
  <2>1. wire' = wire /\ ~Gone /\ astray' = astray
    BY <1>3 DEF WorkerMoves, WorkerConnects, WorkerFetches, WorkerFinishes, WorkerRequests,
                WorkerGoesOn, Sending, Resting, history, Gone
  <2>2. \/ worker.at = "down" /\ worker'.at = "handshake"
        \/ worker.at \in {"fetch", "execute"} /\ worker'.at \in {"idle", "fetch", "execute", "wait"}
    <3>1. CASE WorkerGoesOn
      BY <1>0, <3>1 DEF WorkerGoesOn, Sending
    <3> QED BY <1>0, <1>3, <3>1 DEF WorkerMoves, WorkerConnects, WorkerFetches, WorkerFinishes,
                                    WorkerRequests, Sending
  <2> QED BY <1>1, <2>1, <2>2 DEF WorkerStream, PathPending, ToBeGiven, Gone
<1>4. CASE WorkerRegisters
  <2>1. /\ worker.at = "handshake" /\ worker'.at \in {"register", "gone"} /\ ~Gone
        /\ astray' = astray /\ wire'["toWorker"] = wire["toWorker"]
    BY <1>0, <1>4 DEF WorkerRegisters, Sending, history, Gone
  <2>2. handler = "new" /\ wire["toWorker"] = <<>>
    BY <2>1 DEF HandlerStream
  <2> QED BY <1>1, <2>1, <2>2 DEF WorkerStream, PathPending, ToBeGiven, Gone
<1>5. CASE WorkerRegistered
  <2>1. /\ worker.at = "register" /\ worker'.at = "idle" /\ worker'.failed = worker.failed
        /\ worker'.sending = <<>> /\ worker.sending = <<>> /\ ~Gone
        /\ wire'["toWorker"] = From(wire["toWorker"], 2)
    BY <1>0, <1>5 DEF WorkerRegistered, Resting, Gone
  <2>2. wire["toWorker"] \in {Ack, Ack \o Path}
    <3>1. wire["toWorker"] # <<>>
      <4>1. Came(wire["toWorker"], Ack)
        BY <1>5 DEF WorkerRegistered, Ack
      <4>2. ~Came(<<>>, Ack)
        BY PathFrames DEF Came
      <4> QED BY <4>1, <4>2
    <3> QED BY <2>1, <3>1 DEF WorkerStream
  <2>3. wire'["toWorker"] \in {<<>>, Path}
        /\ (wire'["toWorker"] = Path => PathPending)
    BY <2>1, <2>2, PathFrames DEF PathPending
  <2>4. ~worker.failed
    BY <2>1 DEF Heeded
  <2>5. astray' = astray
    <3>1. Head(wire["toWorker"]) = "ACK" /\ InStep(Tail(wire["toWorker"]), protocol_recv_worker_register_ack)
      <4>1. /\ wire["toWorker"] \in Seq(Fields) /\ wire["toWorker"] # <<>>
            /\ Len(wire["toWorker"]) >= 2 /\ wire["toWorker"][1] = "ACK" /\ wire["toWorker"][2] = "id"
        <5>1. Ack[1] = "ACK" /\ Ack[2] = "id"
          BY DEF Ack, protocol_send_worker_register_ack
        <5>2. (Ack \o Path)[1] = Ack[1] /\ (Ack \o Path)[2] = Ack[2]
          <6>1. \A i \in 1 .. Len(Ack) : (Ack \o Path)[i] = Ack[i]
            BY PathFrames, Joined
          <6> QED BY <6>1, PathFrames
        <5>3. CASE wire["toWorker"] = Ack
          BY <5>1, <5>3, PathFrames
        <5>4. CASE wire["toWorker"] = Ack \o Path
          BY <5>1, <5>2, <5>4, PathFrames
        <5> QED BY <2>2, <5>3, <5>4
      <4>2. Tail(wire["toWorker"])[1] = "id" /\ Head(wire["toWorker"]) = "ACK"
        BY <4>1, Rest
      <4> QED BY <4>2 DEF InStep, protocol_recv_worker_register_ack, Must, Kind
    <3> QED BY <1>5, <3>1 DEF WorkerRegistered
  <2> QED BY <1>1, <1>2, <2>1, <2>3, <2>4, <2>5 DEF WorkerStream, PathPending, ToBeGiven, Gone
<1>6. CASE WorkerTakesPath
  <2>1. /\ wire["toWorker"] = Path /\ session \notin {"none", "listed"}
    BY <1>6, PathComes
  <2>2. /\ worker'.at = "fetch"
        /\ wire'["toWorker"] = From(wire["toWorker"], 1 + Len(protocol_recv_master_path))
    BY <1>0, <1>6 DEF WorkerTakesPath
  <2>3. wire'["toWorker"] = <<>>
    <3>1. Len(protocol_recv_master_path) = 4
      BY DEF protocol_recv_master_path, Must
    <3> QED BY <2>1, <2>2, <3>1, PathFrames
  <2>4. astray' = astray
    <3>1. /\ Path[1] = "PATH" /\ Len(protocol_recv_master_path) = 4
          /\ DOMAIN protocol_recv_master_path = 1 .. 4
          /\ \A i \in 1 .. 4 : Kind(Path[1 + i]) = protocol_recv_master_path[i].kind
      <4>1. Shaped(Path, "PATH", protocol_recv_master_path)
        BY GreetingsShaped DEF Path
      <4>2. Len(protocol_recv_master_path) = 4
        BY DEF protocol_recv_master_path, Must
      <4> QED BY <4>1, <4>2 DEF Shaped
    <3>2. Head(Path) = Path[1] /\ \A i \in 1 .. 4 : Tail(Path)[i] = Path[i + 1]
      <4>1. \A i \in 1 .. Len(Path) - 1 : Tail(Path)[i] = Path[i + 1]
        BY PathFrames, Rest
      <4>2. Head(Path) = Path[1]
        BY PathFrames, Rest
      <4>3. Len(Path) - 1 = 4
        BY PathFrames
      <4> QED BY <4>1, <4>2, <4>3, Zenon
    <3>3. InStep(Tail(Path), protocol_recv_master_path)
      BY <3>1, <3>2 DEF InStep
    <3> QED BY <1>6, <2>1, <3>1, <3>2, <3>3 DEF WorkerTakesPath
  <2> QED BY <1>1, <2>1, <2>2, <2>3, <2>4 DEF WorkerStream, PathPending, ToBeGiven, Gone
<1>7. CASE WorkerHears \/ WorkerHearsNothing
  <2>1. /\ worker.at = "wait" /\ worker'.at = "execute" /\ ~Gone
        /\ wire'["toWorker"] = wire["toWorker"]
    BY <1>0, <1>7 DEF WorkerHears, WorkerHearsNothing, Gone
  <2>2. astray' = astray
    <3>1. CASE WorkerHears
      <4>1. AtWait /\ worker.sending = <<>> /\ wire["fromStorage"] # <<>>
        BY <3>1 DEF WorkerHears, StorageStream, Resting
      <4>2. wire["fromStorage"] \in Answers
        BY <4>1 DEF AtWait, Asks, Quiet, Answered
      <4>3. wire["fromStorage"][1] \in {"OK", "REFUSED"}
        BY <4>2, AnswersKnown DEF Answers
      <4> QED BY <3>1, <4>3 DEF WorkerHears
    <3> QED BY <1>7, <3>1 DEF WorkerHearsNothing
  <2> QED BY <1>1, <2>1, <2>2 DEF WorkerStream, PathPending, ToBeGiven, Gone
<1>8. CASE WorkerSends
  <2>1. /\ worker'.at = worker.at /\ worker'.failed = worker.failed /\ worker'.sending = <<>>
        /\ worker.sending # <<>> /\ astray' = astray
    BY <1>0, <1>8 DEF WorkerSends, history
  <2>2. wire'["toWorker"] = wire["toWorker"]
    <3>1. worker.sending[1] # "toWorker"
      BY <2>1, SendingKnown
    <3> QED BY <1>0, <1>8, <3>1 DEF WorkerSends, Sent
  <2> QED BY <1>1, <2>1, <2>2 DEF WorkerStream, PathPending, ToBeGiven, Gone
<1>9. CASE WorkerDies
  BY <1>0, <1>9 DEF WorkerDies, WorkerStream, Gone, history
<1> QED BY <1>3, <1>4, <1>5, <1>6, <1>7, <1>8, <1>9 DEF WorkerListens

\* What a Worker that is listed sends the Master is a report.
ReportFrames ==
  {protocol_send_worker_read_result, protocol_send_worker_query_finished,
   protocol_send_worker_query_error}
LEMMA ReportAdded ==
  ASSUME NEW s \in Seq(Fields), NEW g \in Seq(Fields), NEW frame \in ReportFrames,
         Framed(s, HandlerReads), Complete(s, HandlerReads), Begins(g, frame)
  PROVE  Framed(s \o g, HandlerReads) /\ (g = frame => Complete(s \o g, HandlerReads))
<1>1. /\ \A x \in DOMAIN HandlerReads : Len(HandlerReads[x]) \in Nat
      /\ DOMAIN HandlerReads = ReportCodes
  BY ReportFacts
<1>2. PICK op \in DOMAIN HandlerReads :
        Shaped(frame, op, HandlerReads[op]) /\ \A i \in 2 .. Len(frame) : frame[i] \notin DOMAIN HandlerReads
  <2>1. CASE frame = protocol_send_worker_read_result
    <3>1. /\ Shaped(frame, "READ_RESULT", HandlerReads["READ_RESULT"])
          /\ \A i \in 2 .. Len(frame) : frame[i] \notin DOMAIN HandlerReads
          /\ "READ_RESULT" \in DOMAIN HandlerReads
      BY <1>1, <2>1, ReportFacts DEF ReportCodes
    <3> QED BY <3>1
  <2>2. CASE frame = protocol_send_worker_query_finished
    <3>1. /\ Shaped(frame, "QUERY_FINISHED", HandlerReads["QUERY_FINISHED"])
          /\ \A i \in 2 .. Len(frame) : frame[i] \notin DOMAIN HandlerReads
          /\ "QUERY_FINISHED" \in DOMAIN HandlerReads
      BY <1>1, <2>2, ReportFacts DEF ReportCodes
    <3> QED BY <3>1
  <2>3. CASE frame = protocol_send_worker_query_error
    <3>1. /\ Shaped(frame, "QUERY_ERROR", HandlerReads["QUERY_ERROR"])
          /\ \A i \in 2 .. Len(frame) : frame[i] \notin DOMAIN HandlerReads
          /\ "QUERY_ERROR" \in DOMAIN HandlerReads
      BY <1>1, <2>3, ReportFacts DEF ReportCodes
    <3> QED BY <3>1
  <2> QED BY <2>1, <2>2, <2>3 DEF ReportFrames
<1> QED BY <1>1, <1>2, FrameAdded

LEMMA ReportSent ==
  ASSUME PathTypeOK, StorageStream, Reports, HandlerStream, handler # "new",
         worker.sending # <<>>, worker.sending[1] = "toHandler"
  PROVE  /\ worker.sending[2] \in ReportFrames /\ worker.at \in {"fetch", "idle"} /\ ~Gone
         /\ worker.sending[2] = protocol_send_worker_query_finished => worker.at = "idle" /\ ~worker.failed
         /\ worker.sending[2] = protocol_send_worker_query_error => worker.at = "idle" /\ worker.failed
<1>1. /\ protocol_send_worker_read_result[1] = "READ_RESULT"
      /\ protocol_send_worker_query_finished[1] = "QUERY_FINISHED"
      /\ protocol_send_worker_query_error[1] = "QUERY_ERROR"
  BY ReportsShaped DEF Shaped
<1>2. worker.at \in {"handshake", "wait", "register", "fetch", "idle"}
  BY SendingKnown
<1>3. worker.at \in {"fetch", "idle"}
  BY <1>2 DEF StorageStream, AtHandshake, AtWait, HandlerStream
<1> QED BY <1>1, <1>3 DEF Reports, ReportFrames, Gone

LEMMA WholeBegins ==
  ASSUME NEW frame \in Seq(Fields), NEW n \in 0 .. Len(frame)
  PROVE  /\ Begins(frame, frame) /\ SubSeq(frame, 1, n) \in Seq(Fields)
         /\ Begins(SubSeq(frame, 1, n), frame) /\ Len(SubSeq(frame, 1, n)) = n
BY SubSeqProperties DEF Begins

LEMMA WorkerKeepsHandlerStream ==
  ASSUME PathTypeOK, StorageStream, Reports, HandlerStream, WorkerStream,
         WorkerMoves \/ WorkerListens \/ WorkerSends \/ WorkerDies
  PROVE  HandlerStream'
<1>0. /\ DOMAIN worker = {"at", "ins", "todo", "failed", "done", "sending"}
      /\ wire \in [Streams -> Seq(Fields)] /\ "toHandler" \in Streams /\ "toWorker" \in Streams
      /\ worker.at \in {"down", "handshake", "register", "idle", "fetch", "execute", "wait", "gone"}
      /\ wire["toHandler"] \in Seq(Fields)
  BY DEF PathTypeOK, WorkerType, Streams
<1>1. UNCHANGED <<session, handler, out>>
  BY DEF WorkerMoves, WorkerListens, WorkerConnects, WorkerFetches, WorkerFinishes, WorkerRequests,
         WorkerGoesOn, WorkerRegisters, WorkerRegistered, WorkerTakesPath, WorkerHears,
         WorkerHearsNothing, WorkerSends, WorkerDies, master
<1>2. CASE WorkerMoves
  <2>1. wire' = wire /\ ~Gone
    BY <1>2 DEF WorkerMoves, WorkerConnects, WorkerFetches, WorkerFinishes, WorkerRequests,
                WorkerGoesOn, Resting
  <2>2. \/ worker.at = "down" /\ worker'.at = "handshake"
        \/ worker.at \in {"fetch", "execute"} /\ worker'.at \in {"idle", "fetch", "execute", "wait"}
    <3>1. CASE WorkerGoesOn
      BY <1>0, <3>1 DEF WorkerGoesOn, Sending
    <3> QED BY <1>0, <1>2, <3>1 DEF WorkerMoves, WorkerConnects, WorkerFetches, WorkerFinishes,
                                    WorkerRequests, Sending
  <2> QED BY <1>1, <2>1, <2>2 DEF HandlerStream, Gone
<1>3. CASE WorkerRegisters
  <2>1. /\ worker.at = "handshake" /\ worker'.at \in {"register", "gone"}
        /\ wire'["toWorker"] = wire["toWorker"] /\ wire'["toHandler"] = wire["toHandler"]
    BY <1>0, <1>3 DEF WorkerRegisters, Sending
  <2> QED BY <1>1, <2>1 DEF HandlerStream
<1>4. CASE WorkerRegistered \/ WorkerTakesPath
  <2>1. /\ wire'["toHandler"] = wire["toHandler"] /\ worker'.at \in {"idle", "fetch"} /\ ~Gone
    BY <1>0, <1>4 DEF WorkerRegistered, WorkerTakesPath, Resting
  <2>2. handler # "new"
    <3>1. Came(wire["toWorker"], Ack) \/ Came(wire["toWorker"], Path)
      BY <1>4 DEF WorkerRegistered, WorkerTakesPath, Ack, Path
    <3>2. ~Came(<<>>, Ack) /\ ~Came(<<>>, Path)
      BY PathFrames DEF Came
    <3> QED BY <3>1, <3>2 DEF HandlerStream
  <2> QED BY <1>1, <2>1, <2>2 DEF HandlerStream, Gone
<1>5. CASE WorkerHears \/ WorkerHearsNothing
  <2>1. /\ wire'["toHandler"] = wire["toHandler"] /\ worker.at = "wait" /\ worker'.at = "execute"
        /\ ~Gone
    BY <1>0, <1>5 DEF WorkerHears, WorkerHearsNothing, Resting
  <2> QED BY <1>1, <2>1 DEF HandlerStream, Gone
<1>6. CASE WorkerSends
  <2>1. /\ worker'.at = worker.at /\ worker'.sending = <<>> /\ worker.sending # <<>>
        /\ worker.sending[1] \in {"toStorage", "toHandler"} /\ ~Gone
    BY <1>0, <1>6, SendingKnown DEF WorkerSends, Gone
  <2>2. CASE worker.sending[1] = "toStorage"
    <3>1. wire'["toHandler"] = wire["toHandler"] /\ wire'["toWorker"] = wire["toWorker"]
      BY <1>0, <1>6, <2>2 DEF WorkerSends, Sent
    <3> QED BY <1>1, <2>1, <3>1 DEF HandlerStream, Gone
  <2>3. CASE worker.sending[1] = "toHandler"
    <3>1. /\ wire'["toHandler"] = wire["toHandler"] \o worker.sending[2]
          /\ wire'["toWorker"] = wire["toWorker"]
      BY <1>0, <1>6, <2>3 DEF WorkerSends, Sent
    <3>2. CASE handler = "new"
      <4>1. worker.at = "register" /\ wire["toHandler"] = <<>>
        BY <2>1, <2>3, <3>2, SendingKnown DEF HandlerStream, StorageStream, AtHandshake
      <4>2. worker.sending[2] = protocol_send_worker_register_master
        BY <2>1, <4>1 DEF Reports
      <4>3. wire'["toHandler"] = protocol_send_worker_register_master
        <5>1. protocol_send_worker_register_master \in Seq(Fields)
          BY FramesTyped
        <5>2. <<>> \o protocol_send_worker_register_master = protocol_send_worker_register_master
          BY <5>1, ConcatEmptySeq
        <5> QED BY <3>1, <4>1, <4>2, <5>2
      <4>4. Len(wire'["toHandler"]) <= 2
        BY <4>3, ShortFrames
      <4> QED BY <1>1, <2>1, <3>1, <3>2, <4>1, <4>4 DEF HandlerStream
    <3>3. CASE handler # "new"
      <4>1. PICK frame \in ReportFrames : frame = worker.sending[2]
        BY <2>1, <2>3, <3>3, ReportSent
      <4>2. frame \in Seq(Fields)
        BY FramesTyped DEF ReportFrames
      <4>3. Begins(frame, frame)
        BY <4>2 DEF Begins
      <4>4. Framed(wire["toHandler"], HandlerReads) /\ Complete(wire["toHandler"], HandlerReads)
        BY <2>1, <3>3 DEF HandlerStream
      <4>5. Framed(wire'["toHandler"], HandlerReads) /\ Complete(wire'["toHandler"], HandlerReads)
        BY <1>0, <3>1, <4>1, <4>2, <4>3, <4>4, ReportAdded
      <4> QED BY <1>1, <2>1, <3>3, <4>5 DEF HandlerStream
    <3> QED BY <3>2, <3>3
  <2> QED BY <2>1, <2>2, <2>3
<1>7. CASE WorkerDies
  <2>1. worker'.at = "gone" /\ worker'.sending = <<>> /\ ~Gone
    BY <1>0, <1>7 DEF WorkerDies
  <2>2. CASE worker.sending = <<>>
    BY <1>1, <1>7, <2>1, <2>2 DEF WorkerDies, HandlerStream, Gone
  <2>3. CASE worker.sending # <<>>
    <3>1. PICK w \in {"toStorage", "toHandler"}, frame \in Seq(Fields) :
            worker.sending[1] = w /\ worker.sending[2] = frame
      BY <2>3, SendingKnown
    <3>2. PICK n \in 0 .. Len(frame) - 1 : wire' = Sent(w, SubSeq(frame, 1, n))
      BY <1>7, <2>3, <3>1 DEF WorkerDies
    <3>3. wire'["toWorker"] = wire["toWorker"]
      BY <1>0, <3>1, <3>2 DEF Sent
    <3>4. CASE w = "toStorage"
      <4>1. wire'["toHandler"] = wire["toHandler"]
        BY <1>0, <3>2, <3>4 DEF Sent
      <4> QED BY <1>1, <2>1, <3>3, <4>1 DEF HandlerStream, Gone
    <3>5. CASE w = "toHandler"
      <4>1. wire'["toHandler"] = wire["toHandler"] \o SubSeq(frame, 1, n)
        BY <1>0, <3>2, <3>5 DEF Sent
      <4>2. n \in 0 .. Len(frame)
        <5>1. Len(frame) \in Nat
          BY LenProperties
        <5> QED BY <5>1
      <4>3. /\ SubSeq(frame, 1, n) \in Seq(Fields) /\ Len(SubSeq(frame, 1, n)) = n
            /\ Begins(SubSeq(frame, 1, n), frame)
        BY <4>2, WholeBegins
      <4>4. CASE handler = "new"
        <5>1. worker.at = "register" /\ wire["toHandler"] = <<>>
          BY <2>1, <2>3, <3>1, <3>5, <4>4, SendingKnown DEF HandlerStream, StorageStream, AtHandshake
        <5>2. frame = protocol_send_worker_register_master
          BY <2>3, <3>1, <5>1 DEF Reports
        <5>3. Len(frame) = 2
          BY <5>2, ShortFrames
        <5>4. wire'["toHandler"] = SubSeq(frame, 1, n)
          <6>1. <<>> \o SubSeq(frame, 1, n) = SubSeq(frame, 1, n)
            BY <4>3, ConcatEmptySeq
          <6> QED BY <4>1, <5>1, <6>1
        <5>5. Len(wire'["toHandler"]) <= 2
          BY <4>3, <5>3, <5>4
        <5> QED BY <1>1, <2>1, <3>3, <4>4, <5>5 DEF HandlerStream
      <4>5. CASE handler # "new"
        <5>1. frame \in ReportFrames
          BY <2>3, <3>1, <3>5, <4>5, ReportSent
        <5>2. Framed(wire["toHandler"], HandlerReads) /\ Complete(wire["toHandler"], HandlerReads)
          BY <2>1, <4>5 DEF HandlerStream
        <5>3. Framed(wire'["toHandler"], HandlerReads)
          BY <1>0, <4>1, <4>3, <5>1, <5>2, ReportAdded
        <5> QED BY <1>1, <2>1, <4>5, <5>3 DEF HandlerStream, Gone
      <4> QED BY <4>4, <4>5
    <3> QED BY <3>1, <3>4, <3>5
  <2> QED BY <2>2, <2>3
<1> QED BY <1>2, <1>3, <1>4, <1>5, <1>6, <1>7 DEF WorkerListens

LEMMA NothingFramed == \A reads : Framed(<<>>, reads) /\ Complete(<<>>, reads)
<1>1. Len(<<>>) = 0 /\ ~(\E i \in 1 .. 0 : TRUE)
  OBVIOUS
<1> QED BY <1>1 DEF Framed, Complete

LEMMA MasterKeepsStreams ==
  ASSUME PathTypeOK, HandlerStream, WorkerStream, Outs, MasterNext
  PROVE  HandlerStream' /\ WorkerStream'
<1>0. /\ wire \in [Streams -> Seq(Fields)] /\ out \in [Threads -> Seq(Fields)]
      /\ "toWorker" \in Streams /\ "toHandler" \in Streams /\ "handler" \in Threads
      /\ UNCHANGED worker /\ wire'["toHandler"] = wire["toHandler"]
  BY MasterStreams DEF PathTypeOK, MasterType, Streams, Threads
<1>1. CASE SchedulerAssigns
  <2>1. /\ session = "listed" /\ session' = "given" /\ handler # "new" /\ handler' = handler
        /\ wire'["toWorker"] = wire["toWorker"] \o Path
    BY <1>0, <1>1 DEF SchedulerAssigns, Sent, Path
  <2>2. HandlerStream'
    BY <1>0, <2>1 DEF HandlerStream, Gone
  <2>3. CASE Gone
    BY <1>0, <2>2, <2>3 DEF WorkerStream, Gone
  <2>4. CASE ~Gone
    <3>1. worker.at \in {"register", "idle"} /\ ~PathPending
      BY <2>1, <2>4 DEF HandlerStream, WorkerStream, PathTypeOK, WorkerType, Gone
    <3>2. CASE worker.at = "register"
      <4>1. wire["toWorker"] = Ack
        BY <2>1, <2>4, <3>1, <3>2 DEF WorkerStream, PathPending
      <4> QED BY <1>0, <2>1, <2>2, <3>2, <4>1, PathFrames DEF WorkerStream, PathPending, ToBeGiven
    <3>3. CASE worker.at = "idle"
      <4>1. wire["toWorker"] = <<>>
        BY <2>4, <3>1, <3>3, PathFrames DEF WorkerStream, PathPending
      <4>2. wire'["toWorker"] = Path
        BY <2>1, <4>1, PathFrames
      <4>3. ~worker.failed /\ worker.sending = <<>>
        BY <2>1, <2>4, <3>3 DEF WorkerStream, ToBeGiven
      <4> QED BY <1>0, <2>1, <2>2, <3>3, <4>2, <4>3 DEF WorkerStream, PathPending, ToBeGiven
    <3> QED BY <3>1, <3>2, <3>3
  <2> QED BY <2>2, <2>3, <2>4
<1>2. ASSUME wire'["toWorker"] = wire["toWorker"], (handler' = "new") = (handler = "new"),
             handler = "new" => out'["handler"] = out["handler"],
             session' \in {session, "closed"} \/ session = "none"
      PROVE  HandlerStream' /\ WorkerStream'
  <2>1. HandlerStream'
    BY <1>0, <1>2 DEF HandlerStream, Gone
  <2>2. WorkerStream'
    BY <1>0, <1>2 DEF WorkerStream, PathPending, ToBeGiven, Gone
  <2> QED BY <2>1, <2>2
<1>3. CASE MasterAdmits
  BY <1>0, <1>2, <1>3 DEF MasterAdmits
<1>4. CASE HandlerTruncates \/ HandlerCloses \/ MonitorFinds \/ MonitorCloses
  BY <1>0, <1>2, <1>4 DEF HandlerTruncates, HandlerCloses, MonitorFinds, MonitorCloses
<1>5. CASE HandlerEnds
  <2>1. /\ handler = "serve" /\ handler' \in {"end", "idled"} /\ session' = session
        /\ wire' = wire
    BY <1>5 DEF HandlerEnds
  <2> QED BY <1>2, <2>1
<1>6. CASE MonitorRemoves
  BY <1>0, <1>2, <1>6 DEF MonitorRemoves
<1>7. ASSUME NEW t \in Threads, MasterWrites(t) PROVE HandlerStream' /\ WorkerStream'
  <2>1. /\ wire'["toWorker"] = wire["toWorker"] /\ handler' = handler /\ session' = session
    BY <1>0, <1>7 DEF MasterWrites, Sent
  <2>2. handler = "new" => t # "handler"
    BY <1>7 DEF MasterWrites, HandlerStream
  <2>3. handler = "new" => out'["handler"] = out["handler"]
    BY <1>0, <1>7, <2>2 DEF MasterWrites
  <2> QED BY <1>2, <2>1, <2>3
<1>8. ASSUME NEW t \in Threads, WriteFails(t) PROVE HandlerStream' /\ WorkerStream'
  <2>1. /\ wire' = wire /\ session' \in {session, "closed"} /\ handler' \in {handler, "serve"}
        /\ (t # "handler" => handler' = handler)
    BY <1>8 DEF WriteFails
  <2>2. handler = "new" => t # "handler"
    BY <1>8 DEF WriteFails, HandlerStream
  <2>3. handler = "new" => out'["handler"] = out["handler"]
    BY <1>0, <1>8, <2>2 DEF WriteFails
  <2> QED BY <1>2, <2>1, <2>2, <2>3
<1> QED BY <1>1, <1>3, <1>4, <1>5, <1>6, <1>7, <1>8 DEF MasterNext, WritesOut

LEMMA HandlerKeepsStreams ==
  ASSUME PathTypeOK, HandlerStream, WorkerStream, MasterRegisters \/ HandlerReceives
  PROVE  HandlerStream' /\ WorkerStream' /\ astray' = astray
<1>0. /\ wire \in [Streams -> Seq(Fields)] /\ wire["toHandler"] \in Seq(Fields)
      /\ "toWorker" \in Streams /\ "toHandler" \in Streams
      /\ UNCHANGED worker
  BY HandlerStreams DEF PathTypeOK, Streams
<1>1. CASE MasterRegisters
  <2>1. /\ handler = "new" /\ wire["toHandler"] # <<>> /\ Len(wire["toHandler"]) <= 2
        /\ wire["toWorker"] = <<>> /\ worker.at \in {"register", "gone"} /\ worker.sending = <<>>
        /\ session' = session
    BY <1>1 DEF MasterRegisters, HandlerStream
  <2>2. From(wire["toHandler"], 2) = <<>>
    BY <1>0, <2>1, WholeTaken
  <2>3. wire'["toHandler"] = <<>> /\ handler' \in {"serve", "end"}
    BY <1>0, <1>1, <2>2 DEF MasterRegisters, Sent
  <2>4. HandlerStream'
    BY <1>0, <2>1, <2>3, NothingFramed DEF HandlerStream
  <2>5. CASE Gone
    BY <1>0, <2>4, <2>5, <1>1 DEF WorkerStream, Gone, MasterRegisters, history
  <2>6. CASE ~Gone
    <3>1. ~InVain(Tail(wire["toHandler"]), protocol_recv_worker_register)
      <4>1. Came(Tail(wire["toHandler"]), protocol_recv_worker_register)
        BY <1>1, <2>6 DEF MasterRegisters
      <4>2. Tail(wire["toHandler"]) \in Seq(Fields)
        BY <1>0, <2>1, Rest
      <4>3. /\ Len(Tail(wire["toHandler"])) >= 1
            /\ DOMAIN Tail(wire["toHandler"]) = 1 .. Len(Tail(wire["toHandler"]))
        BY <4>1, <4>2 DEF Came, protocol_recv_worker_register, Must
      <4>4. 1 \in DOMAIN Tail(wire["toHandler"])
        <5>1. PICK k \in Nat : k = Len(Tail(wire["toHandler"]))
          BY <4>2, LenProperties
        <5>2. 1 \in 1 .. k
          BY <4>3, <5>1
        <5> QED BY <4>3, <5>1, <5>2
      <4> QED BY <4>4 DEF InVain, protocol_recv_worker_register, Must
    <3>2. wire'["toWorker"] = Ack
      <4>1. wire' = [Sent("toWorker", Ack) EXCEPT !["toHandler"] = From(@, 2)]
        BY <1>1, <3>1 DEF MasterRegisters, Ack
      <4>2. wire'["toWorker"] = wire["toWorker"] \o Ack
        BY <1>0, <4>1 DEF Sent
      <4> QED BY <2>1, <4>2, PathFrames
    <3>3. worker.at = "register"
      BY <2>1, <2>6 DEF Gone
    <3>4. WorkerStream'
      BY <1>0, <3>2, <3>3, PathFrames DEF WorkerStream, PathPending
    <3> QED BY <1>1, <2>4, <3>4 DEF MasterRegisters, history
  <2> QED BY <2>5, <2>6
<1>2. CASE HandlerReceives
  <2>1. handler # "new" /\ wire["toHandler"] # <<>>
    BY <1>2 DEF HandlerReceives
  <2> DEFINE op == Head(wire["toHandler"])
             s == Tail(wire["toHandler"])
             f == HandlerReads[op]
  <2>2. /\ InStep(s, f)
        /\ Framed(From(s, Len(f)), HandlerReads)
        /\ Complete(wire["toHandler"], HandlerReads) => Complete(From(s, Len(f)), HandlerReads)
    BY <2>1, HandlerHears
  <2>3. /\ astray' = astray /\ wire'["toHandler"] = From(s, Len(f))
        /\ wire'["toWorker"] = wire["toWorker"] /\ handler' # "new" /\ session' = session
    BY <1>0, <1>2, <2>2 DEF HandlerReceives
  <2> HIDE DEF s, f, op
  <2>4. HandlerStream'
    BY <1>0, <2>1, <2>2, <2>3 DEF HandlerStream, Gone
  <2>5. WorkerStream'
    BY <1>0, <2>1, <2>3 DEF WorkerStream, PathPending, ToBeGiven, Gone
  <2> QED BY <2>3, <2>4, <2>5
<1> QED BY <1>1, <1>2

-----------------------------------------------------------------------------
(***************************************************************************)
(* What the Master tells Query Control is true                             *)
(***************************************************************************)
Results == {"SUCCESS", "ERROR"}
LEMMA ToldByClient ==
  ASSUME PathTypeOK, ClientNext, NEW r \in Results, Told(r)'
  PROVE  Told(r)
<1>0. /\ wire \in [Streams -> Seq(Fields)] /\ wire["toClient"] \in Seq(Fields)
      /\ "toClient" \in Streams /\ DOMAIN client = {"at", "need", "result"}
  BY DEF PathTypeOK, ClientType, Streams
<1>1. out' = out
  BY DEF ClientNext, ClientSubmits, ClientConfirms, ClientListens, ClientReadsField, ClientDrifts,
         master
<1>2. CASE ClientSubmits
  <2>1. client'.result = client.result /\ wire'["toClient"] = wire["toClient"]
    BY <1>0, <1>2 DEF ClientSubmits, Sent
  <2> QED BY <1>1, <2>1 DEF Told
<1>3. CASE ~ClientSubmits
  <2>1. wire["toClient"] # <<>> /\ wire'["toClient"] = Tail(wire["toClient"])
    BY <1>0, <1>3 DEF ClientNext, ClientConfirms, ClientListens, ClientReadsField, ClientDrifts
  <2>2. PICK w \in Seq(Fields) : w = wire["toClient"]
    BY <1>0
  <2>3. /\ Len(w) > 0 /\ Head(w) = w[1] /\ Len(Tail(w)) = Len(w) - 1
        /\ \A i \in 1 .. Len(w) - 1 : Tail(w)[i] = w[i + 1]
    BY <2>1, <2>2, Rest
  <2>4. PICK k \in Nat : k = Len(w) /\ k > 0
    BY <2>2, <2>3, LenProperties
  <2>5. ASSUME NEW i \in 1 .. Len(Tail(w)), Tail(w)[i] = r
        PROVE  \E j \in 1 .. Len(w) : w[j] = r
    <3>1. i + 1 \in 1 .. k /\ i \in 1 .. k - 1
      BY <2>3, <2>4
    <3> QED BY <2>3, <2>4, <2>5, <3>1
  <2>6. client'.result = r => client.result = r \/ Head(w) = r
    <3>1. CASE ClientConfirms
      BY <1>0, <3>1 DEF ClientConfirms, Results
    <3>2. CASE ClientListens
      BY <1>0, <3>2 DEF ClientListens
    <3>3. CASE ClientReadsField
      <4>1. client'.result \in {client.result, Head(w)}
        BY <1>0, <2>2, <3>3 DEF ClientReadsField
      <4> QED BY <4>1
    <3>4. CASE ClientDrifts
      BY <3>4 DEF ClientDrifts
    <3> QED BY <1>3, <3>1, <3>2, <3>3, <3>4 DEF ClientNext
  <2>7. Head(w) = r => \E j \in 1 .. Len(w) : w[j] = r
    BY <2>3, <2>4
  <2> QED BY <1>1, <2>1, <2>2, <2>5, <2>6, <2>7 DEF Told
<1> QED BY <1>2, <1>3

\* The fields of a stream of which the beginning is taken.
LEMMA FieldsTaken ==
  ASSUME NEW s \in Seq(Fields), s # <<>>, NEW n \in Nat,
         NEW i \in 1 .. Len(From(Tail(s), n))
  PROVE  /\ i + n + 1 \in 1 .. Len(s) /\ From(Tail(s), n)[i] = s[i + n + 1]
         /\ i < Len(From(Tail(s), n)) => i + n + 1 < Len(s)
<1>1. PICK k \in Nat : k = Len(s) /\ k > 0
  BY Rest
<1>2. PICK r \in Seq(Fields) : r = Tail(s) /\ Len(r) = k - 1 /\ \A j \in 1 .. k - 1 : r[j] = s[j + 1]
  <2>1. /\ Tail(s) \in Seq(Fields) /\ Len(Tail(s)) = Len(s) - 1
        /\ \A j \in 1 .. Len(s) - 1 : Tail(s)[j] = s[j + 1]
    BY Rest
  <2> QED BY <1>1, <2>1
<1>3. PICK t \in Seq(Fields) :
        /\ t = From(r, n)
        /\ n <= Len(r) => Len(t) = Len(r) - n
        /\ n > Len(r) => Len(t) = 0
        /\ \A j \in 1 .. Len(t) : t[j] = r[j + n]
  <2>1. /\ From(r, n) \in Seq(Fields)
        /\ n <= Len(r) => Len(From(r, n)) = Len(r) - n
        /\ n > Len(r) => Len(From(r, n)) = 0
        /\ \A j \in 1 .. Len(From(r, n)) : From(r, n)[j] = r[j + n]
    BY Dropped
  <2> QED BY <2>1
<1>4. PICK l \in Nat : l = Len(t)
  BY LenProperties
<1>5. l = k - 1 - n /\ i \in 1 .. l
  BY <1>1, <1>2, <1>3, <1>4
<1>6. i + n \in 1 .. k - 1 /\ t[i] = r[i + n]
  BY <1>1, <1>3, <1>4, <1>5
<1>7. i + n + 1 \in 1 .. k /\ r[i + n] = s[i + n + 1] /\ (i < l => i + n + 1 < k)
  BY <1>1, <1>2, <1>5, <1>6
<1> QED BY <1>1, <1>2, <1>3, <1>4, <1>6, <1>7

LEMMA SettledStays ==
  ASSUME Settled, UNCHANGED <<worker, unmet, cut>>, wire'["toHandler"] = wire["toHandler"],
         wire'["toStorage"] = wire["toStorage"], Gone \/ wire'["toWorker"] = wire["toWorker"],
         handler' # "new", session' \notin {"none", "listed"}
  PROVE  Settled'
BY DEF Settled, Unheeded, Gone

LEMMA ClientKeepsOutcomes ==
  ASSUME PathTypeOK, Outcomes, ClientNext PROVE Outcomes'
<1>1. /\ wire'["toHandler"] = wire["toHandler"] /\ wire'["toStorage"] = wire["toStorage"]
      /\ wire'["toWorker"] = wire["toWorker"]
      /\ UNCHANGED <<session, handler, monitor, worker, unmet, cut>>
  BY ClientStreams DEF Streams, master, history
<1>2. (Told("SUCCESS")' => Told("SUCCESS")) /\ (Told("ERROR")' => Told("ERROR"))
  BY ToldByClient DEF Results
<1>3. Finished' => Finished
  BY <1>1, <1>2 DEF Finished
<1>4. Settled => Settled'
  BY <1>1 DEF Settled, Unheeded, Gone
<1>5. Blamed' => Blamed
  BY <1>1, <1>2 DEF Blamed
<1> QED BY <1>1, <1>3, <1>4, <1>5 DEF Outcomes, Gone

\* The fields the threads of the Master have to write, or have written.
LEMMA ToldByMaster ==
  ASSUME PathTypeOK, MasterNext, NEW r \in Results, Told(r)'
  PROVE  Told(r) \/ (monitor = "found" /\ r = "ERROR")
<1>0. /\ wire \in [Streams -> Seq(Fields)] /\ wire["toClient"] \in Seq(Fields)
      /\ "toClient" \in Streams /\ out \in [Threads -> Seq(Fields)] /\ client' = client
  BY MasterStreams DEF PathTypeOK, MasterType, Streams
<1>1. ASSUME NEW t \in Threads, MasterWrites(t) PROVE Told(r)
  <2>1. PICK w \in Seq(Fields), v \in Seq(Fields) : w = wire["toClient"] /\ v = out[t] /\ v # <<>>
    BY <1>0, <1>1 DEF MasterWrites
  <2>2. wire'["toClient"] = w \o <<Head(v)>> /\ out' = [out EXCEPT ![t] = Tail(v)]
    BY <1>0, <1>1, <2>1 DEF MasterWrites, Sent
  <2>3. /\ Head(v) \in Fields /\ Head(v) = v[1] /\ Len(v) > 0 /\ Len(Tail(v)) = Len(v) - 1
        /\ \A i \in 1 .. Len(v) - 1 : Tail(v)[i] = v[i + 1]
    BY <2>1, Rest
  <2>4. PICK k \in Nat, n \in Nat : k = Len(v) /\ n = Len(w)
    BY LenProperties
  <2>5. PICK h \in Fields : h = Head(v)
    BY <2>3
  <2>6. /\ Len(w \o <<h>>) = n + 1
        /\ \A i \in 1 .. n : (w \o <<h>>)[i] = w[i]
        /\ (w \o <<h>>)[n + 1] = h
    <3>1. <<h>> \in Seq(Fields) /\ Len(<<h>>) = 1 /\ <<h>>[1] = h
      OBVIOUS
    <3>2. /\ Len(w \o <<h>>) = Len(w) + Len(<<h>>)
          /\ \A i \in 1 .. Len(w) : (w \o <<h>>)[i] = w[i]
          /\ \A i \in 1 .. Len(<<h>>) : (w \o <<h>>)[Len(w) + i] = <<h>>[i]
      BY <3>1, Joined
    <3>3. 1 \in 1 .. Len(<<h>>)
      BY <3>1
    <3> QED BY <2>4, <3>1, <3>2, <3>3
  <2>7. ASSUME NEW i \in 1 .. Len(wire'["toClient"]), wire'["toClient"][i] = r PROVE Told(r)
    <3>1. CASE i \in 1 .. n
      <4>1. w[i] = r
        BY <2>2, <2>5, <2>6, <2>7, <3>1
      <4> QED BY <2>1, <2>4, <3>1, <4>1 DEF Told
    <3>2. CASE i = n + 1
      <4>1. v[1] = r /\ 1 \in 1 .. k
        BY <2>2, <2>3, <2>4, <2>5, <2>6, <2>7, <3>2
      <4> QED BY <2>1, <2>4, <4>1 DEF Told
    <3>3. i \in 1 .. n + 1
      BY <2>2, <2>5, <2>6, <2>7
    <3> QED BY <2>4, <3>1, <3>2, <3>3
  <2>8. ASSUME NEW u \in Threads, NEW i \in 1 .. Len(out'[u]), out'[u][i] = r PROVE Told(r)
    <3>1. CASE u = t
      <4>1. i \in 1 .. k - 1 /\ v[i + 1] = r
        BY <1>0, <2>2, <2>3, <2>4, <2>8, <3>1
      <4>2. i + 1 \in 1 .. k
        BY <2>4, <4>1
      <4> QED BY <2>1, <2>4, <4>1, <4>2 DEF Told
    <3>2. CASE u # t
      BY <1>0, <2>2, <2>8, <3>2 DEF Told
    <3> QED BY <3>1, <3>2
  <2> QED BY <1>0, <2>7, <2>8 DEF Told
<1>2. ASSUME wire'["toClient"] = wire["toClient"], \A t \in Threads : out'[t] \in {out[t], <<>>}
      PROVE  Told(r)
  <2>1. Len(<<>>) = 0
    OBVIOUS
  <2> QED BY <1>0, <1>2, <2>1 DEF Told
<1>3. CASE MasterAdmits
  <2>1. /\ wire'["toClient"] = wire["toClient"]
        /\ out' = out \/ out' = [out EXCEPT !["admission"] = protocol_send_query_confirm]
    BY <1>0, <1>3 DEF MasterAdmits
  <2>2. Len(protocol_send_query_confirm) = 2 /\ protocol_send_query_confirm[1] = "CONFIRM"
        /\ protocol_send_query_confirm[2] = "id"
    BY DEF protocol_send_query_confirm
  <2>3. ASSUME NEW u \in Threads, NEW i \in 1 .. Len(out'[u]), out'[u][i] = r
        PROVE  out'[u] = out[u]
    BY <1>0, <2>1, <2>2, <2>3 DEF Results
  <2> QED BY <1>0, <2>1, <2>3 DEF Told
<1>4. CASE SchedulerAssigns \/ HandlerCloses \/ HandlerEnds \/ MonitorFinds \/ MonitorCloses
  BY <1>0, <1>2, <1>4 DEF SchedulerAssigns, HandlerCloses, HandlerEnds, MonitorFinds, MonitorCloses,
                          Sent
<1>5. CASE HandlerTruncates \/ \E t \in Threads : WriteFails(t)
  BY <1>0, <1>2, <1>5 DEF HandlerTruncates, WriteFails
<1>6. CASE MonitorRemoves
  <2>1. /\ wire' = wire /\ out' = [out EXCEPT !["monitor"] = protocol_send_query_result("ERROR")]
        /\ monitor = "found"
    BY <1>6 DEF MonitorRemoves
  <2>2. /\ \A i \in 1 .. Len(protocol_send_query_result("ERROR")) :
             protocol_send_query_result("ERROR")[i] # "SUCCESS"
    BY DEF protocol_send_query_result
  <2>3. r = "SUCCESS" => Told(r)
    BY <1>0, <2>1, <2>2 DEF Told
  <2> QED BY <2>1, <2>3 DEF Results
<1> QED BY <1>1, <1>3, <1>4, <1>5, <1>6 DEF MasterNext, WritesOut

LEMMA MasterKeepsOutcomes ==
  ASSUME PathTypeOK, HandlerStream, WorkerStream, Outcomes, Outs, MasterNext PROVE Outcomes'
<1>1. /\ wire'["toHandler"] = wire["toHandler"] /\ wire'["toStorage"] = wire["toStorage"]
      /\ UNCHANGED <<worker, unmet, cut>>
  BY MasterStreams DEF Streams
<1>2. /\ Told("SUCCESS")' => Told("SUCCESS")
      /\ Told("ERROR")' => Told("ERROR") \/ monitor = "found"
  BY ToldByMaster DEF Results
<1>3. Finished' => Finished
  BY <1>1, <1>2 DEF Finished
<1>4. Settled => Settled'
  <2> SUFFICES ASSUME Settled PROVE Settled'
    OBVIOUS
  <2>1. session \notin {"none", "listed"} /\ handler # "new"
    BY DEF Settled
  <2>2. wire \in [Streams -> Seq(Fields)] /\ "toWorker" \in Streams
    BY DEF PathTypeOK, Streams
  <2>3. wire'["toWorker"] = wire["toWorker"] /\ session' \in {session, "closed"} /\ handler' # "new"
    <3>1. CASE \E t \in Threads : WritesOut(t)
      <4>1. PICK t \in Threads : WritesOut(t)
        BY <3>1
      <4> QED BY <2>1, <2>2, <4>1 DEF WritesOut, MasterWrites, WriteFails, Sent
    <3>2. CASE ~(\E t \in Threads : WritesOut(t))
      BY <2>1, <2>2, <3>2
         DEF MasterNext, MasterAdmits, SchedulerAssigns, HandlerTruncates, HandlerCloses, HandlerEnds,
             MonitorFinds, MonitorRemoves, MonitorCloses
    <3> QED BY <3>1, <3>2
  <2> QED BY <1>1, <2>1, <2>3, SettledStays
<1>5. Blamed' => Blamed \/ monitor = "found"
  BY <1>1, <1>2 DEF Blamed
<1>6. monitor' = "found" => monitor = "found" \/ Gone
  <2>1. CASE \E t \in Threads : WritesOut(t)
    BY <2>1 DEF WritesOut, MasterWrites, WriteFails
  <2>2. CASE ~(\E t \in Threads : WritesOut(t))
    BY <2>2
       DEF MasterNext, MasterAdmits, SchedulerAssigns, HandlerTruncates, HandlerCloses, HandlerEnds,
           MonitorFinds, MonitorRemoves, MonitorCloses
  <2> QED BY <2>1, <2>2
<1> QED BY <1>1, <1>3, <1>4, <1>5, <1>6 DEF Outcomes, Gone

LEMMA VerdictsTell ==
  /\ \A i \in 1 .. Len(Verdict["READ_RESULT"]) : Verdict["READ_RESULT"][i] \notin Results
  /\ \A i \in 1 .. Len(Verdict["QUERY_FINISHED"]) : Verdict["QUERY_FINISHED"][i] # "ERROR"
  /\ \A i \in 1 .. Len(Verdict["QUERY_ERROR"]) : Verdict["QUERY_ERROR"][i] # "SUCCESS"
<1>1. /\ Verdict["READ_RESULT"] = protocol_send_query_read_message
      /\ Verdict["QUERY_FINISHED"] = protocol_send_query_result("SUCCESS")
      /\ Verdict["QUERY_ERROR"] = protocol_send_query_result("ERROR")
  BY DEF Verdict
<1>2. \A i \in 1 .. Len(protocol_send_query_read_message) :
        protocol_send_query_read_message[i] \notin Results
  BY DEF protocol_send_query_read_message, Str, Results
<1>3. \A i \in 1 .. Len(protocol_send_query_result("SUCCESS")) :
        protocol_send_query_result("SUCCESS")[i] # "ERROR"
  BY DEF protocol_send_query_result
<1>4. \A i \in 1 .. Len(protocol_send_query_result("ERROR")) :
        protocol_send_query_result("ERROR")[i] # "SUCCESS"
  BY DEF protocol_send_query_result
<1> QED BY <1>1, <1>2, <1>3, <1>4

LEMMA HandlerKeepsOutcomes ==
  ASSUME PathTypeOK, HandlerStream, Outcomes, MasterRegisters \/ HandlerReceives
  PROVE  Outcomes'
<1>0. /\ wire \in [Streams -> Seq(Fields)] /\ out \in [Threads -> Seq(Fields)]
      /\ wire["toHandler"] \in Seq(Fields) /\ "toHandler" \in Streams /\ "handler" \in Threads
      /\ UNCHANGED <<client, worker, unmet>>
      /\ wire'["toClient"] = wire["toClient"] /\ wire'["toStorage"] = wire["toStorage"]
  BY HandlerStreams DEF PathTypeOK, MasterType, Streams, Threads
<1>1. CASE MasterRegisters
  <2>1. /\ handler = "new" /\ Len(wire["toHandler"]) <= 2 /\ out' = out /\ cut' = cut
        /\ monitor' \in {monitor, "done"}
    BY <1>1 DEF MasterRegisters, HandlerStream, history
  <2>2. From(wire["toHandler"], 2) = <<>>
    BY <1>0, <2>1, WholeTaken
  <2>3. wire'["toHandler"] = <<>> /\ Len(<<>>) = 0
    BY <1>0, <1>1, <2>2 DEF MasterRegisters, Sent
  <2>4. ~Told("SUCCESS")
    BY <2>1 DEF Outcomes, Finished, Settled
  <2>5. ~Finished'
    BY <1>0, <2>1, <2>3, <2>4 DEF Finished, Told
  <2>6. Blamed' => Blamed
    BY <1>0, <2>1, <2>3 DEF Blamed, Told
  <2> QED BY <1>0, <2>1, <2>5, <2>6 DEF Outcomes, Gone
<1>2. CASE HandlerReceives
  <2>1. handler # "new" /\ wire["toHandler"] # <<>>
    BY <1>2 DEF HandlerReceives
  <2> DEFINE w == wire["toHandler"]
             op == Head(w)
             s == Tail(w)
             f == HandlerReads[op]
  <2>2. /\ op = w[1] /\ op \in ReportCodes /\ Len(f) \in Nat /\ DOMAIN f = 1 .. Len(f)
        /\ s \in Seq(Fields) /\ From(s, Len(f)) \in Seq(Fields)
        /\ Complete(w, HandlerReads) => Came(s, f) /\ Complete(From(s, Len(f)), HandlerReads)
    BY <2>1, HandlerHears
  <2>3. /\ Came(s, f) \/ Gone
        /\ cut' = IF Came(s, f) \/ InVain(s, f) THEN cut ELSE cut \union {op}
        /\ out' = out \/ (~InVain(s, f) /\ out' = [out EXCEPT !["handler"] = Verdict[op]])
        /\ wire'["toHandler"] = From(s, Len(f))
        /\ handler' # "new" /\ UNCHANGED <<session, monitor>> /\ wire'["toWorker"] = wire["toWorker"]
    BY <1>0, <1>2 DEF HandlerReceives
  <2>4. PICK k \in Nat : k = Len(w) /\ k > 0
    BY <1>0, <2>1, Rest
  <2>5. op \in {"QUERY_FINISHED", "QUERY_ERROR"} /\ ~InVain(s, f) => Came(s, f)
    <3> SUFFICES ASSUME op \in {"QUERY_FINISHED", "QUERY_ERROR"}, ~Came(s, f)
                 PROVE  InVain(s, f)
      OBVIOUS
    <3>1. PICK n \in Nat, m \in Nat : n = Len(f) /\ m = Len(s) /\ DOMAIN s = 1 .. m
      BY <2>2, LenProperties
    <3>2. \A i \in 1 .. n : f[i].noticed
      BY <2>2, <3>1, ReportFacts
    <3>3. m < n
      BY <3>1 DEF Came
    <3>4. n \in DOMAIN f \ DOMAIN s /\ n \in 1 .. n
      BY <2>2, <3>1, <3>3
    <3> QED BY <3>2, <3>4 DEF InVain
  <2>6. op = "QUERY_FINISHED" /\ ~InVain(s, f) => Finished
    <3> SUFFICES ASSUME op = "QUERY_FINISHED", Came(s, f) PROVE Finished
      BY <2>5
    <3>1. Len(f) = 1
      BY ReportFacts
    <3>2. Len(s) = k - 1
      BY <1>0, <2>1, <2>4, Rest
    <3>3. k - 1 >= 1
      BY <3>1, <3>2 DEF Came
    <3>4. 1 \in 1 .. k - 1
      BY <2>4, <3>3
    <3> QED BY <2>2, <2>4, <3>4 DEF Finished
  <2>7. op = "QUERY_ERROR" => Blamed
    <3>1. 1 \in 1 .. k
      BY <2>4
    <3> QED BY <2>2, <2>4, <3>1 DEF Blamed
  <2>8. Told("SUCCESS")' => Finished
    <3> SUFFICES ASSUME NEW t \in Threads, NEW i \in 1 .. Len(out'[t]), out'[t][i] = "SUCCESS"
                 PROVE  Finished
      BY <1>0 DEF Told, Finished
    <3>1. CASE out'[t] = out[t]
      BY <3>1 DEF Finished, Told
    <3>2. CASE out'[t] # out[t]
      <4>1. out'[t] = Verdict[op] /\ ~InVain(s, f)
        BY <1>0, <2>3, <3>2
      <4>2. op = "QUERY_FINISHED"
        BY <2>2, <4>1, VerdictsTell DEF ReportCodes, Results
      <4> QED BY <2>6, <4>1, <4>2
    <3> QED BY <3>1, <3>2
  <2>9. Told("ERROR")' => Blamed
    <3> SUFFICES ASSUME NEW t \in Threads, NEW i \in 1 .. Len(out'[t]), out'[t][i] = "ERROR"
                 PROVE  Blamed
      BY <1>0 DEF Told, Blamed
    <3>1. CASE out'[t] = out[t]
      BY <3>1 DEF Blamed, Told
    <3>2. CASE out'[t] # out[t]
      <4>1. out'[t] = Verdict[op]
        BY <1>0, <2>3, <3>2
      <4>2. op = "QUERY_ERROR"
        BY <2>2, <4>1, VerdictsTell DEF ReportCodes, Results
      <4> QED BY <2>7, <4>2
    <3> QED BY <3>1, <3>2
  <2>10. ASSUME NEW i \in 1 .. Len(wire'["toHandler"])
         PROVE  \E j \in 1 .. k : /\ w[j] = wire'["toHandler"][i]
                                  /\ i < Len(wire'["toHandler"]) => j \in 1 .. k - 1
    <3>1. /\ i + Len(f) + 1 \in 1 .. k /\ From(s, Len(f))[i] = w[i + Len(f) + 1]
          /\ i < Len(From(s, Len(f))) => i + Len(f) + 1 < k
      BY <1>0, <2>1, <2>2, <2>3, <2>4, <2>10, FieldsTaken
    <3>2. PICK j \in 1 .. k : j = i + Len(f) + 1
      BY <3>1
    <3>3. i < Len(From(s, Len(f))) => j \in 1 .. k - 1
      BY <2>4, <3>1, <3>2
    <3> QED BY <2>3, <3>1, <3>2, <3>3
  <2>11. Finished' => Finished
    <3>1. wire'["toHandler"] \in Seq(Fields)
      BY <2>2, <2>3
    <3>2. PICK l \in Nat : l = Len(wire'["toHandler"])
      BY <3>1, LenProperties
    <3>3. ASSUME NEW i \in 1 .. l - 1, wire'["toHandler"][i] = "QUERY_FINISHED" PROVE Finished
      <4>1. i \in 1 .. l /\ i < l
        BY <3>2
      <4>2. PICK j \in 1 .. k - 1 : w[j] = "QUERY_FINISHED"
        BY <2>10, <3>2, <3>3, <4>1
      <4> QED BY <2>4, <4>2 DEF Finished
    <3> QED BY <2>8, <3>2, <3>3 DEF Finished
  <2>12. Blamed' => Blamed
    BY <2>4, <2>9, <2>10 DEF Blamed
  <2>13. Settled => Settled'
    <3> SUFFICES ASSUME Settled PROVE Settled'
      OBVIOUS
    <3>1. Complete(w, HandlerReads)
      BY DEF Settled
    <3>2. cut' = cut /\ Complete(wire'["toHandler"], HandlerReads)
      BY <2>2, <2>3, <3>1
    <3> HIDE DEF s, f, op
    <3> QED BY <1>0, <2>3, <3>2 DEF Settled, Unheeded, Gone
  <2>14. /\ cut' # {} => Gone
         /\ cut' \subseteq {"READ", "WRITE", "TAG", "DELETE", "COMMIT", "READ_RESULT"}
    <3>1. cut' # cut => Gone /\ cut' = cut \union {op} /\ op = "READ_RESULT"
      BY <2>2, <2>3, <2>5 DEF ReportCodes
    <3> HIDE DEF op
    <3> QED BY <3>1 DEF Outcomes
  <2> QED BY <1>0, <2>3, <2>11, <2>12, <2>13, <2>14 DEF Outcomes, Gone
<1> QED BY <1>1, <1>2

LEMMA StorageKeepsOutcomes ==
  ASSUME PathTypeOK, StorageStream, Outcomes, StorageNext \/ StorageEnds
  PROVE  Outcomes'
<1>0. /\ wire \in [Streams -> Seq(Fields)] /\ "toStorage" \in Streams
      /\ UNCHANGED <<client, session, handler, monitor, out, worker>>
  BY DEF PathTypeOK, Streams, master, StorageNext, StorageAccepts, StorageServes, StorageEnds
<1>1. /\ wire'["toClient"] = wire["toClient"] /\ wire'["toHandler"] = wire["toHandler"]
      /\ wire'["toWorker"] = wire["toWorker"]
  <2>1. CASE StorageAccepts
    BY <1>0, <2>1 DEF StorageAccepts, Sent, Streams
  <2>2. CASE StorageServes
    BY <1>0, <2>2 DEF StorageServes, Sent, Streams
  <2>3. CASE StorageEnds
    BY <1>0, <2>3 DEF StorageEnds, Sent, Streams
  <2> QED BY <2>1, <2>2, <2>3 DEF StorageNext
<1>2. (Finished' <=> Finished) /\ (Blamed' <=> Blamed)
  BY <1>0, <1>1 DEF Finished, Blamed, Told
<1>3. Settled => Settled'
  <2> SUFFICES ASSUME Settled PROVE Settled'
    OBVIOUS
  <2>1. StorageEnds
    BY DEF Settled, StorageNext, StorageAccepts, StorageServes
  <2>2. /\ wire'["toStorage"] = <<>> /\ UNCHANGED <<unmet, cut>>
    BY <1>0, <2>1 DEF StorageEnds, history
  <2> QED BY <1>0, <1>1, <2>2 DEF Settled, Unheeded, Gone
<1>4. unmet \subseteq unmet'
  BY DEF StorageNext, StorageAccepts, StorageServes, StorageEnds, history
<1>5. /\ cut' # {} => Gone
      /\ cut' \subseteq {"READ", "WRITE", "TAG", "DELETE", "COMMIT", "READ_RESULT"}
  <2>1. CASE StorageServes
    <3>1. storage = "serve" /\ wire["toStorage"] # <<>>
      BY <2>1 DEF StorageServes
    <3> DEFINE op == Head(wire["toStorage"])
               s == Tail(wire["toStorage"])
               f == StorageReads[op]
    <3>2. ~Came(s, f) /\ ~InVain(s, f) => op \in {"READ", "WRITE", "TAG", "DELETE", "COMMIT"}
      BY <3>1, StorageHears
    <3>3. /\ Came(s, f) \/ Gone
          /\ cut' = cut \/ (~Came(s, f) /\ ~InVain(s, f) /\ cut' = cut \union {op})
      BY <2>1 DEF StorageServes
    <3> HIDE DEF op, s, f
    <3> QED BY <3>2, <3>3 DEF Outcomes
  <2>2. CASE ~StorageServes
    <3>1. cut' = cut
      BY <2>2 DEF StorageNext, StorageAccepts, StorageEnds, history
    <3> QED BY <3>1 DEF Outcomes
  <2> QED BY <2>1, <2>2
<1> QED BY <1>0, <1>2, <1>3, <1>4, <1>5 DEF Outcomes, Gone

\* Where the end of a query appears in a stream that a frame is added to.
LEMMA ReportAppears ==
  ASSUME NEW s \in Seq(Fields), NEW g \in Seq(Fields), NEW frame,
         frame \in ReportFrames \union {protocol_send_worker_register_master}, Begins(g, frame),
         NEW i \in 1 .. Len(s \o g)
  PROVE  /\ Len(s \o g) = Len(s) + Len(g)
         /\ i \in 1 .. Len(s) => (s \o g)[i] = s[i]
         /\ (s \o g)[i] = "QUERY_FINISHED" =>
              i \in 1 .. Len(s) \/ (frame = protocol_send_worker_query_finished /\ i = Len(s) + 1)
         /\ (s \o g)[i] = "QUERY_ERROR" =>
              i \in 1 .. Len(s) \/ frame = protocol_send_worker_query_error
<1>1. PICK n \in Nat, m \in Nat : n = Len(s) /\ m = Len(g)
  BY LenProperties
<1>2. /\ Len(s \o g) = Len(s) + Len(g)
      /\ \A j \in 1 .. Len(s) : (s \o g)[j] = s[j]
      /\ \A j \in 1 .. Len(g) : (s \o g)[Len(s) + j] = g[j]
  BY Joined
<1> DEFINE t == s \o g
<1>3. /\ Len(t) = n + m
      /\ \A j \in 1 .. n : t[j] = s[j]
      /\ \A j \in 1 .. m : t[n + j] = g[j]
  BY <1>1, <1>2
<1>4. i \in 1 .. n + m
  BY <1>1, <1>2
<1> HIDE DEF t
<1>5. \A j \in 1 .. Len(frame) :
        /\ frame[j] = "QUERY_FINISHED" => frame = protocol_send_worker_query_finished /\ j = 1
        /\ frame[j] = "QUERY_ERROR" => frame = protocol_send_worker_query_error
  <2>1. \A j \in 1 .. Len(protocol_send_worker_register_master) :
          protocol_send_worker_register_master[j] \notin ReportCodes
    BY DEF protocol_send_worker_register_master, ReportCodes
  <2>2. \A j \in 1 .. Len(protocol_send_worker_read_result) :
          protocol_send_worker_read_result[j] \notin {"QUERY_FINISHED", "QUERY_ERROR"}
    BY DEF protocol_send_worker_read_result, Str
  <2>3. \A j \in 1 .. Len(protocol_send_worker_query_finished) :
          /\ protocol_send_worker_query_finished[j] = "QUERY_FINISHED" => j = 1
          /\ protocol_send_worker_query_finished[j] # "QUERY_ERROR"
    BY DEF protocol_send_worker_query_finished
  <2>4. \A j \in 1 .. Len(protocol_send_worker_query_error) :
          protocol_send_worker_query_error[j] # "QUERY_FINISHED"
    BY DEF protocol_send_worker_query_error, Str
  <2> QED BY <2>1, <2>2, <2>3, <2>4 DEF ReportFrames, ReportCodes
<1>6. CASE i \in 1 .. n
  BY <1>1, <1>2, <1>6
<1>7. CASE i \notin 1 .. n
  <2>1. PICK j \in 1 .. m : i = n + j
    <3>1. i - n \in 1 .. m /\ i = n + (i - n)
      BY <1>4, <1>7
    <3> QED BY <3>1
  <2>2. t[i] = frame[j] /\ j \in 1 .. Len(frame)
    <3>1. t[i] = g[j]
      BY <1>3, <2>1
    <3>2. g[j] = frame[j] /\ m <= Len(frame)
      BY <1>1, <2>1 DEF Begins
    <3>3. Len(frame) \in Nat
      BY FramesTyped, LenProperties DEF ReportFrames
    <3> QED BY <3>1, <3>2, <3>3
  <2>3. t[i] = "QUERY_FINISHED" => frame = protocol_send_worker_query_finished /\ i = n + 1
    BY <1>5, <2>1, <2>2
  <2>4. t[i] = "QUERY_ERROR" => frame = protocol_send_worker_query_error
    BY <1>5, <2>2
  <2> QED BY <1>1, <1>2, <1>7, <2>3, <2>4 DEF t
<1> QED BY <1>6, <1>7

\* What the Worker adds to its stream to the Master.
LEMMA WorkerAdds ==
  ASSUME PathTypeOK, StorageStream, Reports, HandlerStream,
         WorkerMoves \/ WorkerListens \/ WorkerSends \/ WorkerDies
  PROVE  \/ wire'["toHandler"] = wire["toHandler"]
         \/ /\ worker.sending # <<>> /\ worker.sending[1] = "toHandler"
            /\ worker.sending[2] \in ReportFrames \union {protocol_send_worker_register_master}
            /\ \E g \in Seq(Fields) :
                 /\ Begins(g, worker.sending[2]) /\ wire'["toHandler"] = wire["toHandler"] \o g
                 /\ WorkerDies \/ (WorkerSends /\ g = worker.sending[2])
                 /\ WorkerDies => Len(g) < Len(worker.sending[2])
<1>0. /\ wire \in [Streams -> Seq(Fields)] /\ "toHandler" \in Streams
  BY DEF PathTypeOK, Streams
<1>1. CASE WorkerMoves
  BY <1>1 DEF WorkerMoves, WorkerConnects, WorkerFetches, WorkerFinishes, WorkerRequests, WorkerGoesOn
<1>2. CASE WorkerListens
  BY <1>0, <1>2 DEF WorkerListens, WorkerRegisters, WorkerRegistered, WorkerTakesPath, WorkerHears,
                    WorkerHearsNothing
<1>3. ASSUME worker.sending # <<>>, worker.sending[1] = "toHandler"
      PROVE  worker.sending[2] \in ReportFrames \union {protocol_send_worker_register_master}
  <2>1. worker.at \in {"handshake", "wait", "register", "fetch", "idle"}
    BY <1>3, SendingKnown
  <2>2. worker.at \in {"register", "fetch", "idle"}
    BY <1>3, <2>1 DEF StorageStream, AtHandshake, AtWait
  <2> QED BY <1>3, <2>2 DEF Reports, ReportFrames
<1>4. CASE WorkerSends
  <2>1. /\ worker.sending # <<>> /\ worker.sending[1] \in {"toStorage", "toHandler"}
        /\ worker.sending[2] \in Seq(Fields)
    BY <1>4, SendingKnown DEF WorkerSends
  <2>2. CASE worker.sending[1] = "toStorage"
    BY <1>0, <1>4, <2>2 DEF WorkerSends, Sent
  <2>3. CASE worker.sending[1] = "toHandler"
    <3>1. wire'["toHandler"] = wire["toHandler"] \o worker.sending[2]
      BY <1>0, <1>4, <2>3 DEF WorkerSends, Sent
    <3>2. Begins(worker.sending[2], worker.sending[2])
      BY <2>1 DEF Begins
    <3>3. ~WorkerDies
      <4>1. worker'.at = worker.at
        BY <1>4 DEF WorkerSends, PathTypeOK, WorkerType
      <4>2. WorkerDies => worker'.at = "gone" /\ worker.at # "gone"
        BY DEF WorkerDies, PathTypeOK, WorkerType, Gone
      <4> QED BY <4>1, <4>2
    <3> QED BY <1>3, <1>4, <2>1, <2>3, <3>1, <3>2, <3>3
  <2> QED BY <2>1, <2>2, <2>3
<1>5. CASE WorkerDies
  <2>1. CASE worker.sending = <<>>
    BY <1>5, <2>1 DEF WorkerDies
  <2>2. CASE worker.sending # <<>>
    <3>1. PICK w \in {"toStorage", "toHandler"}, frame \in Seq(Fields) :
            worker.sending[1] = w /\ worker.sending[2] = frame
      BY <2>2, SendingKnown
    <3>2. PICK n \in 0 .. Len(frame) - 1 : wire' = Sent(w, SubSeq(frame, 1, n))
      BY <1>5, <2>2, <3>1 DEF WorkerDies
    <3>3. PICK k \in Nat : k = Len(frame)
      BY LenProperties
    <3>4. n \in 0 .. Len(frame) /\ n < k
      BY <3>3
    <3>5. PICK g \in Seq(Fields) : g = SubSeq(frame, 1, n) /\ Begins(g, frame) /\ Len(g) = n
      BY <3>4, WholeBegins
    <3>6. CASE w = "toStorage"
      BY <1>0, <3>2, <3>6 DEF Sent
    <3>7. CASE w = "toHandler"
      <4>1. wire'["toHandler"] = wire["toHandler"] \o g
        BY <1>0, <3>2, <3>5, <3>7 DEF Sent
      <4>2. Len(g) < Len(frame)
        BY <3>3, <3>4, <3>5
      <4> QED BY <1>3, <1>5, <2>2, <3>1, <3>5, <3>7, <4>1, <4>2
    <3> QED BY <3>6, <3>7
  <2> QED BY <2>1, <2>2
<1> QED BY <1>1, <1>2, <1>4, <1>5

\* The Worker tells the Master that the query ended as it did.
LEMMA EndSent ==
  ASSUME PathTypeOK, StorageStream, Reports, worker.sending # <<>>, worker.sending[1] = "toHandler"
  PROVE  /\ worker.sending[2] = protocol_send_worker_query_finished => worker.at = "idle"
         /\ worker.sending[2] = protocol_send_worker_query_error => worker.failed
<1>1. worker.at \in {"register", "fetch", "idle"}
  <2>1. worker.at \in {"handshake", "wait", "register", "fetch", "idle"}
    BY SendingKnown
  <2> QED BY <2>1 DEF StorageStream, AtHandshake, AtWait
<1>2. /\ protocol_send_worker_read_result[1] = "READ_RESULT"
      /\ protocol_send_worker_query_finished[1] = "QUERY_FINISHED"
      /\ protocol_send_worker_query_error[1] = "QUERY_ERROR"
      /\ protocol_send_worker_register_master[1] = "REGISTER"
  BY ReportsShaped, GreetingsShaped DEF Shaped
<1>3. CASE worker.at = "register"
  <2>1. worker.sending[2] = protocol_send_worker_register_master
    BY <1>3 DEF Reports
  <2> QED BY <1>2, <2>1
<1>4. CASE worker.at = "fetch"
  <2>1. worker.sending[2] = protocol_send_worker_read_result
    BY <1>4 DEF Reports
  <2> QED BY <1>2, <2>1
<1>5. CASE worker.at = "idle"
  <2>1. ~worker.failed => worker.sending[2] = protocol_send_worker_query_finished
    BY <1>5 DEF Reports
  <2> QED BY <1>2, <1>5, <2>1
<1> QED BY <1>1, <1>3, <1>4, <1>5

LEMMA WorkerKeepsOutcomes ==
  ASSUME PathTypeOK, StorageStream, Heeded, Reports, HandlerStream, WorkerStream, Outcomes,
         WorkerMoves \/ WorkerListens \/ WorkerSends \/ WorkerDies
  PROVE  Outcomes'
<1>0. /\ DOMAIN worker = {"at", "ins", "todo", "failed", "done", "sending"}
      /\ wire \in [Streams -> Seq(Fields)] /\ "toHandler" \in Streams /\ "toClient" \in Streams
      /\ wire["toHandler"] \in Seq(Fields)
  BY DEF PathTypeOK, WorkerType, Streams
<1>1. /\ UNCHANGED <<client, session, handler, monitor, out, cut>> /\ unmet \subseteq unmet'
      /\ Gone => Gone'
  BY <1>0
     DEF WorkerMoves, WorkerListens, WorkerConnects, WorkerFetches, WorkerFinishes, WorkerRequests,
         WorkerGoesOn, WorkerRegisters, WorkerRegistered, WorkerTakesPath, WorkerHears,
         WorkerHearsNothing, WorkerSends, WorkerDies, master, history, Gone, Resting
<1>2. wire'["toClient"] = wire["toClient"]
  <2>1. CASE WorkerMoves
    BY <2>1 DEF WorkerMoves, WorkerConnects, WorkerFetches, WorkerFinishes, WorkerRequests, WorkerGoesOn
  <2>2. CASE WorkerListens
    BY <1>0, <2>2 DEF WorkerListens, WorkerRegisters, WorkerRegistered, WorkerTakesPath, WorkerHears,
                      WorkerHearsNothing
  <2>3. ASSUME worker.sending # <<>>
        PROVE  worker.sending[1] # "toClient"
    BY <2>3, SendingKnown
  <2>4. CASE WorkerSends
    BY <1>0, <2>3, <2>4 DEF WorkerSends, Sent
  <2>5. CASE WorkerDies
    BY <1>0, <2>3, <2>5 DEF WorkerDies, Sent
  <2> QED BY <2>1, <2>2, <2>4, <2>5
<1>3. (Told("SUCCESS")' <=> Told("SUCCESS")) /\ (Told("ERROR")' <=> Told("ERROR"))
  BY <1>1, <1>2 DEF Told
<1>4. Settled => Settled'
  <2> SUFFICES ASSUME Settled PROVE Settled'
    OBVIOUS
  <2>1. worker.at \in {"idle", "gone"} /\ worker.sending = <<>> /\ (Gone \/ wire["toWorker"] = <<>>)
    BY DEF Settled
  <2>2. ~WorkerTakesPath
    BY <2>1, PathComes, PathFrames DEF WorkerTakesPath, Resting
  <2>3. WorkerDies
    BY <2>1, <2>2
       DEF WorkerMoves, WorkerListens, WorkerConnects, WorkerFetches, WorkerFinishes, WorkerRequests,
           WorkerGoesOn, WorkerRegisters, WorkerRegistered, WorkerHears, WorkerHearsNothing, WorkerSends,
           Resting, Gone
  <2>4. wire' = wire /\ worker'.at = "gone" /\ worker'.sending = <<>> /\ UNCHANGED unmet
    BY <1>0, <2>1, <2>3 DEF WorkerDies, history
  <2> QED BY <1>1, <2>4 DEF Settled, Unheeded, Gone
<1>5. CASE wire'["toHandler"] = wire["toHandler"]
  <2>1. (Finished' <=> Finished) /\ (Blamed' <=> Blamed)
    BY <1>3, <1>5 DEF Finished, Blamed
  <2> QED BY <1>1, <1>4, <2>1 DEF Outcomes
<1>6. CASE wire'["toHandler"] # wire["toHandler"]
  <2>1. PICK frame, g \in Seq(Fields) :
          /\ worker.sending # <<>> /\ worker.sending[1] = "toHandler" /\ frame = worker.sending[2]
          /\ frame \in ReportFrames \union {protocol_send_worker_register_master}
          /\ Begins(g, frame) /\ wire'["toHandler"] = wire["toHandler"] \o g
          /\ WorkerDies \/ (WorkerSends /\ g = frame)
          /\ WorkerDies => Len(g) < Len(frame)
    <3>1. worker.sending # <<>>
      BY <1>6, WorkerAdds
    <3>2. PICK frame \in Seq(Fields) : frame = worker.sending[2]
      BY <3>1, SendingKnown
    <3> QED BY <1>6, <3>2, WorkerAdds
  <2>2. PICK s \in Seq(Fields) : s = wire["toHandler"]
    BY <1>0
  <2>3. PICK n \in Nat, m \in Nat : n = Len(s) /\ m = Len(g)
    BY LenProperties
  <2>4. Len(s \o g) = n + m
    BY <2>3, Joined
  <2>5. ~Gone /\ ~Settled
    <3>1. worker.at \in {"handshake", "wait", "register", "fetch", "idle"}
      BY <2>1, SendingKnown
    <3> QED BY <2>1, <3>1 DEF Settled, Gone
  <2>6. ~Finished
    BY <2>5 DEF Outcomes
  <2>7. handler = "new" => s = <<>>
    BY <2>1, <2>2 DEF HandlerStream
  <2>8. \A i \in 1 .. n : s[i] # "QUERY_FINISHED"
    <3> SUFFICES ASSUME NEW i \in 1 .. n, s[i] = "QUERY_FINISHED" PROVE FALSE
      OBVIOUS
    <3>1. handler # "new"
      BY <2>3, <2>7, Emptied
    <3>2. Complete(s, HandlerReads)
      BY <2>2, <2>5, <3>1 DEF HandlerStream
    <3>3. i + 1 <= n
      BY <2>3, <3>2, ReportFacts DEF Complete, ReportCodes
    <3>4. i \in 1 .. n - 1
      BY <3>3
    <3> QED BY <2>2, <2>3, <2>6, <3>4 DEF Finished
  <2>9. ASSUME Finished' PROVE Settled'
    <3>1. PICK i \in 1 .. (n + m) - 1 : (s \o g)[i] = "QUERY_FINISHED"
      BY <1>3, <2>1, <2>2, <2>4, <2>6, <2>9 DEF Finished
    <3>2. i \in 1 .. Len(s \o g)
      BY <2>4
    <3>3. frame = protocol_send_worker_query_finished /\ i = n + 1
      <4>1. /\ i \in 1 .. Len(s) => (s \o g)[i] = s[i]
            /\ i \in 1 .. Len(s) \/ (frame = protocol_send_worker_query_finished /\ i = Len(s) + 1)
        BY <2>1, <3>1, <3>2, ReportAppears
      <4> QED BY <2>3, <2>8, <3>1, <4>1
    <3>4. m >= 2
      BY <3>1, <3>3
    <3>5. Len(frame) = 2
      BY <3>3 DEF protocol_send_worker_query_finished
    <3>6. WorkerSends /\ ~WorkerDies /\ g = frame
      BY <2>1, <2>3, <3>4, <3>5
    <3>7. handler # "new" 
      <4>1. worker.at = "idle"
        BY <2>1, <3>3, EndSent
      <4> QED BY <4>1 DEF HandlerStream
    <3>8. worker.at = "idle" /\ ~worker.failed
      BY <2>1, <3>3, <3>7, ReportSent
    <3>9. /\ worker'.at = worker.at /\ worker'.sending = <<>> /\ unmet' = unmet
      BY <1>0, <3>6 DEF WorkerSends, history
    <3>10. unmet = Unheeded /\ cut = {}
      BY <2>5, <3>8 DEF Heeded, RefusalPending, Outcomes
    <3>11. HandlerStream'
      BY WorkerKeepsHandlerStream
    <3>12. Complete(wire'["toHandler"], HandlerReads)
      BY <1>1, <2>5, <3>7, <3>9, <3>11 DEF HandlerStream, Gone
    <3>13. wire["toWorker"] = <<>> /\ session \notin {"none", "listed"}
      BY <2>1, <2>5, <3>8, PathFrames DEF WorkerStream, ToBeGiven, PathPending
    <3>14. wire'["toWorker"] = <<>> /\ wire'["toStorage"] = <<>>
      <4>1. wire' = Sent("toHandler", worker.sending[2])
        BY <2>1, <3>6 DEF WorkerSends
      <4>2. wire["toStorage"] = <<>>
        BY <3>8 DEF StorageStream, Elsewhere, Quiet
      <4> QED BY <1>0, <3>13, <4>1, <4>2 DEF Sent, Streams
    <3> QED BY <1>1, <3>7, <3>8, <3>9, <3>10, <3>12, <3>13, <3>14 DEF Settled, Unheeded
  <2>10. ASSUME Blamed' PROVE unmet' # {} \/ Gone'
    <3>1. CASE Blamed
      BY <1>1, <3>1 DEF Outcomes
    <3>2. CASE ~Blamed
      <4>1. PICK i \in 1 .. n + m : (s \o g)[i] = "QUERY_ERROR"
        BY <1>3, <2>1, <2>2, <2>4, <2>10, <3>2 DEF Blamed
      <4>2. i \in 1 .. Len(s \o g)
        BY <2>4
      <4>3. /\ i \in 1 .. Len(s) => (s \o g)[i] = s[i]
            /\ i \in 1 .. Len(s) \/ frame = protocol_send_worker_query_error
        BY <2>1, <4>1, <4>2, ReportAppears
      <4>4. frame = protocol_send_worker_query_error
        BY <2>2, <2>3, <3>2, <4>1, <4>3 DEF Blamed
      <4>5. CASE WorkerDies
        BY <1>0, <4>5 DEF WorkerDies, Gone
      <4>6. CASE ~WorkerDies
        <5>1. worker.failed
          BY <2>1, <4>4, EndSent
        <5> QED BY <1>1, <5>1 DEF Heeded
      <4> QED BY <4>5, <4>6
    <3> QED BY <3>1, <3>2
  <2> QED BY <1>1, <2>9, <2>10 DEF Outcomes
<1> QED BY <1>5, <1>6

-----------------------------------------------------------------------------
(***************************************************************************)
(* The stream to Query Control                                             *)
(***************************************************************************)
LEMMA ClientFacts ==
  \A x \in Opcodes : /\ ClientReads[x] \in Seq(Fields) /\ Len(ClientReads[x]) \in Nat
                     /\ ClientReads[x] # <<>>
<1>1. /\ ClientReads["CONFIRM"] = protocol_recv_query_confirm
      /\ ClientReads["READ_MESSAGE"] = protocol_recv_query_read_message
      /\ ClientReads["RESULT"] = protocol_recv_query_result
  BY DEF ClientReads
<1>2. /\ protocol_recv_query_confirm \in Seq(Fields) /\ protocol_recv_query_confirm # <<>>
      /\ protocol_recv_query_read_message \in Seq(Fields) /\ protocol_recv_query_read_message # <<>>
      /\ protocol_recv_query_result \in Seq(Fields) /\ protocol_recv_query_result # <<>>
  BY Tuples DEF protocol_recv_query_confirm, protocol_recv_query_read_message,
                protocol_recv_query_result, Fields
<1> QED BY <1>1, <1>2, LenProperties DEF Opcodes

LEMMA FramesWhole ==
  /\ Whole(protocol_send_query_confirm) /\ Whole(protocol_send_query_read_message)
  /\ \A r \in Results : Whole(protocol_send_query_result(r))
<1>1. /\ ClientReads["CONFIRM"] = <<"id">>
      /\ ClientReads["READ_MESSAGE"] = <<"id", "len", "text">>
      /\ ClientReads["RESULT"] = <<"id", "len", "text">>
  BY DEF ClientReads, protocol_recv_query_confirm, protocol_recv_query_read_message,
         protocol_recv_query_result
<1>2. ASSUME NEW g, NEW f, Len(f) \in {1, 3}, Len(g) = 1 + Len(f),
             g[1] \in Opcodes, ClientReads[g[1]] = f,
             Kind(g[2]) = f[1], g[2] \notin Opcodes,
             Len(f) = 3 => /\ Kind(g[3]) = f[2] /\ g[3] \notin Opcodes
                           /\ Kind(g[4]) = f[3] /\ g[4] \notin Opcodes
      PROVE  Whole(g)
  <2>1. \A i \in 1 .. Len(f) : Kind(g[1 + i]) = f[i]
    BY <1>2
  <2>2. \A i \in 2 .. Len(g) : g[i] \notin Opcodes
    <3>1. CASE Len(f) = 1
      <4>1. \A i \in 2 .. Len(g) : i = 2
        BY <1>2, <3>1
      <4> QED BY <1>2, <4>1
    <3>2. CASE Len(f) = 3
      <4>1. \A i \in 2 .. Len(g) : i = 2 \/ i = 3 \/ i = 4
        BY <1>2, <3>2
      <4> QED BY <1>2, <3>2, <4>1
    <3> QED BY <1>2, <3>1, <3>2
  <2> QED BY <1>2, <2>1, <2>2 DEF Whole
<1>3. /\ Kind("id") = "id" /\ Kind("len") = "len" /\ Kind("text") = "text"
      /\ \A r \in Results : Kind(r) = "text" /\ r \notin Opcodes
      /\ {"CONFIRM", "READ_MESSAGE", "RESULT"} = Opcodes
      /\ "id" \notin Opcodes /\ "len" \notin Opcodes /\ "text" \notin Opcodes
  BY DEF Kind, Results, Opcodes
<1>4. Whole(protocol_send_query_confirm)
  <2> DEFINE g == <<"CONFIRM", "id">>  f == <<"id">>
  <2>1. Len(f) = 1 /\ f[1] = "id" /\ Len(g) = 2 /\ g[1] = "CONFIRM" /\ g[2] = "id"
    OBVIOUS
  <2> HIDE DEF g, f
  <2>2. ClientReads[g[1]] = f
    BY <1>1, <2>1 DEF f
  <2>3. /\ Len(f) \in {1, 3} /\ Len(g) = 1 + Len(f) /\ g[1] \in Opcodes
        /\ Kind(g[2]) = f[1] /\ g[2] \notin Opcodes
        /\ Len(f) # 3
    BY <1>3, <2>1
  <2>4. Whole(g)
    BY <1>2, <2>2, <2>3
  <2> QED BY <2>4 DEF g, protocol_send_query_confirm
<1>5. Whole(protocol_send_query_read_message)
  <2> DEFINE g == <<"READ_MESSAGE", "id", "len", "text">>  f == <<"id", "len", "text">>
  <2>1. /\ Len(f) = 3 /\ f[1] = "id" /\ f[2] = "len" /\ f[3] = "text"
        /\ Len(g) = 4 /\ g[1] = "READ_MESSAGE" /\ g[2] = "id" /\ g[3] = "len" /\ g[4] = "text"
    OBVIOUS
  <2>4. g = protocol_send_query_read_message
    BY SequencesJoin DEF protocol_send_query_read_message, Str
  <2> HIDE DEF g, f
  <2>2. ClientReads[g[1]] = f
    BY <1>1, <2>1 DEF f
  <2>3. /\ Len(f) \in {1, 3} /\ Len(g) = 1 + Len(f) /\ g[1] \in Opcodes
        /\ Kind(g[2]) = f[1] /\ g[2] \notin Opcodes
        /\ Kind(g[3]) = f[2] /\ g[3] \notin Opcodes
        /\ Kind(g[4]) = f[3] /\ g[4] \notin Opcodes
    BY <1>3, <2>1
  <2>5. Whole(g)
    BY <1>2, <2>2, <2>3
  <2> QED BY <2>4, <2>5
<1>6. ASSUME NEW r \in Results PROVE Whole(protocol_send_query_result(r))
  <2> DEFINE g == <<"RESULT", "id", "len", r>>  f == <<"id", "len", "text">>
  <2>1. /\ Len(f) = 3 /\ f[1] = "id" /\ f[2] = "len" /\ f[3] = "text"
        /\ Len(g) = 4 /\ g[1] = "RESULT" /\ g[2] = "id" /\ g[3] = "len" /\ g[4] = r
    OBVIOUS
  <2> HIDE DEF g, f
  <2>2. ClientReads[g[1]] = f
    BY <1>1, <2>1 DEF f
  <2>3. /\ Len(f) \in {1, 3} /\ Len(g) = 1 + Len(f) /\ g[1] \in Opcodes
        /\ Kind(g[2]) = f[1] /\ g[2] \notin Opcodes
        /\ Kind(g[3]) = f[2] /\ g[3] \notin Opcodes
        /\ Kind(g[4]) = f[3] /\ g[4] \notin Opcodes
    BY <1>3, <2>1
  <2>5. Whole(g)
    BY <1>2, <2>2, <2>3
  <2> QED BY <2>5 DEF g, protocol_send_query_result
<1> QED BY <1>4, <1>5, <1>6

\* What Unbroken says of the frame that begins at a place.
LEMMA FrameAt ==
  ASSUME NEW s \in Seq(Fields), Unbroken(s), NEW i \in 1 .. Len(s), NEW x, s[i] = x, x \in Opcodes,
         NEW n, n = Len(ClientReads[x])
  PROVE  /\ i + n <= Len(s)
         /\ \A j \in 1 .. n : Kind(s[i + j]) = ClientReads[x][j] /\ s[i + j] \notin Opcodes
         /\ i + n < Len(s) => s[i + n + 1] \in Opcodes
BY DEF Unbroken

LEMMA UnbrokenTail ==
  ASSUME NEW s \in Seq(Fields), s # <<>>, Unbroken(s)
  PROVE  Unbroken(Tail(s))
<1>1. PICK k \in Nat : k = Len(s) /\ k > 0
  BY Rest
<1>2. PICK t \in Seq(Fields) : t = Tail(s) /\ Len(t) = k - 1 /\ \A j \in 1 .. k - 1 : t[j] = s[j + 1]
  <2>1. /\ Tail(s) \in Seq(Fields) /\ Len(Tail(s)) = Len(s) - 1
        /\ \A j \in 1 .. Len(s) - 1 : Tail(s)[j] = s[j + 1]
    BY Rest
  <2> QED BY <1>1, <2>1
<1>3. ASSUME NEW i \in 1 .. k - 1, t[i] \in Opcodes
      PROVE  LET f == ClientReads[t[i]] IN
             /\ i + Len(f) <= k - 1
             /\ \A j \in 1 .. Len(f) : Kind(t[i + j]) = f[j] /\ t[i + j] \notin Opcodes
             /\ i + Len(f) < k - 1 => t[i + Len(f) + 1] \in Opcodes
  <2>1. PICK p \in 1 .. k : p = i + 1 /\ s[p] = t[i]
    BY <1>1, <1>2
  <2>2. PICK n \in Nat : n = Len(ClientReads[t[i]])
    BY <1>3, ClientFacts
  <2>3. /\ p + n <= k
        /\ \A j \in 1 .. n : Kind(s[p + j]) = ClientReads[t[i]][j] /\ s[p + j] \notin Opcodes
        /\ p + n < k => s[p + n + 1] \in Opcodes
    <3>1. p \in 1 .. Len(s)
      BY <1>1
    <3>2. /\ p + n <= Len(s)
          /\ \A j \in 1 .. n : Kind(s[p + j]) = ClientReads[t[i]][j] /\ s[p + j] \notin Opcodes
          /\ p + n < Len(s) => s[p + n + 1] \in Opcodes
      <4>1. t[i] \in Opcodes /\ s[p] = t[i] /\ n = Len(ClientReads[t[i]])
        BY <1>3, <2>1, <2>2
      <4> QED BY <3>1, <4>1, FrameAt
    <3> QED BY <1>1, <3>2
  <2>4. \A j \in 1 .. n : t[i + j] = s[p + j]
    <3> TAKE j \in 1 .. n
    <3>1. i + j \in 1 .. k - 1 /\ (i + j) + 1 = p + j
      BY <2>1, <2>3
    <3> QED BY <1>2, <3>1
  <2>5. i + n < k - 1 => t[i + n + 1] = s[p + n + 1] /\ p + n < k
    <3> SUFFICES ASSUME i + n < k - 1 PROVE t[i + n + 1] = s[p + n + 1] /\ p + n < k
      OBVIOUS
    <3>1. i + n + 1 \in 1 .. k - 1 /\ (i + n + 1) + 1 = p + n + 1 /\ p + n < k
      BY <2>1
    <3> QED BY <1>2, <3>1
  <2>6. i + n <= k - 1
    BY <2>1, <2>3
  <2> QED BY <2>2, <2>3, <2>4, <2>5, <2>6
<1> QED BY <1>2, <1>3 DEF Unbroken

\* The reader takes an operation code, then each of the fields that it expects.
LEMMA CodeTaken ==
  ASSUME NEW s \in Seq(Fields), s # <<>>, Follows(s, <<>>)
  PROVE  s[1] \in Opcodes /\ Follows(Tail(s), ClientReads[s[1]])
<1>1. PICK k \in Nat : k = Len(s) /\ k > 0
  BY Rest
<1>2. PICK t \in Seq(Fields) : t = Tail(s) /\ Len(t) = k - 1 /\ \A j \in 1 .. k - 1 : t[j] = s[j + 1]
  <2>1. /\ Tail(s) \in Seq(Fields) /\ Len(Tail(s)) = Len(s) - 1
        /\ \A j \in 1 .. Len(s) - 1 : Tail(s)[j] = s[j + 1]
    BY Rest
  <2> QED BY <1>1, <2>1
<1>3. s[1] \in Opcodes
  <2>1. Len(<<>>) = 0
    OBVIOUS
  <2> QED BY <1>1, <2>1 DEF Follows
<1>4. PICK f \in Seq(Fields), n \in Nat : f = ClientReads[s[1]] /\ n = Len(f)
  BY <1>3, ClientFacts
<1>5. 1 \in 1 .. k
  BY <1>1
<1>6. /\ 1 + n <= k
      /\ \A j \in 1 .. n : Kind(s[1 + j]) = f[j] /\ s[1 + j] \notin Opcodes
      /\ 1 + n < k => s[1 + n + 1] \in Opcodes
  BY <1>1, <1>3, <1>4, <1>5 DEF Follows, Unbroken
<1>7. /\ n <= k - 1
      /\ \A j \in 1 .. n : t[j] = s[1 + j]
      /\ n < k - 1 => t[n + 1] = s[1 + n + 1] /\ 1 + n < k
  <2>1. \A j \in 1 .. n : j \in 1 .. k - 1 /\ j + 1 = 1 + j
    BY <1>6
  <2>2. n < k - 1 => n + 1 \in 1 .. k - 1 /\ (n + 1) + 1 = 1 + n + 1 /\ 1 + n < k
    BY <1>1
  <2> QED BY <1>2, <1>6, <2>1, <2>2
<1>8. Unbroken(t)
  BY <1>2, UnbrokenTail DEF Follows
<1>9. Follows(t, f)
  BY <1>2, <1>4, <1>6, <1>7, <1>8 DEF Follows
<1> QED BY <1>2, <1>3, <1>4, <1>9

LEMMA FieldTaken ==
  ASSUME NEW s \in Seq(Fields), s # <<>>, NEW need \in Seq(Fields), need # <<>>, Follows(s, need)
  PROVE  /\ Kind(s[1]) = need[1] /\ s[1] \notin Opcodes
         /\ Follows(Tail(s), Tail(need))
<1>1. PICK k \in Nat, n \in Nat : k = Len(s) /\ k > 0 /\ n = Len(need) /\ n > 0
  BY Rest
<1>2. PICK t \in Seq(Fields) : t = Tail(s) /\ Len(t) = k - 1 /\ \A j \in 1 .. k - 1 : t[j] = s[j + 1]
  <2>1. /\ Tail(s) \in Seq(Fields) /\ Len(Tail(s)) = Len(s) - 1
        /\ \A j \in 1 .. Len(s) - 1 : Tail(s)[j] = s[j + 1]
    BY Rest
  <2> QED BY <1>1, <2>1
<1>3. PICK g \in Seq(Fields) :
        g = Tail(need) /\ Len(g) = n - 1 /\ \A j \in 1 .. n - 1 : g[j] = need[j + 1]
  <2>1. /\ Tail(need) \in Seq(Fields) /\ Len(Tail(need)) = Len(need) - 1
        /\ \A j \in 1 .. Len(need) - 1 : Tail(need)[j] = need[j + 1]
    BY Rest
  <2> QED BY <1>1, <2>1
<1>4. /\ n <= k /\ Unbroken(s)
      /\ \A j \in 1 .. n : Kind(s[j]) = need[j] /\ s[j] \notin Opcodes
      /\ n < k => s[n + 1] \in Opcodes
  BY <1>1 DEF Follows
<1>5. Kind(s[1]) = need[1] /\ s[1] \notin Opcodes
  <2>1. 1 \in 1 .. n
    BY <1>1
  <2> QED BY <1>4, <2>1
<1>6. \A j \in 1 .. n - 1 : Kind(t[j]) = g[j] /\ t[j] \notin Opcodes
  <2> TAKE j \in 1 .. n - 1
  <2>1. j + 1 \in 1 .. n /\ j \in 1 .. k - 1
    BY <1>1, <1>4
  <2> QED BY <1>2, <1>3, <1>4, <2>1
<1>7. n - 1 < k - 1 => t[(n - 1) + 1] \in Opcodes
  <2> SUFFICES ASSUME n - 1 < k - 1 PROVE t[(n - 1) + 1] \in Opcodes
    OBVIOUS
  <2>1. n < k /\ (n - 1) + 1 = n /\ n \in 1 .. k - 1
    BY <1>1
  <2>2. t[n] = s[n + 1]
    BY <1>2, <2>1
  <2> QED BY <1>4, <2>1, <2>2
<1>8. Unbroken(t) /\ n - 1 <= k - 1
  BY <1>1, <1>2, <1>4, UnbrokenTail
<1>9. Follows(t, g)
  BY <1>2, <1>3, <1>6, <1>7, <1>8 DEF Follows
<1> QED BY <1>2, <1>3, <1>5, <1>9

\* A whole frame is written after whole frames.
LEMMA FrameFollows ==
  ASSUME NEW s \in Seq(Fields), NEW need \in Seq(Fields), NEW g \in Seq(Fields),
         Follows(s, need), Whole(g)
  PROVE  Follows(s \o g, need)
<1>1. PICK k \in Nat, n \in Nat, m \in Nat : k = Len(s) /\ n = Len(need) /\ m = Len(g)
  BY LenProperties
<1>2. PICK w \in Seq(Fields) :
        /\ w = s \o g /\ Len(w) = k + m
        /\ \A i \in 1 .. k : w[i] = s[i]
        /\ \A i \in 1 .. m : w[k + i] = g[i]
  <2>1. /\ s \o g \in Seq(Fields) /\ Len(s \o g) = Len(s) + Len(g)
        /\ \A i \in 1 .. Len(s) : (s \o g)[i] = s[i]
        /\ \A i \in 1 .. Len(g) : (s \o g)[Len(s) + i] = g[i]
    BY Joined
  <2> QED BY <1>1, <2>1
<1>3. PICK f \in Seq(Fields) : f = ClientReads[g[1]] /\ m = 1 + Len(f) /\ Len(f) \in Nat
  BY <1>1, ClientFacts DEF Whole
<1>4. /\ g[1] \in Opcodes
      /\ \A i \in 1 .. Len(f) : Kind(g[1 + i]) = f[i]
      /\ \A i \in 2 .. m : g[i] \notin Opcodes
  BY <1>1, <1>3 DEF Whole
<1>5. /\ n <= k /\ Unbroken(s)
      /\ \A j \in 1 .. n : Kind(s[j]) = need[j] /\ s[j] \notin Opcodes
      /\ n < k => s[n + 1] \in Opcodes
  BY <1>1 DEF Follows
<1>6. w[k + 1] \in Opcodes
  <2>1. 1 \in 1 .. m
    BY <1>3
  <2> QED BY <1>2, <1>4, <2>1
<1>7. \A j \in 1 .. n : Kind(w[j]) = need[j] /\ w[j] \notin Opcodes
  <2> TAKE j \in 1 .. n
  <2>1. j \in 1 .. k
    BY <1>5
  <2> QED BY <1>2, <1>5, <2>1
<1>8. n <= k + m /\ w[n + 1] \in Opcodes
  <2>1. CASE n = k
    BY <1>6, <2>1
  <2>2. CASE n < k
    <3>1. n + 1 \in 1 .. k
      BY <2>2
    <3> QED BY <1>2, <1>5, <2>2, <3>1
  <2> QED BY <1>5, <2>1, <2>2
<1>9. ASSUME NEW i \in 1 .. Len(w), w[i] \in Opcodes
      PROVE  LET h == ClientReads[w[i]] IN
             /\ i + Len(h) <= Len(w)
             /\ \A j \in 1 .. Len(h) : Kind(w[i + j]) = h[j] /\ w[i + j] \notin Opcodes
             /\ i + Len(h) < Len(w) => w[i + Len(h) + 1] \in Opcodes
  <2>0. Len(w) = k + m /\ i \in 1 .. k + m
    BY <1>2
  <2>1. CASE i \in 1 .. k
    <3>1. PICK l \in Nat : l = Len(ClientReads[w[i]]) /\ w[i] = s[i]
      BY <1>2, <1>9, <2>1, ClientFacts
    <3>2. /\ i + l <= k
          /\ \A j \in 1 .. l : Kind(s[i + j]) = ClientReads[w[i]][j] /\ s[i + j] \notin Opcodes
          /\ i + l < k => s[i + l + 1] \in Opcodes
      <4>1. i \in 1 .. Len(s)
        BY <1>1, <2>1
      <4> QED BY <1>1, <1>5, <1>9, <3>1, <4>1, FrameAt
    <3>3. \A j \in 1 .. l : w[i + j] = s[i + j]
      <4> TAKE j \in 1 .. l
      <4>1. i + j \in 1 .. k
        BY <2>1, <3>2
      <4> QED BY <1>2, <4>1
    <3>4. w[i + l + 1] \in Opcodes
      <4>1. CASE i + l = k
        BY <1>6, <4>1
      <4>2. CASE i + l < k
        <5>1. i + l + 1 \in 1 .. k
          BY <2>1, <4>2
        <5>2. w[i + l + 1] = s[i + l + 1]
          BY <1>2, <5>1
        <5>3. s[i + l + 1] \in Opcodes
          BY <3>2, <4>2
        <5> QED BY <5>2, <5>3
      <4> QED BY <3>2, <4>1, <4>2
    <3>5. i + l <= k + m
      BY <3>2
    <3> QED BY <2>0, <3>1, <3>2, <3>3, <3>4, <3>5
  <2>2. CASE i \notin 1 .. k
    <3>1. PICK p \in 1 .. m : i = k + p
      <4>1. i - k \in 1 .. m /\ i = k + (i - k)
        BY <2>0, <2>2
      <4> QED BY <4>1
    <3>2. w[i] = g[p]
      BY <1>2, <3>1
    <3>3. p = 1
      <4>1. p \notin 2 .. m
        BY <1>4, <1>9, <3>2
      <4> QED BY <4>1
    <3>4. PICK l \in Nat : l = Len(f) /\ ClientReads[w[i]] = f
      BY <1>3, <3>2, <3>3
    <3>5. \A j \in 1 .. l : Kind(w[i + j]) = f[j] /\ w[i + j] \notin Opcodes
      <4> TAKE j \in 1 .. l
      <4>1. 1 + j \in 1 .. m /\ 1 + j \in 2 .. m /\ i + j = k + (1 + j)
        BY <1>3, <3>1, <3>3, <3>4
      <4>2. w[i + j] = g[1 + j]
        BY <1>2, <4>1
      <4> QED BY <1>4, <3>4, <4>1, <4>2
    <3>6. i + l = k + m
      <4>1. m = 1 + l /\ i = k + 1
        BY <1>3, <3>1, <3>3, <3>4
      <4> QED BY <4>1
    <3> QED BY <2>0, <3>4, <3>5, <3>6
  <2> QED BY <2>1, <2>2
<1>10. Unbroken(w)
  BY <1>9 DEF Unbroken
<1> QED BY <1>1, <1>2, <1>7, <1>8, <1>10 DEF Follows

LEMMA TailJoined ==
  ASSUME NEW s \in Seq(Fields), s # <<>>, NEW v \in Seq(Fields)
  PROVE  /\ Tail(s \o v) = Tail(s) \o v /\ (s \o v)[1] = s[1] /\ s \o v # <<>>
         /\ s \o v \in Seq(Fields)
<1>1. PICK k \in Nat, m \in Nat : k = Len(s) /\ k > 0 /\ m = Len(v)
  BY Rest, LenProperties
<1>2. PICK w \in Seq(Fields) :
        /\ w = s \o v /\ Len(w) = k + m
        /\ \A i \in 1 .. k : w[i] = s[i]
        /\ \A i \in 1 .. m : w[k + i] = v[i]
  <2>1. /\ s \o v \in Seq(Fields) /\ Len(s \o v) = Len(s) + Len(v)
        /\ \A i \in 1 .. Len(s) : (s \o v)[i] = s[i]
        /\ \A i \in 1 .. Len(v) : (s \o v)[Len(s) + i] = v[i]
    BY Joined
  <2> QED BY <1>1, <2>1
<1>3. PICK r \in Seq(Fields) : r = Tail(s) /\ Len(r) = k - 1 /\ \A j \in 1 .. k - 1 : r[j] = s[j + 1]
  <2>1. /\ Tail(s) \in Seq(Fields) /\ Len(Tail(s)) = Len(s) - 1
        /\ \A j \in 1 .. Len(s) - 1 : Tail(s)[j] = s[j + 1]
    BY Rest
  <2> QED BY <1>1, <2>1
<1>4. w # <<>>
  BY <1>1, <1>2, Emptied
<1>5. PICK t \in Seq(Fields) :
        t = Tail(w) /\ Len(t) = k + m - 1 /\ \A j \in 1 .. k + m - 1 : t[j] = w[j + 1]
  <2>1. /\ Tail(w) \in Seq(Fields) /\ Len(Tail(w)) = Len(w) - 1
        /\ \A j \in 1 .. Len(w) - 1 : Tail(w)[j] = w[j + 1]
    BY <1>4, Rest
  <2>2. Len(w) - 1 = k + m - 1
    BY <1>2
  <2> QED BY <2>1, <2>2
<1>6. PICK u \in Seq(Fields) :
        /\ u = r \o v /\ Len(u) = k - 1 + m
        /\ \A i \in 1 .. k - 1 : u[i] = r[i]
        /\ \A i \in 1 .. m : u[k - 1 + i] = v[i]
  <2>1. /\ r \o v \in Seq(Fields) /\ Len(r \o v) = Len(r) + Len(v)
        /\ \A i \in 1 .. Len(r) : (r \o v)[i] = r[i]
        /\ \A i \in 1 .. Len(v) : (r \o v)[Len(r) + i] = v[i]
    BY Joined
  <2>2. Len(r) = k - 1 /\ Len(v) = m
    BY <1>1, <1>3
  <2> QED BY <2>1, <2>2
<1>7. \A i \in 1 .. k + m - 1 : t[i] = u[i]
  <2> TAKE i \in 1 .. k + m - 1
  <2>1. CASE i \in 1 .. k - 1
    <3>1. i + 1 \in 1 .. k
      BY <2>1
    <3> QED BY <1>2, <1>3, <1>5, <1>6, <2>1, <3>1
  <2>2. CASE i \notin 1 .. k - 1
    <3>1. PICK p \in 1 .. m : i = k - 1 + p
      <4>1. i - (k - 1) \in 1 .. m /\ i = k - 1 + (i - (k - 1))
        BY <1>1, <2>2
      <4> QED BY <4>1
    <3>2. i + 1 = k + p
      BY <1>1, <3>1
    <3>3. t[i] = w[k + p]
      BY <1>5, <3>2
    <3> QED BY <1>2, <1>6, <3>1, <3>3
  <2> QED BY <2>1, <2>2
<1>8. Len(t) = Len(u) /\ \A i \in 1 .. Len(t) : t[i] = u[i]
  BY <1>1, <1>5, <1>6, <1>7
<1>9. t = u
  BY <1>8, SeqEqual
<1>10. w[1] = s[1]
  <2>1. 1 \in 1 .. k
    BY <1>1
  <2> QED BY <1>2, <2>1
<1> QED BY <1>2, <1>3, <1>4, <1>5, <1>6, <1>9, <1>10

LEMMA Associated ==
  \A a, b, c \in Seq(Fields) : (a \o b) \o c = a \o (b \o c)
<1> TAKE a, b, c \in Seq(Fields)
<1> QED BY ConcatAssociative

LEMMA HeadMoved ==
  ASSUME NEW s \in Seq(Fields), NEW v \in Seq(Fields), v # <<>>
  PROVE  (s \o <<Head(v)>>) \o Tail(v) = s \o v
<1>1. /\ Head(v) \in Fields /\ Tail(v) \in Seq(Fields) /\ Len(Tail(v)) = Len(v) - 1
      /\ Head(v) = v[1] /\ \A j \in 1 .. Len(v) - 1 : Tail(v)[j] = v[j + 1]
  BY Rest
<1>2. PICK h \in Seq(Fields) : h = <<Head(v)>> /\ Len(h) = 1 /\ h[1] = v[1]
  <2>1. <<Head(v)>> \in Seq(Fields)
    BY <1>1, Tuples
  <2>2. Len(<<Head(v)>>) = 1 /\ <<Head(v)>>[1] = Head(v)
    OBVIOUS
  <2> QED BY <1>1, <2>1, <2>2
<1>3. PICK k \in Nat : k = Len(v) /\ k > 0
  BY Rest
<1>4. PICK r \in Seq(Fields) : r = Tail(v) /\ Len(r) = k - 1 /\ \A j \in 1 .. k - 1 : r[j] = v[j + 1]
  BY <1>1, <1>3
<1>5. PICK u \in Seq(Fields) :
        /\ u = h \o r /\ Len(u) = 1 + (k - 1) /\ u[1] = h[1]
        /\ \A i \in 1 .. k - 1 : u[1 + i] = r[i]
  <2>1. /\ h \o r \in Seq(Fields) /\ Len(h \o r) = Len(h) + Len(r)
        /\ \A i \in 1 .. Len(h) : (h \o r)[i] = h[i]
        /\ \A i \in 1 .. Len(r) : (h \o r)[Len(h) + i] = r[i]
    BY Joined
  <2>2. 1 \in 1 .. Len(h)
    BY <1>2
  <2> QED BY <1>2, <1>4, <2>1, <2>2
<1>6. \A i \in 1 .. k : u[i] = v[i]
  <2> TAKE i \in 1 .. k
  <2>1. CASE i = 1
    BY <1>2, <1>5, <2>1
  <2>2. CASE i # 1
    <3>1. PICK p \in 1 .. k - 1 : i = 1 + p /\ i = p + 1
      <4>1. i - 1 \in 1 .. k - 1 /\ i = 1 + (i - 1) /\ i = (i - 1) + 1
        BY <2>2
      <4> QED BY <4>1
    <3> QED BY <1>4, <1>5, <3>1
  <2> QED BY <2>1, <2>2
<1>7. u = v
  <2>1. Len(u) = Len(v) /\ \A i \in 1 .. Len(u) : u[i] = v[i]
    BY <1>3, <1>5, <1>6
  <2> QED BY <2>1, SeqEqual
<1>8. (s \o h) \o r = s \o u
  <2>1. h \in Seq(Fields) /\ r \in Seq(Fields)
    BY <1>2, <1>4
  <2>2. (s \o h) \o r = s \o (h \o r)
    BY <2>1, Associated
  <2> QED BY <1>5, <2>2
<1> QED BY <1>2, <1>4, <1>7, <1>8

\* The frames that the threads of the Master begin to write.
LEMMA FramesPut ==
  /\ protocol_send_query_confirm \in Seq(Fields) /\ protocol_send_query_confirm # <<>>
  /\ protocol_send_query_confirm[1] = "CONFIRM"
  /\ \A op \in ReportCodes :
       /\ Verdict[op] \in Seq(Fields) /\ Whole(Verdict[op])
       /\ \A i \in 1 .. Len(Verdict[op]) : Verdict[op][i] # "CONFIRM"
  /\ protocol_send_query_result("ERROR") \in Seq(Fields)
  /\ Whole(protocol_send_query_result("ERROR"))
  /\ \A i \in 1 .. Len(protocol_send_query_result("ERROR")) :
       protocol_send_query_result("ERROR")[i] # "CONFIRM"
<1>1. /\ Verdict["READ_RESULT"] = protocol_send_query_read_message
      /\ Verdict["QUERY_FINISHED"] = protocol_send_query_result("SUCCESS")
      /\ Verdict["QUERY_ERROR"] = protocol_send_query_result("ERROR")
  BY DEF Verdict
<1>2. /\ protocol_send_query_read_message \in Seq(Fields)
      /\ protocol_send_query_result("SUCCESS") \in Seq(Fields)
      /\ protocol_send_query_result("ERROR") \in Seq(Fields)
      /\ protocol_send_query_confirm \in Seq(Fields)
  BY FramesTyped
<1>3. /\ Whole(protocol_send_query_read_message)
      /\ Whole(protocol_send_query_result("SUCCESS")) /\ Whole(protocol_send_query_result("ERROR"))
  BY FramesWhole DEF Results
<1>4. ASSUME NEW v \in Seq(Fields), Whole(v), v[1] # "CONFIRM"
      PROVE  \A i \in 1 .. Len(v) : v[i] # "CONFIRM"
  <2> TAKE i \in 1 .. Len(v)
  <2>1. i = 1 \/ i \in 2 .. Len(v)
    BY LenProperties
  <2> QED BY <1>4, <2>1 DEF Whole, Opcodes
<1>5. /\ protocol_send_query_read_message[1] # "CONFIRM"
      /\ \A r \in Results : protocol_send_query_result(r)[1] # "CONFIRM"
      /\ protocol_send_query_confirm[1] = "CONFIRM" /\ protocol_send_query_confirm # <<>>
  <2>1. protocol_send_query_read_message[1] = "READ_MESSAGE"
    <3>1. <<"READ_MESSAGE", "id", "len", "text">> = protocol_send_query_read_message
      BY SequencesJoin DEF protocol_send_query_read_message, Str
    <3> QED BY <3>1
  <2> QED BY <2>1 DEF protocol_send_query_result, protocol_send_query_confirm
<1> QED BY <1>1, <1>2, <1>3, <1>4, <1>5 DEF ReportCodes, Results

LEMMA TailCodeFree ==
  ASSUME NEW v \in Seq(Fields), v # <<>>,
         Whole(v) \/ \A i \in 1 .. Len(v) : v[i] \notin Opcodes
  PROVE  /\ \A i \in 1 .. Len(Tail(v)) : Tail(v)[i] \notin Opcodes
         /\ \A x : (\A i \in 1 .. Len(v) : v[i] # x) => \A i \in 1 .. Len(Tail(v)) : Tail(v)[i] # x
<1>1. PICK k \in Nat : k = Len(v) /\ k > 0
  BY Rest
<1>2. Len(Tail(v)) = k - 1 /\ \A j \in 1 .. k - 1 : Tail(v)[j] = v[j + 1]
  BY <1>1, Rest
<1>3. \A i \in 2 .. k : v[i] \notin Opcodes
  <2>1. \A i \in 2 .. k : i \in 1 .. k
    OBVIOUS
  <2> QED BY <1>1, <2>1 DEF Whole
<1>4. \A j \in 1 .. k - 1 : j + 1 \in 2 .. k /\ j + 1 \in 1 .. k
  BY <1>1
<1> QED BY <1>1, <1>2, <1>3, <1>4

Piece(t, s) ==
  /\ s # <<>> => Whole(s) \/ \A i \in 1 .. Len(s) : s[i] \notin Opcodes
  /\ t # "admission" => \A i \in 1 .. Len(s) : s[i] # "CONFIRM"
LEMMA OutsPieces ==
  ASSUME PathTypeOK, Outs
  PROVE  /\ \A t \in Threads : Piece(t, out[t]) /\ out[t] \in Seq(Fields)
         /\ \A t \in Threads : out[t] # <<>> => Piece(t, Tail(out[t]))
         /\ \A t \in Threads : Piece(t, <<>>)
<1>1. \A t \in Threads : Piece(t, out[t]) /\ out[t] \in Seq(Fields)
  BY DEF PathTypeOK, MasterType, Outs, Piece, Threads
<1>2. ASSUME NEW t \in Threads, out[t] # <<>> PROVE Piece(t, Tail(out[t]))
  BY <1>1, <1>2, TailCodeFree DEF Piece
<1>3. \A t \in Threads : Piece(t, <<>>)
  BY DEF Piece
<1> QED BY <1>1, <1>2, <1>3

LEMMA MasterKeepsOuts ==
  ASSUME PathTypeOK, Outs, MasterNext PROVE Outs'
<1>0. /\ out \in [Threads -> Seq(Fields)] /\ Threads = {"admission", "handler", "monitor"}
      /\ \A t \in Threads : Piece(t, out[t])
      /\ \A t \in Threads : out[t] # <<>> => Piece(t, Tail(out[t]))
      /\ \A t \in Threads : Piece(t, <<>>)
  BY OutsPieces DEF PathTypeOK, MasterType, Threads
<1>1. Piece("admission", protocol_send_query_confirm)
      /\ Piece("monitor", protocol_send_query_result("ERROR"))
  BY FramesPut, FramesWhole DEF Piece
<1>2. ASSUME \A t \in Threads : Piece(t, out'[t]),
             session' = "none" => \A t \in Threads : out'[t] = <<>>,
             monitor' \in {"watch", "found"} => out'["monitor"] = <<>>,
             session' \in {"none", "listed"} =>
               out'["handler"] = <<>> /\ handler' # "close" /\ monitor' \in {"watch", "done"}
      PROVE  Outs'
  BY <1>0, <1>2 DEF Outs, Piece
<1>3. /\ session = "none" => \A t \in Threads : out[t] = <<>>
      /\ monitor \in {"watch", "found"} => out["monitor"] = <<>>
      /\ session \in {"none", "listed"} =>
           out["handler"] = <<>> /\ handler # "close" /\ monitor \in {"watch", "done"}
  BY DEF Outs
<1>4. CASE MasterAdmits
  <2>1. /\ UNCHANGED <<handler, monitor>> /\ session = "none"
        /\ \/ session' = session /\ out' = out
           \/ session' = "listed" /\ out' = [out EXCEPT !["admission"] = protocol_send_query_confirm]
    BY <1>4 DEF MasterAdmits
  <2> QED BY <1>0, <1>1, <1>2, <1>3, <2>1
<1>5. CASE SchedulerAssigns
  <2>1. UNCHANGED <<handler, monitor, out>> /\ session' = "given"
    BY <1>5 DEF SchedulerAssigns
  <2> QED BY <1>0, <1>2, <1>3, <2>1
<1>6. CASE HandlerTruncates
  <2>1. UNCHANGED <<session, handler, monitor>> /\ out' = [out EXCEPT !["handler"] = <<>>]
    BY <1>6 DEF HandlerTruncates
  <2> QED BY <1>0, <1>2, <1>3, <2>1
<1>7. CASE HandlerCloses \/ MonitorCloses
  <2>1. UNCHANGED out /\ session' = "closed" /\ monitor' \in {monitor, "done"}
    BY <1>7 DEF HandlerCloses, MonitorCloses
  <2> QED BY <1>0, <1>2, <1>3, <2>1
<1>8. CASE HandlerEnds
  <2>1. UNCHANGED <<session, out, monitor>> /\ handler' \in {"end", "idled"}
    BY <1>8 DEF HandlerEnds
  <2> QED BY <1>0, <1>2, <1>3, <2>1
<1>9. CASE MonitorFinds
  <2>1. UNCHANGED <<session, out, handler>> /\ monitor' = "found" /\ session = "given" /\ monitor = "watch"
    BY <1>9 DEF MonitorFinds
  <2> QED BY <1>0, <1>2, <1>3, <2>1
<1>10. CASE MonitorRemoves
  <2>1. /\ UNCHANGED <<session, handler>> /\ monitor' = "close" /\ monitor = "found"
        /\ out' = [out EXCEPT !["monitor"] = protocol_send_query_result("ERROR")]
    BY <1>10 DEF MonitorRemoves
  <2> QED BY <1>0, <1>1, <1>2, <1>3, <2>1
<1>11. ASSUME NEW t \in Threads, MasterWrites(t) PROVE Outs'
  <2>1. /\ UNCHANGED <<session, handler, monitor>> /\ out[t] # <<>>
        /\ out' = [out EXCEPT ![t] = Tail(out[t])]
    BY <1>11 DEF MasterWrites
  <2> QED BY <1>0, <1>2, <1>3, <2>1
<1>12. ASSUME NEW t \in Threads, WriteFails(t) PROVE Outs'
  <2>1. /\ UNCHANGED monitor /\ out[t] # <<>> /\ out' = [out EXCEPT ![t] = <<>>]
        /\ session' \in {session, "closed"} /\ handler' \in {handler, "serve"}
    BY <1>12 DEF WriteFails
  <2> QED BY <1>0, <1>2, <1>3, <2>1
<1> QED BY <1>4, <1>5, <1>6, <1>7, <1>8, <1>9, <1>10, <1>11, <1>12 DEF MasterNext, WritesOut

LEMMA HandlerKeepsOuts ==
  ASSUME PathTypeOK, HandlerStream, Outs, MasterRegisters \/ HandlerReceives PROVE Outs'
<1>0. /\ out \in [Threads -> Seq(Fields)] /\ Threads = {"admission", "handler", "monitor"}
      /\ \A t \in Threads : Piece(t, out[t])
  BY OutsPieces DEF PathTypeOK, MasterType, Threads
<1>3. /\ session = "none" => \A t \in Threads : out[t] = <<>>
      /\ monitor \in {"watch", "found"} => out["monitor"] = <<>>
      /\ session \in {"none", "listed"} =>
           out["handler"] = <<>> /\ handler # "close" /\ monitor \in {"watch", "done"}
  BY DEF Outs
<1>4. CASE MasterRegisters
  <2>1. UNCHANGED <<session, out>> /\ handler' # "close" /\ monitor' \in {monitor, "done"}
    BY <1>4 DEF MasterRegisters
  <2> QED BY <1>0, <1>3, <2>1 DEF Outs
<1>5. CASE HandlerReceives
  <2>1. Head(wire["toHandler"]) \in ReportCodes
    BY <1>5, HandlerHears DEF HandlerReceives
  <2>2. PICK v \in Seq(Fields) : Piece("handler", v) /\ v = Verdict[Head(wire["toHandler"])]
    BY <2>1, FramesPut DEF Piece
  <2>3. /\ UNCHANGED <<session, monitor>>
        /\ \/ out' = out /\ handler' = handler
           \/ session = "given" /\ out' = [out EXCEPT !["handler"] = v]
    BY <1>5, <2>2 DEF HandlerReceives
  <2>4. \A t \in Threads : Piece(t, out'[t])
    BY <1>0, <2>2, <2>3
  <2> QED BY <1>0, <1>3, <2>3, <2>4 DEF Outs, Piece
<1> QED BY <1>4, <1>5

LEMMA OutsStay ==
  ASSUME Outs, UNCHANGED <<session, handler, monitor, out>> PROVE Outs'
BY DEF Outs

LEMMA BegunMeans ==
  ASSUME PathTypeOK
  PROVE  \A t \in Threads : Begun(t) <=> out[t] # <<>> /\ out[t][1] \notin Opcodes
<1> TAKE t \in Threads
<1>1. out[t] \in Seq(Fields)
  BY DEF PathTypeOK, MasterType
<1>2. out[t] # <<>> => Head(out[t]) = out[t][1]
  BY <1>1, Rest
<1> QED BY <1>2 DEF Begun, Opcodes

\* What the reader of the stream to Query Control has in front of it: the stream,
\* and the rest of the frame that a thread is writing.
LEMMA SomethingAhead ==
  ASSUME PathTypeOK, ToClient, Clean, Listening
  PROVE  \E v \in Seq(Fields) :
           /\ Follows(wire["toClient"] \o v, client.need)
           /\ wire["toClient"] \o <<>> = wire["toClient"]
<1>1. /\ wire["toClient"] \in Seq(Fields) /\ \A t \in Threads : out[t] \in Seq(Fields)
      /\ <<>> \in Seq(Fields)
  BY EmptySeq DEF PathTypeOK, MasterType, Streams
<1>2. wire["toClient"] \o <<>> = wire["toClient"]
  BY <1>1, Joined
<1>3. CASE \E t \in Threads : Begun(t)
  BY <1>1, <1>2, <1>3 DEF ToClient
<1>4. CASE \A t \in Threads : ~Begun(t)
  <2>1. Follows(wire["toClient"], client.need)
    BY <1>4 DEF ToClient
  <2> QED BY <1>1, <1>2, <2>1
<1> QED BY <1>3, <1>4

\* Query Control takes a field off the stream.
LEMMA FieldOff ==
  ASSUME NEW w \in Seq(Fields), w # <<>>, NEW v \in Seq(Fields),
         NEW need \in Seq(Fields), Follows(w \o v, need)
  PROVE  /\ need = <<>> => w[1] \in Opcodes /\ Follows(Tail(w) \o v, ClientReads[w[1]])
         /\ need # <<>> => Kind(w[1]) = need[1] /\ Follows(Tail(w) \o v, Tail(need))
<1>1. PICK u \in Seq(Fields) :
        u = w \o v /\ Tail(u) = Tail(w) \o v /\ u[1] = w[1] /\ u # <<>>
  BY TailJoined
<1>2. Follows(u, need)
  BY <1>1
<1>3. need = <<>> => u[1] \in Opcodes /\ Follows(Tail(u), ClientReads[u[1]])
  BY <1>1, <1>2, CodeTaken
<1>4. need # <<>> => Kind(u[1]) = need[1] /\ Follows(Tail(u), Tail(need))
  BY <1>1, <1>2, FieldTaken
<1> QED BY <1>1, <1>3, <1>4

LEMMA ClientKeepsToClient ==
  ASSUME PathTypeOK, Outs, Confirmation, ToClient, ClientNext PROVE ToClient'
<1>0. /\ wire \in [Streams -> Seq(Fields)] /\ "toClient" \in Streams /\ "toMaster" \in Streams
      /\ wire["toClient"] \in Seq(Fields) /\ <<>> \in Seq(Fields)
      /\ out \in [Threads -> Seq(Fields)]
      /\ client.need \in Seq(Fields) /\ DOMAIN client = {"at", "need", "result"}
  BY EmptySeq DEF PathTypeOK, ClientType, MasterType, Streams
<1>1. out' = out /\ trouble' = trouble
  BY ClientStreams DEF master, history
<1>2. \A t \in Threads : Begun(t)' = Begun(t)
  BY <1>1 DEF Begun
<1>3. CASE ClientSubmits
  <2>1. /\ client.at = "start" /\ client'.need = client.need /\ wire'["toClient"] = wire["toClient"]
    BY <1>0, <1>3 DEF ClientSubmits, Sent
  <2>2. session = "none" /\ wire["toClient"] = <<>> /\ client.need = <<>>
    BY <2>1 DEF Confirmation
  <2>3. \A t \in Threads : ~Begun(t)
    BY <2>2 DEF Outs, Begun
  <2>4. Follows(<<>>, <<>>)
    <3>1. Len(<<>>) = 0
      OBVIOUS
    <3> QED BY <3>1 DEF Follows, Unbroken
  <2> QED BY <1>1, <1>2, <2>1, <2>2, <2>3, <2>4 DEF ToClient
<1>4. CASE ~ClientSubmits
  <2> SUFFICES ASSUME Clean', Listening'
               PROVE  /\ \A t \in Threads : Begun(t)' =>
                           /\ Follows(wire'["toClient"] \o out'[t], client'.need)
                           /\ \A u \in Threads \ {t} : ~Begun(u)'
                      /\ (\A t \in Threads : ~Begun(t)') => Follows(wire'["toClient"], client'.need)
    BY DEF ToClient
  <2>1. wire["toClient"] # <<>> /\ wire'["toClient"] = Tail(wire["toClient"])
    BY <1>0, <1>4 DEF ClientNext, ClientConfirms, ClientListens, ClientReadsField, ClientDrifts
  <2>2. Head(wire["toClient"]) = wire["toClient"][1] /\ Tail(wire["toClient"]) \in Seq(Fields)
    BY <1>0, <2>1, Rest
  <2>3. /\ Listening
        /\ \/ client.need = <<>> /\ client'.need = ClientReads[wire["toClient"][1]]
           \/ client.need # <<>> /\ client'.need = Tail(client.need)
    <3>1. CASE ClientConfirms
      BY <1>0, <2>2, <3>1 DEF ClientConfirms, Listening, ClientReads
    <3>2. CASE ClientListens
      BY <1>0, <2>2, <3>2 DEF ClientListens, Listening, ClientReads
    <3>3. CASE ClientReadsField
      <4>1. client'.at \notin {"lost", "done"}
        BY DEF Listening
      <4> QED BY <1>0, <2>2, <3>3, <4>1 DEF ClientReadsField, Listening
    <3>4. CASE ClientDrifts
      BY <3>4 DEF ClientDrifts, Listening
    <3> QED BY <1>4, <3>1, <3>2, <3>3, <3>4 DEF ClientNext
  <2>4. Clean
    BY <1>1 DEF Clean
  <2>5. PICK w \in Seq(Fields), n \in Seq(Fields) : w = wire["toClient"] /\ n = client.need
    BY <1>0
  <2>6. ASSUME NEW v \in Seq(Fields), Follows(w \o v, n)
        PROVE  Follows(Tail(w) \o v, client'.need)
    BY <2>1, <2>3, <2>5, <2>6, FieldOff
  <2>7. ASSUME NEW t \in Threads, Begun(t)'
        PROVE  /\ Follows(wire'["toClient"] \o out'[t], client'.need)
               /\ \A u \in Threads \ {t} : ~Begun(u)'
    <3>1. /\ Begun(t) /\ Follows(w \o out[t], n) /\ out[t] \in Seq(Fields)
          /\ \A u \in Threads \ {t} : ~Begun(u)
      BY <1>0, <1>2, <2>3, <2>4, <2>5, <2>7 DEF ToClient
    <3> QED BY <1>1, <1>2, <2>1, <2>5, <2>6, <3>1
  <2>8. ASSUME \A t \in Threads : ~Begun(t)'
        PROVE  Follows(wire'["toClient"], client'.need)
    <3>1. Follows(w, n)
      BY <1>2, <2>3, <2>4, <2>5, <2>8 DEF ToClient
    <3>2. w \o <<>> = w /\ Tail(w) \o <<>> = Tail(w)
      BY <1>0, <2>2, <2>5, Joined
    <3>3. Follows(Tail(w) \o <<>>, client'.need)
      BY <1>0, <2>6, <3>1, <3>2
    <3> QED BY <2>1, <2>5, <3>2, <3>3
  <2> QED BY <2>7, <2>8
<1> QED BY <1>3, <1>4

\* A step that puts nothing on the stream, and begins or drops no frame that is
\* being written.
LEMMA ToClientStays ==
  ASSUME ToClient, UNCHANGED <<client, trouble>>, wire'["toClient"] = wire["toClient"],
         \A t \in Threads : out'[t] = out[t] \/ (~Begun(t) /\ ~Begun(t)')
  PROVE  ToClient'
<1>1. \A t \in Threads : Begun(t)' = Begun(t) /\ (Begun(t) => out'[t] = out[t])
  BY DEF Begun
<1>2. (Clean' = Clean) /\ (Listening' = Listening) /\ client'.need = client.need
  BY DEF Clean, Listening
<1> QED BY <1>1, <1>2 DEF ToClient

LEMMA MasterWritesOn ==
  ASSUME PathTypeOK, Outs, ToClient, NEW t \in Threads, MasterWrites(t)
  PROVE  ToClient'
<1>0. /\ wire \in [Streams -> Seq(Fields)] /\ "toClient" \in Streams
      /\ out \in [Threads -> Seq(Fields)] /\ DOMAIN out = Threads /\ client.need \in Seq(Fields)
      /\ out[t] # <<>> /\ <<>> \in Seq(Fields)
  BY EmptySeq DEF PathTypeOK, ClientType, MasterType, Streams, MasterWrites
<1>1. PICK w \in Seq(Fields), v \in Seq(Fields), n \in Seq(Fields) :
        w = wire["toClient"] /\ v = out[t] /\ n = client.need
  BY <1>0
<1>2. /\ wire'["toClient"] = w \o <<Head(v)>> /\ out' = [out EXCEPT ![t] = Tail(v)]
      /\ trouble \subseteq trouble' /\ client' = client
  BY <1>0, <1>1 DEF MasterWrites, Sent
<1> SUFFICES ASSUME Clean', Listening'
             PROVE  /\ \A u \in Threads : Begun(u)' =>
                         /\ Follows(wire'["toClient"] \o out'[u], client'.need)
                         /\ \A x \in Threads \ {u} : ~Begun(x)'
                    /\ (\A u \in Threads : ~Begun(u)') => Follows(wire'["toClient"], client'.need)
  BY DEF ToClient
<1>3. Clean /\ Listening
  BY <1>2 DEF Clean, Listening
<1>4. \A u \in Threads \ {t} : ~Begun(u) /\ ~Begun(u)'
  <2>1. {u \in Others(t) : Begun(u)} = {}
    BY DEF Clean, MasterWrites
  <2>2. \A u \in Threads \ {t} : ~Begun(u) /\ out'[u] = out[u]
    BY <1>0, <1>2, <2>1 DEF Others
  <2> QED BY <2>2 DEF Begun
<1>5. Whole(v) \/ \A i \in 1 .. Len(v) : v[i] \notin Opcodes
  BY <1>0, <1>1 DEF Outs
<1>6. Follows(w \o v, n)
  <2>1. CASE Begun(t)
    BY <1>1, <1>3, <2>1 DEF ToClient
  <2>2. CASE ~Begun(t)
    <3>1. Follows(w, n)
      BY <1>1, <1>3, <1>4, <2>2 DEF ToClient
    <3>2. v[1] \in Opcodes
      BY <1>0, <1>1, <2>2, BegunMeans
    <3>3. 1 \in 1 .. Len(v)
      BY <1>0, <1>1, Rest
    <3>4. Whole(v)
      BY <1>5, <3>2, <3>3
    <3> QED BY <3>1, <3>4, FrameFollows
  <2> QED BY <2>1, <2>2
<1>7. PICK r \in Seq(Fields) : r = Tail(v) /\ \A i \in 1 .. Len(r) : r[i] \notin Opcodes
  <2>1. Tail(v) \in Seq(Fields)
    BY <1>0, <1>1, Rest
  <2> QED BY <1>0, <1>1, <1>5, <2>1, TailCodeFree
<1>8. PICK x \in Seq(Fields) : x = wire'["toClient"] /\ x \o r = w \o v
  <2>1. (w \o <<Head(v)>>) \o Tail(v) = w \o v
    BY <1>0, <1>1, HeadMoved
  <2>2. w \o <<Head(v)>> \in Seq(Fields)
    <3>1. <<Head(v)>> \in Seq(Fields)
      BY <1>0, <1>1, Rest, Tuples
    <3> QED BY <3>1, Joined
  <2> QED BY <1>2, <1>7, <2>1, <2>2
<1>9. Follows(x \o r, n)
  BY <1>6, <1>8
<1>10. out'[t] = r
  BY <1>0, <1>2, <1>7
<1>11. CASE r = <<>>
  <2>1. x \o r = x
    BY <1>0, <1>8, <1>11, Joined
  <2>2. \A u \in Threads : ~Begun(u)'
    BY <1>4, <1>10, <1>11 DEF Begun
  <2>3. Follows(x, n)
    BY <1>9, <2>1
  <2> QED BY <1>1, <1>2, <1>8, <2>2, <2>3
<1>12. CASE r # <<>>
  <2>1. Begun(t)'
    <3>1. Head(r) = r[1] /\ 1 \in 1 .. Len(r)
      BY <1>7, <1>12, Rest
    <3>2. Head(r) \notin Opcodes
      BY <1>7, <3>1
    <3> QED BY <1>10, <1>12, <3>2 DEF Begun, Opcodes
  <2> QED BY <1>1, <1>2, <1>4, <1>8, <1>9, <1>10, <2>1
<1> QED BY <1>11, <1>12

LEMMA MasterKeepsToClient ==
  ASSUME PathTypeOK, Outs, ToClient, MasterNext PROVE ToClient'
<1>0. /\ wire \in [Streams -> Seq(Fields)] /\ "toClient" \in Streams
      /\ out \in [Threads -> Seq(Fields)] /\ client' = client
  BY MasterStreams DEF PathTypeOK, MasterType, Streams
<1>1. CASE MasterAdmits
  <2>1. /\ UNCHANGED trouble /\ wire'["toClient"] = wire["toClient"] /\ session = "none"
        /\ out' = out \/ out' = [out EXCEPT !["admission"] = protocol_send_query_confirm]
    BY <1>0, <1>1 DEF MasterAdmits, Streams
  <2>2. out["admission"] = <<>>
    BY <2>1 DEF Outs, Threads
  <2>3. Head(protocol_send_query_confirm) = "CONFIRM"
    BY DEF protocol_send_query_confirm
  <2>4. \A t \in Threads : out'[t] = out[t] \/ (~Begun(t) /\ ~Begun(t)')
    BY <1>0, <2>1, <2>2, <2>3 DEF Begun
  <2> QED BY <1>0, <2>1, <2>4, ToClientStays
<1>2. CASE SchedulerAssigns \/ HandlerCloses \/ HandlerEnds \/ MonitorFinds \/ MonitorCloses
  <2>1. UNCHANGED <<out, trouble>> /\ wire'["toClient"] = wire["toClient"]
    BY <1>0, <1>2 DEF SchedulerAssigns, HandlerCloses, HandlerEnds, MonitorFinds, MonitorCloses, Sent,
                      history, Streams
  <2> QED BY <1>0, <2>1, ToClientStays
<1>3. CASE HandlerTruncates
  <2>1. ~Clean'
    BY <1>3 DEF HandlerTruncates, Clean
  <2> QED BY <2>1 DEF ToClient
<1>4. CASE MonitorRemoves
  <2>1. /\ UNCHANGED <<wire, trouble>> /\ monitor = "found"
        /\ out' = [out EXCEPT !["monitor"] = protocol_send_query_result("ERROR")]
    BY <1>4 DEF MonitorRemoves, history
  <2>2. out["monitor"] = <<>>
    BY <2>1 DEF Outs
  <2>3. Head(protocol_send_query_result("ERROR")) = "RESULT"
    BY DEF protocol_send_query_result
  <2>4. \A t \in Threads : out'[t] = out[t] \/ (~Begun(t) /\ ~Begun(t)')
    BY <1>0, <2>1, <2>2, <2>3 DEF Begun
  <2> QED BY <1>0, <2>1, <2>4, ToClientStays
<1>5. ASSUME NEW t \in Threads, MasterWrites(t) PROVE ToClient'
  BY <1>5, MasterWritesOn
<1>6. ASSUME NEW t \in Threads, WriteFails(t) PROVE ToClient'
  <2>1. client'.at = "done"
    BY <1>0, <1>6 DEF WriteFails
  <2> QED BY <2>1 DEF ToClient, Listening
<1> QED BY <1>1, <1>2, <1>3, <1>4, <1>5, <1>6 DEF MasterNext, WritesOut

LEMMA HandlerKeepsToClient ==
  ASSUME PathTypeOK, HandlerStream, ToClient, MasterRegisters \/ HandlerReceives PROVE ToClient'
<1>0. /\ out \in [Threads -> Seq(Fields)] /\ UNCHANGED <<client, trouble>>
      /\ wire'["toClient"] = wire["toClient"]
  BY HandlerStreams DEF PathTypeOK, MasterType, Streams
<1>1. CASE MasterRegisters
  BY <1>0, <1>1, ToClientStays DEF MasterRegisters
<1>2. CASE HandlerReceives
  <2>1. Head(wire["toHandler"]) \in ReportCodes
    BY <1>2, HandlerHears DEF HandlerReceives
  <2>2. PICK v \in Seq(Fields) : Whole(v) /\ v = Verdict[Head(wire["toHandler"])]
    BY <2>1, FramesPut
  <2>3. out["handler"] = <<>> /\ (out' = out \/ out' = [out EXCEPT !["handler"] = v])
    BY <1>2, <2>2 DEF HandlerReceives
  <2>4. v # <<>> /\ Head(v) \in Opcodes
    <3>1. Len(v) # 0
      BY <2>2, ClientFacts DEF Whole
    <3>2. v # <<>>
      BY <3>1, Emptied
    <3> QED BY <2>2, <3>2, Rest DEF Whole
  <2>5. \A t \in Threads : out'[t] = out[t] \/ (~Begun(t) /\ ~Begun(t)')
    BY <1>0, <2>3, <2>4 DEF Begun, Opcodes
  <2> QED BY <1>0, <2>5, ToClientStays
<1> QED BY <1>1, <1>2

-----------------------------------------------------------------------------
(***************************************************************************)
(* The CONFIRM, and where Query Control loses step                         *)
(***************************************************************************)
LEMMA TailConfirms ==
  ASSUME NEW w \in Seq(Fields), w # <<>>
  PROVE  /\ (\A i, j \in Confirms(w) : i = j) => \A i, j \in Confirms(Tail(w)) : i = j
         /\ (\A i, j \in Confirms(w) : i = j) /\ w[1] = "CONFIRM" =>
              \A i \in 1 .. Len(Tail(w)) : Tail(w)[i] # "CONFIRM"
         /\ (\A i \in 1 .. Len(w) : w[i] # "CONFIRM") =>
              \A i \in 1 .. Len(Tail(w)) : Tail(w)[i] # "CONFIRM"
         /\ Confirms(w) = {} => Confirms(Tail(w)) = {} /\ w[1] # "CONFIRM"
<1>1. PICK k \in Nat : k = Len(w) /\ k > 0
  BY Rest
<1>2. PICK r \in Seq(Fields) : r = Tail(w) /\ Len(r) = k - 1 /\ \A j \in 1 .. k - 1 : r[j] = w[j + 1]
  <2>1. Tail(w) \in Seq(Fields) /\ Len(Tail(w)) = k - 1 /\ \A j \in 1 .. k - 1 : Tail(w)[j] = w[j + 1]
    BY <1>1, Rest
  <2> QED BY <2>1
<1>3. ASSUME NEW i \in 1 .. Len(r)
      PROVE  i + 1 \in 1 .. Len(w) /\ r[i] = w[i + 1] /\ i + 1 # 1
  BY <1>1, <1>2
<1>4. ASSUME NEW i \in Confirms(r) PROVE i + 1 \in Confirms(w) /\ i \in Int
  BY <1>3 DEF Confirms
<1>5. ASSUME \A i, j \in Confirms(w) : i = j, NEW i \in Confirms(r), NEW j \in Confirms(r)
      PROVE  i = j
  <2>1. i + 1 = j + 1 /\ i \in Int /\ j \in Int
    BY <1>4, <1>5
  <2> QED BY <2>1
<1>6. w[1] = "CONFIRM" => 1 \in Confirms(w)
  BY <1>1 DEF Confirms
<1>7. ASSUME \A i, j \in Confirms(w) : i = j, w[1] = "CONFIRM", NEW i \in 1 .. Len(r), r[i] = "CONFIRM"
      PROVE  FALSE
  <2>1. i + 1 \in Confirms(w) /\ i + 1 # 1
    BY <1>3, <1>7 DEF Confirms
  <2> QED BY <1>6, <1>7, <2>1
<1>8. ASSUME \A i \in 1 .. Len(w) : w[i] # "CONFIRM", NEW i \in 1 .. Len(r) PROVE r[i] # "CONFIRM"
  BY <1>3, <1>8
<1>9. Confirms(w) = {} => Confirms(r) = {}
  BY <1>4
<1> QED BY <1>2, <1>5, <1>6, <1>7, <1>8, <1>9

LEMMA ConfirmationStays ==
  ASSUME Confirmation, UNCHANGED client, wire'["toMaster"] = wire["toMaster"],
         wire'["toClient"] = wire["toClient"], out'["admission"] = out["admission"],
         (session' = "none") = (session = "none"), trouble \subseteq trouble'
  PROVE  Confirmation'
<1>1. Begun("admission")' = Begun("admission")
  BY DEF Begun
<1>2. trouble' \intersect {"overtaken", "overlap"} = {} => trouble \intersect {"overtaken", "overlap"} = {}
  OBVIOUS
<1>3. session' = "none" <=> session = "none"
  OBVIOUS
<1> QED BY <1>1, <1>2, <1>3 DEF Confirmation

LEMMA ClientKeepsConfirmation ==
  ASSUME PathTypeOK, Outs, Confirmation, ClientNext PROVE Confirmation'
<1>0. /\ wire \in [Streams -> Seq(Fields)] /\ "toClient" \in Streams /\ "toMaster" \in Streams
      /\ wire["toClient"] \in Seq(Fields) /\ client.need \in Seq(Fields)
      /\ DOMAIN client = {"at", "need", "result"} /\ "admission" \in Threads
  BY DEF PathTypeOK, ClientType, Streams, Threads
<1>1. UNCHANGED <<out, session, trouble>>
  BY ClientStreams DEF master, history
<1>2. Begun("admission")' = Begun("admission")
  BY <1>1 DEF Begun
<1>3. CASE ClientSubmits
  <2>1. /\ client.at = "start" /\ client'.need = client.need /\ wire'["toClient"] = wire["toClient"]
        /\ client'.at = "confirm"
        /\ wire'["toMaster"] = wire["toMaster"] \o protocol_send_query_submit
    BY <1>0, <1>3 DEF ClientSubmits, Sent
  <2>2. /\ session = "none" /\ wire["toClient"] = <<>> /\ client.need = <<>>
        /\ wire["toMaster"] = <<>>
    BY <2>1 DEF Confirmation
  <2>3. wire'["toMaster"] = protocol_send_query_submit
    BY <2>1, <2>2, FramesTyped, Joined
  <2>4. out["admission"] = <<>>
    BY <1>0, <2>2 DEF Outs
  <2>5. \A i, j \in Confirms(wire["toClient"]) : i = j
    BY DEF Confirmation
  <2> QED BY <1>1, <2>1, <2>2, <2>3, <2>4, <2>5 DEF Confirmation
<1>4. CASE ~ClientSubmits
  <2>1. /\ wire["toClient"] # <<>> /\ wire'["toClient"] = Tail(wire["toClient"])
        /\ wire'["toMaster"] = wire["toMaster"]
    BY <1>0, <1>4 DEF ClientNext, ClientConfirms, ClientListens, ClientReadsField, ClientDrifts
  <2>2. PICK w \in Seq(Fields) : w = wire["toClient"] /\ w # <<>> /\ Head(w) = w[1]
    BY <1>0, <2>1, Rest
  <2>3. session # "none" /\ client.at # "start"
    BY <2>1 DEF Confirmation
  <2>4. /\ (\A i, j \in Confirms(Tail(w)) : i = j)
        /\ w[1] = "CONFIRM" => \A i \in 1 .. Len(Tail(w)) : Tail(w)[i] # "CONFIRM"
        /\ (\A i \in 1 .. Len(w) : w[i] # "CONFIRM") =>
              \A i \in 1 .. Len(Tail(w)) : Tail(w)[i] # "CONFIRM"
        /\ Confirms(w) = {} => Confirms(Tail(w)) = {} /\ w[1] # "CONFIRM"
    <3>1. \A i, j \in Confirms(w) : i = j
      BY <2>2 DEF Confirmation
    <3> QED BY <2>2, <3>1, TailConfirms
  <2>5. \/ /\ client.at = "confirm" /\ client'.at = "listen" /\ w[1] = "CONFIRM"
        \/ client'.at = "done"
        \/ /\ client.at = "listen" /\ client'.at \in {"listen", "lost"}
        \/ /\ client.at \in {"listen", "result"} /\ client'.at = "result" /\ client'.need # <<>>
        \/ /\ client.at \in {"listen", "result", "lost"} /\ client'.at = "lost"
    <3>1. CASE ClientConfirms
      BY <1>0, <2>2, <3>1 DEF ClientConfirms
    <3>2. CASE ClientListens
      <4>1. protocol_recv_query_result # <<>>
        BY DEF protocol_recv_query_result
      <4> QED BY <1>0, <2>2, <3>2, <4>1 DEF ClientListens
    <3>3. CASE ClientReadsField
      <4>1. /\ client.at \in {"listen", "result"} /\ client.need # <<>>
            /\ \/ client'.at \in {"lost", "done"}
               \/ /\ client' = [client EXCEPT !.need = Tail(@)]
                  /\ ~(client.at = "result" /\ Len(client.need) = 1)
        BY <1>0, <3>3 DEF ClientReadsField
      <4>2. Len(client.need) # 1 => Tail(client.need) # <<>>
        <5>1. PICK n \in Seq(Fields) : n = client.need /\ n # <<>>
          BY <1>0, <4>1
        <5>2. Len(Tail(n)) = Len(n) - 1 /\ Len(n) \in Nat /\ Tail(n) \in Seq(Fields)
          BY <5>1, Rest, LenProperties
        <5>3. Len(n) # 1 => Len(Tail(n)) # 0
          BY <5>2
        <5>4. Len(n) # 1 => Tail(n) # <<>>
          BY <5>2, <5>3, Emptied
        <5> QED BY <5>1, <5>4
      <4> QED BY <1>0, <4>1, <4>2
    <3>4. CASE ClientDrifts
      BY <3>4 DEF ClientDrifts
    <3> QED BY <1>4, <3>1, <3>2, <3>3, <3>4 DEF ClientNext
  <2>6. /\ wire["toMaster"] \in {<<>>, protocol_send_query_submit}
        /\ client.at \in {"listen", "result"} => \A i \in 1 .. Len(w) : w[i] # "CONFIRM"
        /\ out["admission"] # <<>> /\ ~Begun("admission") =>
             /\ out["admission"] = protocol_send_query_confirm
             /\ Confirms(w) = {} /\ client.at \notin {"listen", "result"}
    BY <2>2 DEF Confirmation
  <2>7. client'.at \in {"listen", "result"} => \A i \in 1 .. Len(Tail(w)) : Tail(w)[i] # "CONFIRM"
    BY <2>4, <2>5, <2>6
  <2>8. out["admission"] # <<>> /\ ~Begun("admission") =>
             /\ out["admission"] = protocol_send_query_confirm
             /\ Confirms(Tail(w)) = {} /\ client'.at \notin {"listen", "result"}
    BY <2>4, <2>5, <2>6
  <2>9. client'.at \notin {"start", "confirm"} /\ (client'.at = "result" => client'.need # <<>>)
    BY <2>5
  <2>10. \A i, j \in Confirms(Tail(w)) : i = j
    BY <2>4
  <2> QED BY <1>1, <1>2, <2>1, <2>2, <2>3, <2>6, <2>7, <2>8, <2>9, <2>10 DEF Confirmation
<1> QED BY <1>3, <1>4

LEMMA MasterAdmitsOne ==
  ASSUME PathTypeOK, Outs, Confirmation, MasterAdmits
  PROVE  Confirmation' /\ astray' = astray
<1>0. /\ wire \in [Streams -> Seq(Fields)] /\ "toClient" \in Streams /\ "toMaster" \in Streams
      /\ out \in [Threads -> Seq(Fields)] /\ "admission" \in Threads
  BY DEF PathTypeOK, MasterType, Streams, Threads
<1>1. /\ protocol_send_query_submit \in Seq(Fields) /\ Len(protocol_send_query_submit) = 4
      /\ Shaped(protocol_send_query_submit, "SUBMIT", protocol_recv_query_submit)
      /\ protocol_send_query_submit # <<>>
  <2>1. Len(protocol_send_query_submit) = 4 /\ Len(<<>>) = 0
    BY DEF protocol_send_query_submit, Str
  <2>2. protocol_send_query_submit # <<>>
    BY <2>1
  <2> QED BY <2>1, <2>2, FramesTyped, GreetingsShaped
<1>2. wire["toMaster"] = protocol_send_query_submit
  <2>1. Len(wire["toMaster"]) >= 4
    BY <1>1 DEF MasterAdmits, Came
  <2>2. wire["toMaster"] # <<>>
    <3>1. Len(<<>>) = 0
      OBVIOUS
    <3> QED BY <2>1, <3>1
  <2> QED BY <2>2 DEF Confirmation
<1>3. InStep(Tail(wire["toMaster"]), protocol_recv_query_submit)
  <2>1. PICK s \in Seq(Fields), n \in Nat :
          s = protocol_send_query_submit /\ n = Len(protocol_recv_query_submit)
    BY <1>1 DEF Shaped
  <2>2. /\ Len(s) = 1 + n /\ DOMAIN protocol_recv_query_submit = 1 .. n /\ s # <<>>
        /\ \A i \in 1 .. n : Kind(s[1 + i]) = protocol_recv_query_submit[i].kind
    BY <1>1, <2>1 DEF Shaped
  <2>3. \A j \in 1 .. n : Tail(s)[j] = s[1 + j]
    <3>1. Len(s) - 1 = n /\ \A j \in 1 .. n : j + 1 = 1 + j
      BY <2>2
    <3>2. \A j \in 1 .. Len(s) - 1 : Tail(s)[j] = s[j + 1]
      BY <2>2, Rest
    <3> QED BY <3>1, <3>2
  <2>4. InStep(Tail(s), protocol_recv_query_submit)
    BY <2>2, <2>3 DEF InStep
  <2> QED BY <1>2, <2>1, <2>4
<1>4. /\ session = "none" /\ session' = "listed" /\ astray' = astray
      /\ out' = [out EXCEPT !["admission"] = protocol_send_query_confirm]
      /\ wire' = [wire EXCEPT !["toMaster"] = <<>>] /\ client' = client
  BY <1>3 DEF MasterAdmits
<1>5. /\ wire'["toMaster"] = <<>> /\ wire'["toClient"] = wire["toClient"]
      /\ out'["admission"] = protocol_send_query_confirm
  BY <1>0, <1>4
<1>6. /\ wire["toClient"] = <<>> /\ client.at = "confirm" /\ client.need = <<>>
  BY <1>1, <1>2, <1>4 DEF Confirmation
<1>7. Confirms(wire["toClient"]) = {}
  <2>1. Len(<<>>) = 0
    OBVIOUS
  <2> QED BY <1>6, <2>1 DEF Confirms
<1> QED BY <1>4, <1>5, <1>6, <1>7 DEF Confirmation

LEMMA FieldConfirms ==
  ASSUME NEW w \in Seq(Fields), NEW h \in Fields
  PROVE  /\ w \o <<h>> \in Seq(Fields) /\ w \o <<h>> # <<>>
         /\ w # <<>> => (w \o <<h>>)[1] = w[1]
         /\ w = <<>> => (w \o <<h>>)[1] = h
         /\ h # "CONFIRM" => Confirms(w \o <<h>>) = Confirms(w)
         /\ h # "CONFIRM" /\ (\A i \in 1 .. Len(w) : w[i] # "CONFIRM") =>
              \A i \in 1 .. Len(w \o <<h>>) : (w \o <<h>>)[i] # "CONFIRM"
         /\ Confirms(w) = {} => \A i, j \in Confirms(w \o <<h>>) : i = j
<1>1. PICK n \in Nat : n = Len(w)
  BY LenProperties
<1>2. PICK x \in Seq(Fields) :
        x = w \o <<h>> /\ Len(x) = n + 1 /\ (\A i \in 1 .. n : x[i] = w[i]) /\ x[n + 1] = h
  <2>1. <<h>> \in Seq(Fields) /\ Len(<<h>>) = 1 /\ <<h>>[1] = h
    OBVIOUS
  <2>2. /\ w \o <<h>> \in Seq(Fields) /\ Len(w \o <<h>>) = Len(w) + Len(<<h>>)
        /\ \A i \in 1 .. Len(w) : (w \o <<h>>)[i] = w[i]
        /\ \A i \in 1 .. Len(<<h>>) : (w \o <<h>>)[Len(w) + i] = <<h>>[i]
    BY <2>1, Joined
  <2>3. 1 \in 1 .. Len(<<h>>)
    BY <2>1
  <2> QED BY <1>1, <2>1, <2>2, <2>3
<1>3. x # <<>>
  BY <1>1, <1>2, Emptied
<1>4. w # <<>> => x[1] = w[1]
  <2>1. w # <<>> => 1 \in 1 .. n
    BY <1>1, Rest
  <2> QED BY <1>2, <2>1
<1>5. w = <<>> => x[1] = h
  <2>1. w = <<>> => n = 0 /\ n + 1 = 1
    BY <1>1, Emptied
  <2> QED BY <1>2, <2>1
<1>6. \A i \in 1 .. Len(x) : i \in 1 .. n \/ (i = n + 1 /\ x[i] = h)
  BY <1>1, <1>2
<1>7. \A i \in 1 .. n : i \in 1 .. Len(x)
  BY <1>1, <1>2
<1>8. h # "CONFIRM" => Confirms(x) = Confirms(w)
  BY <1>1, <1>2, <1>6, <1>7 DEF Confirms
<1>9. ASSUME h # "CONFIRM", \A i \in 1 .. Len(w) : w[i] # "CONFIRM", NEW i \in 1 .. Len(x)
      PROVE  x[i] # "CONFIRM"
  BY <1>1, <1>2, <1>6, <1>9
<1>10. Confirms(w) = {} => \A i \in Confirms(x) : i = n + 1
  BY <1>1, <1>2, <1>6 DEF Confirms
<1> QED BY <1>2, <1>3, <1>4, <1>5, <1>8, <1>9, <1>10

LEMMA MasterWritesConfirm ==
  ASSUME PathTypeOK, Outs, Confirmation, NEW t \in Threads, MasterWrites(t)
  PROVE  Confirmation'
<1>0. /\ wire \in [Streams -> Seq(Fields)] /\ "toClient" \in Streams /\ "toMaster" \in Streams
      /\ out \in [Threads -> Seq(Fields)] /\ "admission" \in Threads /\ out[t] # <<>>
      /\ DOMAIN out = Threads
  BY DEF PathTypeOK, MasterType, Streams, Threads, MasterWrites
<1>1. PICK w \in Seq(Fields), v \in Seq(Fields), h \in Fields :
        w = wire["toClient"] /\ v = out[t] /\ v # <<>> /\ h = Head(v) /\ h = v[1]
  BY <1>0, Rest
<1>2. /\ wire'["toClient"] = w \o <<h>> /\ wire'["toMaster"] = wire["toMaster"]
      /\ out' = [out EXCEPT ![t] = Tail(v)] /\ trouble \subseteq trouble'
      /\ UNCHANGED <<client, session>>
  BY <1>0, <1>1 DEF MasterWrites, Sent
<1>3. PICK x \in Seq(Fields) :
        /\ x = wire'["toClient"] /\ x # <<>>
        /\ w # <<>> => x[1] = w[1]
        /\ w = <<>> => x[1] = h
        /\ h # "CONFIRM" => Confirms(x) = Confirms(w)
        /\ h # "CONFIRM" /\ (\A i \in 1 .. Len(w) : w[i] # "CONFIRM") =>
             \A i \in 1 .. Len(x) : x[i] # "CONFIRM"
        /\ Confirms(w) = {} => \A i, j \in Confirms(x) : i = j
  <2>1. /\ w \o <<h>> \in Seq(Fields) /\ w \o <<h>> # <<>>
        /\ w # <<>> => (w \o <<h>>)[1] = w[1]
        /\ w = <<>> => (w \o <<h>>)[1] = h
        /\ h # "CONFIRM" => Confirms(w \o <<h>>) = Confirms(w)
        /\ h # "CONFIRM" /\ (\A i \in 1 .. Len(w) : w[i] # "CONFIRM") =>
             \A i \in 1 .. Len(w \o <<h>>) : (w \o <<h>>)[i] # "CONFIRM"
        /\ Confirms(w) = {} => \A i, j \in Confirms(w \o <<h>>) : i = j
    BY FieldConfirms
  <2> QED BY <1>2, <2>1
<1>4. session # "none"
  BY <1>0 DEF Outs
<1>5. /\ client.at # "start"
      /\ wire["toMaster"] \in {<<>>, protocol_send_query_submit}
      /\ client.at \in {"start", "confirm"} => client.need = <<>>
      /\ client.at \in {"listen", "result"} => \A i \in 1 .. Len(w) : w[i] # "CONFIRM"
      /\ \A i, j \in Confirms(w) : i = j
      /\ out["admission"] # <<>> /\ ~Begun("admission") =>
           /\ out["admission"] = protocol_send_query_confirm
           /\ Confirms(w) = {} /\ client.at \notin {"listen", "result"}
      /\ client.at = "confirm" /\ trouble \intersect {"overtaken", "overlap"} = {} =>
           \/ w # <<>> /\ w[1] = "CONFIRM"
           \/ w = <<>> /\ out["admission"] = protocol_send_query_confirm
      /\ client.at = "result" => client.need # <<>>
  BY <1>1, <1>4 DEF Confirmation
<1>6. ASSUME client.at \in {"listen", "result"} => \A i \in 1 .. Len(x) : x[i] # "CONFIRM",
             \A i, j \in Confirms(x) : i = j,
             out'["admission"] # <<>> /\ ~Begun("admission")' =>
               /\ out'["admission"] = protocol_send_query_confirm
               /\ Confirms(x) = {} /\ client.at \notin {"listen", "result"},
             client.at = "confirm" /\ trouble' \intersect {"overtaken", "overlap"} = {} =>
               x[1] = "CONFIRM"
      PROVE  Confirmation'
  BY <1>2, <1>3, <1>4, <1>5, <1>6 DEF Confirmation
<1>7. trouble' \intersect {"overtaken", "overlap"} = {} =>
        trouble \intersect {"overtaken", "overlap"} = {}
  BY <1>2
<1>8. 1 \in 1 .. Len(w) \/ w = <<>>
  BY Rest
<1>9. w[1] = "CONFIRM" /\ w # <<>> => Confirms(w) # {}
  BY <1>8 DEF Confirms
<1>10. CASE t = "admission"
  <2>1. out'["admission"] = <<>> \/ Begun("admission")'
    <3>1. out'["admission"] = Tail(v)
      BY <1>0, <1>2, <1>10
    <3>2. Whole(v) \/ \A i \in 1 .. Len(v) : v[i] \notin Opcodes
      BY <1>0, <1>1 DEF Outs
    <3>3. Tail(v) \in Seq(Fields) /\ \A i \in 1 .. Len(Tail(v)) : Tail(v)[i] \notin Opcodes
      BY <1>1, <3>2, Rest, TailCodeFree
    <3>4. PICK r \in Seq(Fields) : r = Tail(v) /\ \A i \in 1 .. Len(r) : r[i] \notin Opcodes
      BY <3>3
    <3>5. r # <<>> => Head(r) = r[1] /\ 1 \in 1 .. Len(r)
      BY Rest
    <3> QED BY <3>1, <3>4, <3>5 DEF Begun, Opcodes
  <2>2. CASE Begun("admission")
    <3>1. h # "CONFIRM" /\ v # protocol_send_query_confirm
      BY <1>1, <1>10, <2>2, FramesPut DEF Begun
    <3> QED BY <1>1, <1>3, <1>5, <1>6, <1>7, <1>10, <2>1, <3>1
  <2>3. CASE ~Begun("admission")
    <3>1. /\ v = protocol_send_query_confirm /\ h = "CONFIRM" /\ Confirms(w) = {}
          /\ client.at \notin {"listen", "result"}
      BY <1>0, <1>1, <1>5, <1>10, <2>3, FramesPut
    <3> QED BY <1>1, <1>3, <1>5, <1>6, <1>7, <1>9, <2>1, <3>1
  <2> QED BY <2>2, <2>3
<1>11. CASE t # "admission"
  <2>1. h # "CONFIRM"
    <3>1. 1 \in 1 .. Len(v)
      BY <1>1, Rest
    <3> QED BY <1>1, <1>11, <3>1 DEF Outs, Threads
  <2>2. out'["admission"] = out["admission"]
    BY <1>0, <1>2, <1>11
  <2>3. Begun("admission")' = Begun("admission")
    BY <2>2 DEF Begun
  <2>4. out["admission"] = protocol_send_query_confirm => "overtaken" \in trouble'
    BY <1>0, <1>11 DEF MasterWrites, Others
  <2> QED BY <1>3, <1>5, <1>6, <1>7, <2>1, <2>2, <2>3, <2>4
<1> QED BY <1>10, <1>11

LEMMA MasterKeepsConfirmation ==
  ASSUME PathTypeOK, Outs, Confirmation, MasterNext PROVE Confirmation' /\ astray' = astray
<1>0. /\ wire \in [Streams -> Seq(Fields)] /\ "toClient" \in Streams /\ "toMaster" \in Streams
      /\ out \in [Threads -> Seq(Fields)] /\ "admission" \in Threads /\ client' = client
      /\ DOMAIN out = Threads
  BY MasterStreams DEF PathTypeOK, MasterType, Streams, Threads
<1>1. CASE MasterAdmits
  BY <1>1, MasterAdmitsOne
<1>2. CASE SchedulerAssigns
  <2>1. /\ UNCHANGED <<out, trouble, astray>> /\ session = "listed" /\ session' = "given"
        /\ wire'["toClient"] = wire["toClient"] /\ wire'["toMaster"] = wire["toMaster"]
    BY <1>0, <1>2 DEF SchedulerAssigns, Sent, history
  <2> QED BY <1>0, <2>1, ConfirmationStays
<1>3. CASE HandlerTruncates
  <2>1. /\ UNCHANGED <<wire, session, astray>> /\ trouble \subseteq trouble'
        /\ out' = [out EXCEPT !["handler"] = <<>>]
    BY <1>3 DEF HandlerTruncates
  <2> QED BY <1>0, <2>1, ConfirmationStays
<1>4. CASE HandlerCloses \/ MonitorCloses
  <2>1. /\ UNCHANGED <<wire, out, trouble, astray>> /\ session' = "closed"
        /\ handler = "close" \/ monitor = "close"
    BY <1>4 DEF HandlerCloses, MonitorCloses, history
  <2>2. session # "none"
    BY <2>1 DEF Outs
  <2> QED BY <1>0, <2>1, <2>2, ConfirmationStays
<1>5. CASE HandlerEnds \/ MonitorFinds
  <2>1. UNCHANGED <<wire, out, session, trouble, astray>>
    BY <1>5 DEF HandlerEnds, MonitorFinds, history
  <2> QED BY <1>0, <2>1, ConfirmationStays
<1>6. CASE MonitorRemoves
  <2>1. /\ UNCHANGED <<wire, session, trouble, astray>>
        /\ out' = [out EXCEPT !["monitor"] = protocol_send_query_result("ERROR")]
    BY <1>6 DEF MonitorRemoves, history
  <2> QED BY <1>0, <2>1, ConfirmationStays
<1>7. ASSUME NEW t \in Threads, MasterWrites(t) PROVE Confirmation' /\ astray' = astray
  <2>1. astray' = astray
    BY <1>7 DEF MasterWrites
  <2> QED BY <1>7, <2>1, MasterWritesConfirm
<1>8. ASSUME NEW t \in Threads, WriteFails(t) PROVE Confirmation' /\ astray' = astray
  <2>1. /\ UNCHANGED <<wire, trouble, astray>> /\ out[t] # <<>> /\ client.at = "done"
        /\ out' = [out EXCEPT ![t] = <<>>] /\ session' \in {session, "closed"}
    BY <1>8 DEF WriteFails, history
  <2>2. session # "none"
    BY <2>1 DEF Outs
  <2>3. session' # "none"
    BY <2>1, <2>2
  <2>4. CASE t # "admission"
    BY <1>0, <2>1, <2>2, <2>3, <2>4, ConfirmationStays
  <2>5. CASE t = "admission"
    <3>1. out'["admission"] = <<>>
      BY <1>0, <2>1, <2>5
    <3> QED BY <1>0, <2>1, <2>2, <2>3, <3>1 DEF Confirmation
  <2> QED BY <2>4, <2>5
<1> QED BY <1>1, <1>2, <1>3, <1>4, <1>5, <1>6, <1>7, <1>8 DEF MasterNext, WritesOut

LEMMA HandlerKeepsConfirmation ==
  ASSUME PathTypeOK, Confirmation, MasterRegisters \/ HandlerReceives PROVE Confirmation'
<1>1. /\ UNCHANGED <<client, trouble>> /\ wire'["toClient"] = wire["toClient"]
      /\ wire'["toMaster"] = wire["toMaster"]
  BY HandlerStreams DEF Streams
<1>2. out'["admission"] = out["admission"] /\ session' = session
  <2>1. out \in [Threads -> Seq(Fields)] /\ "admission" \in Threads
    BY DEF PathTypeOK, MasterType, Threads
  <2>2. /\ session' = session
        /\ out' = out \/ out' = [out EXCEPT !["handler"] = Verdict[Head(wire["toHandler"])]]
    BY DEF MasterRegisters, HandlerReceives
  <2> QED BY <2>1, <2>2
<1> QED BY <1>1, <1>2, ConfirmationStays

LEMMA ClientLosesStepOnlyBy ==
  ASSUME PathTypeOK, ToClient, Confirmation, LosesStepOnlyBy, ClientNext PROVE LosesStepOnlyBy'
<1>0. /\ wire["toClient"] \in Seq(Fields) /\ client.need \in Seq(Fields)
      /\ DOMAIN client = {"at", "need", "result"} /\ trouble' = trouble
  BY ClientStreams DEF PathTypeOK, ClientType, Streams, history
<1>1. ASSUME Listening, trouble \intersect {"overlap", "truncated"} = {}, wire["toClient"] # <<>>
      PROVE  /\ client.need = <<>> => wire["toClient"][1] \in Opcodes
             /\ client.need # <<>> => Kind(wire["toClient"][1]) = client.need[1]
  <2>1. PICK v \in Seq(Fields) : Follows(wire["toClient"] \o v, client.need)
    BY <1>1, SomethingAhead DEF Clean
  <2> QED BY <1>0, <1>1, <2>1, FieldOff
<1>2. wire["toClient"] # <<>> => Head(wire["toClient"]) = wire["toClient"][1]
  BY <1>0, Rest
<1>3. client.need # <<>> => Head(client.need) = client.need[1]
  BY <1>0, Rest
<1>4. CASE ClientSubmits \/ ClientDrifts
  <2>1. client'.result = client.result /\ (client'.at = "lost" => client.at = "lost")
    BY <1>0, <1>4 DEF ClientSubmits, ClientDrifts
  <2> QED BY <1>0, <2>1 DEF LosesStepOnlyBy
<1>5. CASE ClientConfirms
  <2>1. /\ client.at = "confirm" /\ wire["toClient"] # <<>> /\ client'.at \in {"listen", "done"}
        /\ client'.result = client.result \/ wire["toClient"][1] # "CONFIRM"
    BY <1>0, <1>2, <1>5 DEF ClientConfirms
  <2>2. wire["toClient"][1] # "CONFIRM" => trouble \intersect {"overtaken", "overlap"} # {}
    BY <2>1 DEF Confirmation
  <2> QED BY <1>0, <2>1, <2>2 DEF LosesStepOnlyBy
<1>6. CASE ClientListens
  <2>1. /\ client.at = "listen" /\ client.need = <<>> /\ wire["toClient"] # <<>>
        /\ client'.result = client.result
        /\ client'.at = "lost" => wire["toClient"][1] \notin {"READ_MESSAGE", "RESULT"}
    BY <1>0, <1>2, <1>6 DEF ClientListens
  <2>2. wire["toClient"][1] # "CONFIRM"
    <3>1. 1 \in 1 .. Len(wire["toClient"])
      BY <1>0, <2>1, Rest
    <3> QED BY <2>1, <3>1 DEF Confirmation
  <2> QED BY <1>0, <1>1, <2>1, <2>2 DEF LosesStepOnlyBy, Listening, Opcodes
<1>7. CASE ClientReadsField
  <2>1. /\ client.at \in {"listen", "result"} /\ client.need # <<>> /\ wire["toClient"] # <<>>
        /\ client'.at = "lost" => Kind(wire["toClient"][1]) # client.need[1]
        /\ client'.result \in {client.result, wire["toClient"][1]}
    BY <1>0, <1>2, <1>3, <1>7 DEF ClientReadsField
  <2>2. wire["toClient"][1] # "unconfirmed"
    <3>1. wire["toClient"][1] \in Fields
      BY <1>0, <2>1, Rest
    <3> QED BY <3>1 DEF Fields
  <2> QED BY <1>0, <1>1, <2>1, <2>2 DEF LosesStepOnlyBy, Listening
<1> QED BY <1>4, <1>5, <1>6, <1>7 DEF ClientNext

-----------------------------------------------------------------------------
(***************************************************************************)
(* The invariant                                                           *)
(***************************************************************************)
LEMMA WorkerStreams ==
  ASSUME PathTypeOK, StorageStream, Reports,
         WorkerMoves \/ WorkerListens \/ WorkerSends \/ WorkerDies
  PROVE  /\ wire'["toClient"] = wire["toClient"] /\ wire'["toMaster"] = wire["toMaster"]
         /\ UNCHANGED <<client, master, trouble>>
<1>0. /\ wire \in [Streams -> Seq(Fields)] /\ "toClient" \in Streams /\ "toMaster" \in Streams
      /\ worker.sending # <<>> => worker.sending[1] \in {"toStorage", "toHandler"}
  BY SendingKnown DEF PathTypeOK, Streams
<1>1. UNCHANGED <<client, master, trouble>>
  BY DEF WorkerMoves, WorkerListens, WorkerConnects, WorkerFetches, WorkerFinishes, WorkerRequests,
         WorkerGoesOn, WorkerRegisters, WorkerRegistered, WorkerTakesPath, WorkerHears,
         WorkerHearsNothing, WorkerSends, WorkerDies, history
<1>2. CASE WorkerMoves
  <2>1. wire' = wire
    BY <1>2 DEF WorkerMoves, WorkerConnects, WorkerFetches, WorkerFinishes, WorkerRequests,
                WorkerGoesOn
  <2> QED BY <1>1, <2>1
<1>3. ASSUME NEW v \in Streams \ {"toClient", "toMaster"}, NEW s, wire' = [wire EXCEPT ![v] = s]
      PROVE  wire'["toClient"] = wire["toClient"] /\ wire'["toMaster"] = wire["toMaster"]
  BY <1>0, <1>3
<1>4. CASE WorkerListens
  <2>1. \/ wire' = wire
        \/ \E s : wire' = [wire EXCEPT !["fromStorage"] = s]
        \/ \E s : wire' = [wire EXCEPT !["toWorker"] = s]
    <3>1. CASE WorkerRegisters
      BY <3>1 DEF WorkerRegisters
    <3>2. CASE WorkerRegistered
      BY <3>2 DEF WorkerRegistered
    <3>3. CASE WorkerTakesPath
      BY <3>3 DEF WorkerTakesPath
    <3>4. CASE WorkerHears
      BY <3>4 DEF WorkerHears
    <3>5. CASE WorkerHearsNothing
      BY <3>5 DEF WorkerHearsNothing
    <3> QED BY <1>4, <3>1, <3>2, <3>3, <3>4, <3>5 DEF WorkerListens
  <2>2. {"fromStorage", "toWorker"} \subseteq Streams \ {"toClient", "toMaster"}
    BY DEF Streams
  <2> QED BY <1>1, <1>3, <2>1, <2>2
<1>5. CASE WorkerSends \/ WorkerDies
  <2>1. wire' = wire \/ (worker.sending # <<>> /\ \E s : wire' = [wire EXCEPT ![worker.sending[1]] = s])
    <3>1. CASE WorkerSends
      BY <3>1 DEF WorkerSends, Sent
    <3>2. CASE WorkerDies
      BY <3>2 DEF WorkerDies, Sent
    <3> QED BY <1>5, <3>1, <3>2
  <2>2. {"toStorage", "toHandler"} \subseteq Streams \ {"toClient", "toMaster"}
    BY DEF Streams
  <2> QED BY <1>0, <1>1, <1>3, <2>1, <2>2
<1> QED BY <1>1, <1>2, <1>4, <1>5

LEMMA StorageStreams ==
  ASSUME PathTypeOK, StorageStream, StorageNext \/ StorageEnds
  PROVE  /\ \A v \in Streams \ {"toStorage", "fromStorage"} : wire'[v] = wire[v]
         /\ UNCHANGED <<client, master, worker, trouble, astray>>
<1>0. /\ wire \in [Streams -> Seq(Fields)] /\ "toStorage" \in Streams /\ "fromStorage" \in Streams
  BY DEF PathTypeOK, Streams
<1>1. CASE StorageAccepts
  <2>1. \/ \E s : wire' = [wire EXCEPT !["toStorage"] = s]
        \/ \E s : wire' = [Sent("fromStorage", protocol_send_storage_handshake_ok)
                             EXCEPT !["toStorage"] = s]
    BY <1>1 DEF StorageAccepts
  <2>2. UNCHANGED <<client, master, worker, trouble, astray>>
    BY <1>1 DEF StorageAccepts, history
  <2> QED BY <1>0, <2>1, <2>2 DEF Sent
<1>2. CASE StorageServes
  <2>1. \/ \E s : wire' = [wire EXCEPT !["toStorage"] = s]
        \/ \E s, u : wire' = [Sent("fromStorage", u) EXCEPT !["toStorage"] = s]
    BY <1>2 DEF StorageServes
  <2>2. astray' = astray
    BY <1>2, StorageHears DEF StorageServes
  <2>3. UNCHANGED <<client, master, worker, trouble>>
    BY <1>2 DEF StorageServes
  <2> QED BY <1>0, <2>1, <2>2, <2>3 DEF Sent
<1>3. CASE StorageEnds
  BY <1>0, <1>3 DEF StorageEnds, history
<1> QED BY <1>1, <1>2, <1>3 DEF StorageNext

LEMMA HandlerStreamStays ==
  ASSUME HandlerStream, UNCHANGED <<worker, handler>>, out'["handler"] = out["handler"],
         wire'["toHandler"] = wire["toHandler"], wire'["toWorker"] = wire["toWorker"]
  PROVE  HandlerStream'
BY DEF HandlerStream, Gone

LEMMA OutcomesStay ==
  ASSUME Outcomes, UNCHANGED <<client, session, handler, monitor, out, worker, wire, unmet, cut>>
  PROVE  Outcomes'
BY DEF Outcomes, Finished, Settled, Blamed, Told, Unheeded, Gone

LEMMA PathInvInit ==
  ASSUME Init PROVE PathInv
<1>0. /\ wire \in [Streams -> Seq(Fields)] /\ \A w \in Streams : wire[w] = <<>>
      /\ out \in [Threads -> Seq(Fields)] /\ \A t \in Threads : out[t] = <<>>
      /\ Threads = {"admission", "handler", "monitor"}
      /\ Streams = {"toMaster", "toClient", "toWorker", "toHandler", "toStorage", "fromStorage"}
  BY EmptySeq DEF Init, Streams, Threads
<1>1. PathTypeOK
  <2>1. /\ <<>> \in Seq(Fields) /\ <<>> \in Seq(Requests(worker.ins))
    BY EmptySeq
  <2>2. client.need = <<>> /\ worker.todo = <<>> /\ worker.done = 0
    BY DEF Init
  <2> QED BY <1>0, <2>1, <2>2 DEF Init, PathTypeOK, ClientType, MasterType, WorkerType
<1>2. StorageStream /\ Heeded
  BY <1>0 DEF Init, StorageStream, Quiet, Heeded, Unheeded
<1>3. HandlerStream /\ Reports /\ WorkerStream
  <2>1. Len(<<>>) = 0
    OBVIOUS
  <2> QED BY <1>0, <2>1 DEF Init, HandlerStream, Reports, WorkerStream, PathPending
<1>4. Outcomes
  <2>1. Len(<<>>) = 0
    OBVIOUS
  <2>2. ~Finished /\ ~Blamed
    BY <1>0, <2>1 DEF Init, Finished, Blamed, Told
  <2> QED BY <2>2 DEF Init, Outcomes
<1>5. Outs
  <2>1. Len(<<>>) = 0
    OBVIOUS
  <2> QED BY <1>0, <2>1 DEF Init, Outs
<1>6. ToClient
  BY DEF Init, ToClient, Listening
<1>7. Confirmation
  <2>1. Confirms(<<>>) = {}
    BY DEF Confirms
  <2> QED BY <1>0, <2>1 DEF Init, Confirmation
<1>8. astray = {} /\ LosesStepOnlyBy
  BY DEF Init, LosesStepOnlyBy
<1> QED BY <1>1, <1>2, <1>3, <1>4, <1>5, <1>6, <1>7, <1>8 DEF PathInv

LEMMA ClientKeeps ==
  ASSUME PathInv, ClientNext PROVE PathInv'
<1>0. /\ PathTypeOK /\ StorageStream /\ Heeded /\ HandlerStream /\ Reports /\ WorkerStream
      /\ Outcomes /\ Outs /\ ToClient /\ Confirmation /\ astray = {} /\ LosesStepOnlyBy
  BY DEF PathInv
<1>1. /\ UNCHANGED <<session, handler, monitor, out, worker, storage, unmet, cut, trouble, astray>>
      /\ wire'["toHandler"] = wire["toHandler"] /\ wire'["toWorker"] = wire["toWorker"]
      /\ wire'["toStorage"] = wire["toStorage"] /\ wire'["fromStorage"] = wire["fromStorage"]
  BY <1>0, ClientStreams DEF master, history, Streams
<1>2. PathTypeOK'
  BY <1>0, ClientTypes
<1>3. StorageStream' /\ Heeded'
  BY <1>0, <1>1, StorageStreamStays, HeededStays
<1>4. HandlerStream'
  BY <1>0, <1>1, HandlerStreamStays
<1>5. Reports' /\ WorkerStream'
  BY <1>0, <1>1, WorkerStreamStays DEF Reports
<1>6. Outcomes' /\ Outs'
  BY <1>0, <1>1, ClientKeepsOutcomes, OutsStay
<1>7. ToClient' /\ Confirmation' /\ LosesStepOnlyBy'
  BY <1>0, ClientKeepsToClient, ClientKeepsConfirmation, ClientLosesStepOnlyBy
<1> QED BY <1>0, <1>1, <1>2, <1>3, <1>4, <1>5, <1>6, <1>7 DEF PathInv

LEMMA StepBlameless ==
  ASSUME LosesStepOnlyBy, UNCHANGED client, trouble \subseteq trouble' PROVE LosesStepOnlyBy'
BY DEF LosesStepOnlyBy

LEMMA MasterKeeps ==
  ASSUME PathInv, MasterNext PROVE PathInv'
<1>0. /\ PathTypeOK /\ StorageStream /\ Heeded /\ HandlerStream /\ Reports /\ WorkerStream
      /\ Outcomes /\ Outs /\ ToClient /\ Confirmation /\ astray = {} /\ LosesStepOnlyBy
  BY DEF PathInv
<1>1. /\ UNCHANGED <<client, worker, storage, unmet, cut>>
      /\ wire'["toStorage"] = wire["toStorage"] /\ wire'["fromStorage"] = wire["fromStorage"]
  BY <1>0, MasterStreams DEF Streams
<1>2. trouble \subseteq trouble'
  BY DEF MasterNext, MasterAdmits, SchedulerAssigns, HandlerTruncates, HandlerCloses, HandlerEnds,
         MonitorFinds, MonitorRemoves, MonitorCloses, WritesOut, MasterWrites, WriteFails, history
<1>3. PathTypeOK'
  BY <1>0, MasterTypes
<1>4. StorageStream' /\ Heeded'
  BY <1>0, <1>1, StorageStreamStays, HeededStays
<1>5. HandlerStream' /\ WorkerStream'
  BY <1>0, MasterKeepsStreams
<1>6. Reports' /\ LosesStepOnlyBy'
  BY <1>0, <1>1, <1>2, StepBlameless DEF Reports
<1>7. Outcomes' /\ Outs'
  BY <1>0, MasterKeepsOutcomes, MasterKeepsOuts
<1>8. ToClient' /\ Confirmation' /\ astray' = astray
  BY <1>0, MasterKeepsToClient, MasterKeepsConfirmation
<1> QED BY <1>0, <1>3, <1>4, <1>5, <1>6, <1>7, <1>8 DEF PathInv

LEMMA HandlerKeeps ==
  ASSUME PathInv, MasterRegisters \/ HandlerReceives PROVE PathInv'
<1>0. /\ PathTypeOK /\ StorageStream /\ Heeded /\ HandlerStream /\ Reports /\ WorkerStream
      /\ Outcomes /\ Outs /\ ToClient /\ Confirmation /\ astray = {} /\ LosesStepOnlyBy
  BY DEF PathInv
<1>1. /\ UNCHANGED <<client, worker, storage, unmet, trouble>>
      /\ wire'["toStorage"] = wire["toStorage"] /\ wire'["fromStorage"] = wire["fromStorage"]
  BY <1>0, HandlerStreams DEF Streams
<1>2. PathTypeOK'
  BY <1>0, HandlerTypes
<1>3. StorageStream' /\ Heeded'
  BY <1>0, <1>1, StorageStreamStays, HeededStays
<1>4. HandlerStream' /\ WorkerStream' /\ astray' = astray
  BY <1>0, HandlerKeepsStreams
<1>5. Reports' /\ LosesStepOnlyBy'
  BY <1>0, <1>1, StepBlameless DEF Reports
<1>6. Outcomes' /\ Outs' /\ ToClient' /\ Confirmation'
  BY <1>0, HandlerKeepsOutcomes, HandlerKeepsOuts, HandlerKeepsToClient, HandlerKeepsConfirmation
<1> QED BY <1>0, <1>2, <1>3, <1>4, <1>5, <1>6 DEF PathInv

LEMMA WorkerKeeps ==
  ASSUME PathInv, WorkerMoves \/ WorkerListens \/ WorkerSends \/ WorkerDies PROVE PathInv'
<1>0. /\ PathTypeOK /\ StorageStream /\ Heeded /\ HandlerStream /\ Reports /\ WorkerStream
      /\ Outcomes /\ Outs /\ ToClient /\ Confirmation /\ astray = {} /\ LosesStepOnlyBy
  BY DEF PathInv
<1>1. /\ UNCHANGED <<client, session, handler, monitor, out, trouble>>
      /\ wire'["toClient"] = wire["toClient"] /\ wire'["toMaster"] = wire["toMaster"]
  BY <1>0, WorkerStreams DEF master
<1>2. PathTypeOK' /\ StorageStream' /\ Heeded' /\ Reports'
  BY <1>0, WorkerTypes, WorkerKeepsStorageStream, WorkerHeeds, ReportsKept
<1>3. HandlerStream' /\ WorkerStream' /\ astray' = astray
  BY <1>0, WorkerKeepsHandlerStream, WorkerKeepsWorkerStream
<1>4. Outcomes' /\ Outs'
  BY <1>0, <1>1, WorkerKeepsOutcomes, OutsStay
<1>5. ToClient' /\ Confirmation' /\ LosesStepOnlyBy'
  BY <1>0, <1>1, ToClientStays, ConfirmationStays, StepBlameless
<1> QED BY <1>0, <1>2, <1>3, <1>4, <1>5 DEF PathInv

LEMMA StorageKeeps ==
  ASSUME PathInv, StorageNext \/ StorageEnds PROVE PathInv'
<1>0. /\ PathTypeOK /\ StorageStream /\ Heeded /\ HandlerStream /\ Reports /\ WorkerStream
      /\ Outcomes /\ Outs /\ ToClient /\ Confirmation /\ astray = {} /\ LosesStepOnlyBy
  BY DEF PathInv
<1>1. /\ UNCHANGED <<client, session, handler, monitor, out, worker, trouble, astray>>
      /\ wire'["toClient"] = wire["toClient"] /\ wire'["toMaster"] = wire["toMaster"]
      /\ wire'["toHandler"] = wire["toHandler"] /\ wire'["toWorker"] = wire["toWorker"]
  BY <1>0, StorageStreams DEF master, Streams
<1>2. PathTypeOK' /\ StorageStream' /\ Heeded'
  BY <1>0, StorageTypes, StorageKeepsStream, StorageHeeds
<1>3. HandlerStream' /\ WorkerStream' /\ Reports'
  BY <1>0, <1>1, HandlerStreamStays, WorkerStreamStays DEF Reports
<1>4. Outcomes' /\ Outs'
  BY <1>0, <1>1, StorageKeepsOutcomes, OutsStay
<1>5. ToClient' /\ Confirmation' /\ LosesStepOnlyBy'
  BY <1>0, <1>1, ToClientStays, ConfirmationStays, StepBlameless
<1> QED BY <1>0, <1>1, <1>2, <1>3, <1>4, <1>5 DEF PathInv

LEMMA PathInvKept ==
  ASSUME PathInv, [Next]_vars PROVE PathInv'
<1>1. CASE ClientNext
  BY <1>1, ClientKeeps
<1>2. CASE MasterNext
  BY <1>2, MasterKeeps
<1>3. CASE MasterRegisters \/ HandlerReceives
  BY <1>3, HandlerKeeps
<1>4. CASE WorkerMoves \/ WorkerListens \/ WorkerSends \/ WorkerDies
  BY <1>4, WorkerKeeps
<1>5. CASE StorageNext \/ StorageEnds
  BY <1>5, StorageKeeps
<1>6. CASE UNCHANGED vars
  <2>0. /\ PathTypeOK /\ StorageStream /\ Heeded /\ HandlerStream /\ Reports /\ WorkerStream
        /\ Outcomes /\ Outs /\ ToClient /\ Confirmation /\ astray = {} /\ LosesStepOnlyBy
    BY DEF PathInv
  <2>1. UNCHANGED <<client, session, handler, monitor, out, worker, storage, wire,
                    unmet, cut, trouble, astray>>
    BY <1>6 DEF vars
  <2>2. PathTypeOK'
    BY <2>0, <2>1 DEF PathTypeOK, ClientType, MasterType, WorkerType
  <2>3. StorageStream' /\ Heeded' /\ HandlerStream' /\ Reports' /\ WorkerStream'
    BY <2>0, <2>1, StorageStreamStays, HeededStays, HandlerStreamStays, WorkerStreamStays DEF Reports
  <2>4. Outcomes' /\ Outs'
    BY <2>0, <2>1, OutcomesStay, OutsStay
  <2>5. ToClient' /\ Confirmation' /\ LosesStepOnlyBy'
    BY <2>0, <2>1, ToClientStays, ConfirmationStays, StepBlameless
  <2> QED BY <2>0, <2>1, <2>2, <2>3, <2>4, <2>5 DEF PathInv
<1>7. Next => \/ ClientNext \/ MasterNext \/ MasterRegisters \/ HandlerReceives
              \/ WorkerMoves \/ WorkerListens \/ WorkerSends \/ WorkerDies
              \/ StorageNext \/ StorageEnds
  BY DEF Next, AdmissionNext, HandlerNext, MonitorNext, WorkerNext, MasterNext, WorkerMoves,
         WorkerListens, Threads
<1> QED BY <1>1, <1>2, <1>3, <1>4, <1>5, <1>6, <1>7

\* What is on every stream fits the places of its two ends, in every order in
\* which Query Control, the Master, the Worker and Storage act, and die.
THEOREM PathHolds == Spec => []PathInv
<1>1. Init => PathInv
  BY PathInvInit
<1>2. PathInv /\ [Next]_vars => PathInv'
  BY PathInvKept
<1> QED BY <1>1, <1>2, PTL DEF Spec

\* Senders and receivers agree on every field of the streams between Worker,
\* Storage and Master, wherever a death cuts a frame, and no byte of an earlier
\* answer of Storage is left when the Worker sends it a request.
THEOREM StaysInStep == Spec => []InStepAndAnswered
<1>1. PathInv => InStepAndAnswered
  <2> SUFFICES ASSUME PathInv PROVE InStepAndAnswered
    OBVIOUS
  <2>1. astray = {} /\ StorageStream
    BY DEF PathInv
  <2>2. worker.at = "wait" /\ worker.sending # <<>> => wire["fromStorage"] = <<>>
    BY <2>1 DEF StorageStream, AtWait, Quiet
  <2> QED BY <2>1, <2>2 DEF InStepAndAnswered
<1> QED BY <1>1, PathHolds, PTL

\* A cut frame is acted upon only where its reader cannot notice, and a query of
\* which this happened never ends with SUCCESS.
THEOREM CutsHarmless == Spec => []CutFrames
<1>1. PathInv => CutFrames
  <2> SUFFICES ASSUME PathInv PROVE CutFrames
    OBVIOUS
  <2>1. Outcomes
    BY DEF PathInv
  <2>2. client.result = "SUCCESS" => cut = {}
    BY <2>1 DEF Outcomes, Finished, Told, Settled
  <2> QED BY <2>1, <2>2 DEF Outcomes, CutFrames
<1> QED BY <1>1, PathHolds, PTL

\* Query Control takes a field for another, or misses its CONFIRM, only after
\* threads of the Master wrote over each other or a READ message was truncated.
THEOREM StepLostOnlyThen == Spec => []LosesStepOnlyBy
<1>1. PathInv => LosesStepOnlyBy
  BY DEF PathInv
<1> QED BY <1>1, PathHolds, PTL

\* The result that reaches Query Control says what Storage did: SUCCESS that it
\* carried out every request the Worker heeds, ERROR that it refused some or that
\* the Worker died.
THEOREM OutcomeIsTrue == Spec => []OutcomeMatchesStorage
<1>1. PathInv => OutcomeMatchesStorage
  <2> SUFFICES ASSUME PathInv PROVE OutcomeMatchesStorage
    OBVIOUS
  <2>1. Outcomes
    BY DEF PathInv
  <2>2. client.result = "SUCCESS" => unmet = Unheeded
    BY <2>1 DEF Outcomes, Finished, Told, Settled
  <2>3. client.result = "ERROR" => unmet # {} \/ Gone
    BY <2>1 DEF Outcomes, Blamed, Told
  <2> QED BY <2>2, <2>3 DEF OutcomeMatchesStorage
<1> QED BY <1>1, PathHolds, PTL
=============================================================================
