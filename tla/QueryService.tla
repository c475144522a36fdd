---------------------------- MODULE QueryService ----------------------------
(***************************************************************************)
(* What the system promises to the Query Controls: the life of a query as  *)
(* they could know it, without threads, sockets, locks or messages.        *)
(*                                                                         *)
(* Spec is promised whatever is evicted, crashes or leaves.  CalmSpec is   *)
(* promised while queries have one priority and nothing fails.             *)
(***************************************************************************)
EXTENDS Integers, Sequences

CONSTANTS
  NQ,         \* the number of queries that may be submitted, ids 0 .. NQ-1
  Servers,    \* what executes queries
  NoServer,   \* none of them
  Length      \* the number of instructions of a script

Ids == 0 .. NQ - 1

VARIABLES
  phase,      \* "unknown", "waiting", "executing" or "closed", by query
  server,     \* who is in charge of an executing query
  done,       \* how many instructions of the query were executed
  answers,    \* the final results its client was sent
  left        \* whether its client has left

svars == <<phase, server, done, answers, left>>

Init ==
  /\ phase = [q \in Ids |-> "unknown"]
  /\ server = [q \in Ids |-> NoServer]
  /\ done = [q \in Ids |-> 0]
  /\ answers = [q \in Ids |-> <<>>]
  /\ left = [q \in Ids |-> FALSE]

\* Ids are given in order.
Submit(q) ==
  /\ phase[q] = "unknown"
  /\ \A p \in Ids : p < q => phase[p] # "unknown"
  /\ phase' = [phase EXCEPT ![q] = "waiting"]
  /\ UNCHANGED <<server, done, answers, left>>

Start(q, s) ==
  /\ phase[q] = "waiting"
  /\ phase' = [phase EXCEPT ![q] = "executing"]
  /\ server' = [server EXCEPT ![q] = s]
  /\ UNCHANGED <<done, answers, left>>

\* The query is evicted, or could not be handed over.
Yield(q) ==
  /\ phase[q] = "executing"
  /\ phase' = [phase EXCEPT ![q] = "waiting"]
  /\ server' = [server EXCEPT ![q] = NoServer]
  /\ UNCHANGED <<done, answers, left>>

\* Instructions are executed in the order of the script, none is skipped.
Execute(q) ==
  /\ done' = [done EXCEPT ![q] = @ + 1]
  /\ UNCHANGED <<phase, server, answers, left>>

Report(q, result) ==
  /\ phase[q] # "unknown"
  /\ answers' = [answers EXCEPT ![q] = Append(@, result)]
  /\ UNCHANGED <<phase, server, done, left>>

\* A query is closed once its client was answered or has left, and for good.
Close(q) ==
  /\ phase[q] \in {"waiting", "executing"}
  /\ answers[q] # <<>> \/ left[q]
  /\ phase' = [phase EXCEPT ![q] = "closed"]
  /\ server' = [server EXCEPT ![q] = NoServer]
  /\ UNCHANGED <<done, answers, left>>

Leave(q) ==
  /\ phase[q] # "unknown"
  /\ left' = [left EXCEPT ![q] = TRUE]
  /\ UNCHANGED <<phase, server, done, answers>>

Next ==
  \E q \in Ids :
    \/ Submit(q) \/ Yield(q) \/ Execute(q) \/ Close(q) \/ Leave(q)
    \/ \E s \in Servers : Start(q, s)
    \/ \E r \in {"FINISHED", "ERROR"} : Report(q, r)

Spec == Init /\ [][Next]_svars

\* Without evictions and failures a query is executed once, by one server that
\* serves no other until it is answered, up to its last instruction; then and
\* only then its client gets one result.
Serving(s) == {q \in Ids : server[q] = s /\ answers[q] = <<>>}

CalmNext ==
  \E q \in Ids :
    \/ Submit(q)
    \/ \E s \in Servers : Start(q, s) /\ Serving(s) = {}
    \/ Execute(q) /\ phase[q] = "executing" /\ done[q] < Length
    \/ Report(q, "FINISHED") /\ phase[q] = "executing" /\ done[q] = Length
                             /\ answers[q] = <<>>
    \/ Close(q)

CalmSpec == Init /\ [][CalmNext]_svars
=============================================================================
