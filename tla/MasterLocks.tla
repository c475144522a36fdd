----------------------------- MODULE MasterLocks -----------------------------
(***************************************************************************)
(* The locks of the Master (master/src/main.c, connections.c) and the      *)
(* order in which its threads take them.  Only locking is kept: a section  *)
(* is the list of acquisitions and releases of one critical section, and a *)
(* thread runs the sections of its loop in any order, for ever.            *)
(*                                                                         *)
(* Locks are initialised with default attributes: a reader enters unless a *)
(* writer is inside (glibc prefers readers), a writer when it is empty.    *)
(***************************************************************************)
EXTENDS Naturals, Sequences

CONSTANTS
  Handlers,    \* threads of handle_client_thread
  Preemptive,  \* SCHEDULER = PRIORIDADES (else FIFO)
  SendFails    \* whether a send to a Worker may fail

ASSUME LocksAssumption == Preemptive \in BOOLEAN /\ SendFails \in BOOLEAN

Locks == {"sessions", "workers", "scheduler", "clients"}
Threads == {"scheduler", "aging", "watchdog", "monitor"} \cup Handlers

VARIABLES
  held,   \* held[l][t]: how thread t holds lock l, "no", "rd" or "wr"
  todo    \* todo[t]: the rest of the section t is in

vars == <<held, todo>>

rd(l) == [op |-> "rd", lock |-> l]
wr(l) == [op |-> "wr", lock |-> l]
un(l) == [op |-> "un", lock |-> l]

Signal == <<wr("scheduler"), un("scheduler")>>
Write(l) == <<wr(l), un(l)>>
Read(l) == <<rd(l), un(l)>>

\* scheduler_priority_thread
Wait == Signal
Snapshot == <<rd("sessions"), rd("workers"), un("workers"), un("sessions")>>
ChooseVictim == <<rd("sessions"), rd("workers"), un("workers"), un("sessions")>>
EvictSession == Write("sessions") \o Write("workers") \o Signal
SearchIdle == Read("workers")
\* Variant: the locks in the other order.
AssignSessionsFirst ==
  <<wr("sessions"), wr("workers"), un("workers"), un("sessions")>>
Assign == <<wr("workers"), wr("sessions"), un("sessions"), un("workers")>>
Revert == <<wr("sessions"), wr("workers"), un("workers"), un("sessions")>>

PrioritySections ==
  {Wait, Snapshot, ChooseVictim, EvictSession, SearchIdle, Assign}
    \cup (IF SendFails THEN {Revert} ELSE {})

\* Variant: the Worker is taken while the sessions are still locked.
FifoNested ==
  {<<wr("sessions")>> \o Write("workers") \o <<un("sessions")>>}

\* scheduler_thread never holds two locks.
FifoSections == {Read("sessions"), Write("workers"), Write("sessions")}

\* aging_thread signals before it releases the sessions.
AgingSections ==
  {<<wr("sessions")>> \o Signal \o <<un("sessions")>>, Write("sessions")}

\* watchdog_thread: the second phase reads the sessions under the Workers lock.
WatchdogSections ==
  {Read("sessions"),
   <<wr("workers")>> \o Read("sessions") \o <<un("workers")>>}

\* handle_client_thread: one lock at a time.
Admit == Write("sessions") \o Signal
Enrol == Write("workers") \o Signal
\* Variant: an early return between the lookup and its unlock.
EndOfQueryReturnsEarly == <<rd("sessions")>>
EndOfQuery == Read("sessions") \o Write("workers") \o Signal \o Write("sessions")
EvictAck == Read("sessions") \o Write("sessions") \o Write("workers") \o Signal
HandlerSections == {Admit, Enrol, EndOfQuery, EvictAck}

\* check_connections_thread keeps the list of clients locked during its pass.
MonitorSections ==
  {<<wr("clients")>> \o Read("workers") \o <<un("clients")>>,
   <<wr("clients")>> \o Read("workers") \o Read("sessions") \o Write("workers")
     \o Write("sessions") \o <<un("clients")>>}

Sections(t) ==
  CASE t = "scheduler" -> IF Preemptive THEN PrioritySections ELSE FifoSections
    [] t = "aging" -> IF Preemptive THEN AgingSections ELSE {}
    [] t = "watchdog" -> WatchdogSections
    [] t = "monitor" -> MonitorSections
    [] OTHER -> HandlerSections

Init ==
  /\ held = [l \in Locks |-> [t \in Threads |-> "no"]]
  /\ todo = [t \in Threads |-> <<>>]

\* Who keeps t from taking the lock its next operation asks for.
InTheWay(t) ==
  IF todo[t] = <<>> THEN {}
  ELSE LET o == Head(todo[t]) IN
       CASE o.op = "rd" -> {u \in Threads \ {t} : held[o.lock][u] = "wr"}
         [] o.op = "wr" -> {u \in Threads : held[o.lock][u] # "no"}
         [] OTHER -> {}

Begin(t) ==
  /\ todo[t] = <<>>
  /\ \E s \in Sections(t) : todo' = [todo EXCEPT ![t] = s]
  /\ UNCHANGED held

Acquire(t) ==
  /\ todo[t] # <<>>
  /\ Head(todo[t]).op \in {"rd", "wr"}
  /\ InTheWay(t) = {}
  /\ held' = [held EXCEPT ![Head(todo[t]).lock][t] = Head(todo[t]).op]
  /\ todo' = [todo EXCEPT ![t] = Tail(@)]

Release(t) ==
  /\ todo[t] # <<>>
  /\ Head(todo[t]).op = "un"
  /\ held' = [held EXCEPT ![Head(todo[t]).lock][t] = "no"]
  /\ todo' = [todo EXCEPT ![t] = Tail(@)]

Next == \E t \in Threads : Begin(t) \/ Acquire(t) \/ Release(t)

Spec == Init /\ [][Next]_vars

-----------------------------------------------------------------------------
TypeOK ==
  /\ held \in [Locks -> [Threads -> {"no", "rd", "wr"}]]
  /\ \A t \in Threads :
       \E s \in Sections(t) \cup {<<>>} :
         \E i \in 0 .. Len(s) : todo[t] = SubSeq(s, i + 1, Len(s))

\* No path through a critical section forgets a release: a thread between two
\* sections holds nothing.
NothingHeldBetweenSections ==
  \A l \in Locks, t \in Threads : todo[t] = <<>> => held[l][t] = "no"

\* No set of threads waits in a circle: in any group some thread is not waiting
\* for another of the group.
NoCircularWait ==
  \A group \in (SUBSET Threads) \ {{}} :
    \E t \in group : InTheWay(t) \cap group = {}
=============================================================================
