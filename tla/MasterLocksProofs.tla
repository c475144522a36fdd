------------------------- MODULE MasterLocksProofs --------------------------
(***************************************************************************)
(* Theorems about MasterLocks, for any number of connection handlers.      *)
(***************************************************************************)
EXTENDS MasterLocks, SequenceTheorems, TLAPS

Acquisitions == {"rd", "wr"}
Ops == [op : Acquisitions \cup {"un"}, lock : Locks]

\* What thread t may ask for while it holds a lock: nobody else nests locks,
\* and nobody asks for a lock it holds.
MayAsk(t, has, asks) ==
  \/ t = "scheduler" /\ has = rd("sessions") /\ asks = rd("workers")
  \/ t = "scheduler" /\ has = wr("workers") /\ asks = wr("sessions")
  \/ t = "scheduler" /\ Preemptive /\ SendFails /\ has = wr("sessions") /\ asks = wr("workers")
  \/ t = "aging" /\ has = wr("sessions") /\ asks = wr("scheduler")
  \/ t = "watchdog" /\ has = wr("workers") /\ asks = rd("sessions")
  \/ t = "monitor" /\ has = wr("clients") /\ asks.lock \in {"sessions", "workers"}

\* Between the j-th operation of s and the i-th, no other is on its lock.
LastBefore(s, j, i) == \A k \in j + 1 .. i : s[k].lock # s[j].lock

\* A section releases what it acquires, and asks only for what it may; only
\* the monitor locks the list of clients.
Closed(s) == \A j \in 1 .. Len(s) : LastBefore(s, j, Len(s)) => s[j].op = "un"
Ordered(t, s) ==
  \A i \in 1 .. Len(s) : \A j \in 1 .. i - 1 :
    s[j].op \in Acquisitions /\ s[i].op \in Acquisitions /\ LastBefore(s, j, i - 1)
      => MayAsk(t, s[j], s[i])
Clients(t, s) == \A i \in 1 .. Len(s) : s[i].lock = "clients" => t = "monitor"
Good(t, s) == s \in Seq(Ops) /\ Closed(s) /\ Ordered(t, s) /\ Clients(t, s)

\* A section that has locked the clients and still holds nothing else.
Opened(s) ==
  /\ s \in Seq(Ops) /\ Len(s) >= 1 /\ s[1] = wr("clients")
  /\ \A i \in 2 .. Len(s) : s[i].lock # "clients"
  /\ \A j \in 2 .. Len(s) : LastBefore(s, j, Len(s)) => s[j].op = "un"
  /\ Ordered("monitor", s)

-----------------------------------------------------------------------------
(* Sections *)

LEMMA OpsOK == \A l \in Locks : rd(l) \in Ops /\ wr(l) \in Ops /\ un(l) \in Ops
BY DEF rd, wr, un, Ops, Acquisitions

\* Two sections, one after the other.
LEMMA GoodThen ==
  ASSUME NEW t, NEW s, NEW u, Good(t, s), Good(t, u) PROVE Good(t, s \o u)
<1> PICK n \in Nat : n = Len(s)
  BY DEF Good
<1> PICK m \in Nat : m = Len(u)
  BY DEF Good
<1> PICK z : z = s \o u
  OBVIOUS
<1>1. /\ z \in Seq(Ops) /\ Len(z) = n + m
      /\ \A i \in 1 .. n : z[i] = s[i]
      /\ \A i \in n + 1 .. n + m : z[i] = u[i - n] /\ i - n \in 1 .. m
  BY DEF Good
<1>2. ASSUME NEW j \in 1 .. n, NEW i \in n .. n + m, LastBefore(z, j, i) PROVE s[j].op = "un"
  <2>1. \A k \in j + 1 .. n : s[k].lock # s[j].lock
    BY <1>1, <1>2 DEF LastBefore
  <2>2. QED
    BY <2>1 DEF Good, Closed, LastBefore
<1>3. ASSUME NEW j \in n + 1 .. n + m, NEW i \in n .. n + m, LastBefore(z, j, i)
      PROVE  LastBefore(u, j - n, i - n)
  <2>1. ASSUME NEW k \in (j - n) + 1 .. i - n PROVE u[k].lock # u[j - n].lock
    <3>1. k + n \in j + 1 .. i /\ k + n \in n + 1 .. n + m /\ (k + n) - n = k
      OBVIOUS
    <3>2. z[k + n] = u[k] /\ z[j] = u[j - n]
      BY <1>1, <3>1
    <3>3. QED
      BY <1>3, <3>1, <3>2 DEF LastBefore
  <2>2. QED
    BY <2>1 DEF LastBefore
<1>4. Closed(z)
  <2>1. ASSUME NEW j \in n + 1 .. n + m, LastBefore(z, j, n + m) PROVE z[j].op = "un"
    <3>1. LastBefore(u, j - n, m)
      BY <1>3, <2>1
    <3>2. u[j - n].op = "un"
      BY <1>1, <3>1 DEF Good, Closed
    <3>3. QED
      BY <1>1, <3>2
  <2>2. ASSUME NEW j \in 1 .. n, LastBefore(z, j, n + m) PROVE z[j].op = "un"
    BY <1>1, <1>2, <2>2
  <2>3. QED
    BY <1>1, <2>1, <2>2 DEF Closed
<1>5. Ordered(t, z)
  <2>1. ASSUME NEW i \in 1 .. n + m, NEW j \in 1 .. i - 1,
               z[j].op \in Acquisitions, z[i].op \in Acquisitions, LastBefore(z, j, i - 1)
        PROVE  MayAsk(t, z[j], z[i])
    <3>1. CASE i <= n
      <4>1. LastBefore(s, j, i - 1)
        BY <1>1, <2>1, <3>1 DEF LastBefore
      <4>2. MayAsk(t, s[j], s[i])
        BY <1>1, <2>1, <3>1, <4>1 DEF Good, Ordered
      <4>3. QED
        BY <1>1, <3>1, <4>2
    <3>2. CASE i > n /\ j <= n
      <4>1. s[j].op = "un"
        BY <1>2, <2>1, <3>2
      <4>2. QED
        BY <1>1, <2>1, <3>2, <4>1 DEF Acquisitions
    <3>3. CASE i > n /\ j > n
      <4> PICK a \in 1 .. m : a = i - n
        BY <3>3
      <4>0. j - n \in 1 .. a - 1
        BY <3>3
      <4> PICK b \in 1 .. a - 1 : b = j - n
        BY <4>0
      <4>1. z[i] = u[a] /\ z[j] = u[b]
        BY <1>1, <3>3
      <4>2. LastBefore(u, b, a - 1)
        <5>1. ASSUME NEW k \in b + 1 .. a - 1 PROVE u[k].lock # u[b].lock
          <6>1. k + n \in j + 1 .. i - 1 /\ k + n \in n + 1 .. n + m /\ (k + n) - n = k
            OBVIOUS
          <6>2. z[k + n] = u[k]
            BY <1>1, <6>1
          <6>3. QED
            BY <2>1, <4>1, <6>1, <6>2 DEF LastBefore
        <5>2. QED
          BY <5>1 DEF LastBefore
      <4>3. Ordered(t, u)
        BY DEF Good
      <4>4. MayAsk(t, u[b], u[a])
        BY <2>1, <4>1, <4>2, <4>3 DEF Ordered
      <4>5. QED
        BY <4>1, <4>4
    <3>4. QED
      BY <3>1, <3>2, <3>3
  <2>2. QED
    BY <1>1, <2>1 DEF Ordered
<1>6. Clients(t, z)
  BY <1>1 DEF Good, Clients
<1>7. QED
  BY <1>1, <1>4, <1>5, <1>6 DEF Good

LEMMA GoodPairs ==
  ASSUME NEW t, NEW l \in Locks, l # "clients"
  PROVE  Good(t, Read(l)) /\ Good(t, Write(l)) /\ Good(t, Signal)
<1> USE OpsOK DEF Good, Closed, Ordered, Clients, LastBefore, Acquisitions
<1>1. Good(t, Read(l))
  BY DEF Read, rd, un, Ops
<1>2. Good(t, Write(l))
  BY DEF Write, wr, un, Ops
<1>3. Good(t, Signal)
  BY DEF Signal, wr, un, Ops, Locks
<1>4. QED
  BY <1>1, <1>2, <1>3

\* Two nested locks.
LEMMA GoodNests ==
  ASSUME NEW t, NEW a \in Ops, NEW b \in Ops, NEW s \in Seq(Ops),
         a.op \in Acquisitions, b.op \in Acquisitions, a.lock # b.lock,
         a.lock # "clients", b.lock # "clients", MayAsk(t, a, b),
         Len(s) = 4, s[1] = a, s[2] = b, s[3] = un(b.lock), s[4] = un(a.lock)
  PROVE  Good(t, s)
<1>1. /\ un(a.lock).op = "un" /\ un(a.lock).lock = a.lock
      /\ un(b.lock).op = "un" /\ un(b.lock).lock = b.lock
  BY DEF un
<1>2. Closed(s)
  BY <1>1 DEF Closed, LastBefore
<1>3. Ordered(t, s)
  BY <1>1 DEF Ordered, Acquisitions
<1>4. Clients(t, s)
  BY <1>1 DEF Clients
<1>5. QED
  BY <1>2, <1>3, <1>4 DEF Good

LEMMA NestedTuples ==
  ASSUME NEW a \in Ops, NEW b \in Ops, NEW c \in Ops, NEW d \in Ops, NEW s,
         s = <<a, b, c, d>> \/ s = <<a>> \o <<b, c>> \o <<d>>
  PROVE  s \in Seq(Ops) /\ Len(s) = 4 /\ s[1] = a /\ s[2] = b /\ s[3] = c /\ s[4] = d
<1>1. CASE s = <<a, b, c, d>>
  BY <1>1
<1>2. CASE s = <<a>> \o <<b, c>> \o <<d>>
  <2> PICK u : u = <<a>> \o <<b, c>>
    OBVIOUS
  <2>0. <<a>> \in Seq(Ops) /\ <<b, c>> \in Seq(Ops) /\ <<d>> \in Seq(Ops)
    OBVIOUS
  <2>1. u \in Seq(Ops) /\ Len(u) = 3 /\ u[1] = a /\ u[2] = b /\ u[3] = c
    BY <2>0
  <2>2. s = u \o <<d>>
    BY <1>2
  <2>3. QED
    BY <2>0, <2>1, <2>2
<1>3. QED
  BY <1>1, <1>2

\* The monitor's pass: sections on other locks, one after the other, with the
\* clients locked.
LEMMA OpenedThen ==
  ASSUME NEW s, NEW u, Opened(s), Good("monitor", u),
         \A i \in 1 .. Len(u) : u[i].lock \in {"sessions", "workers"}
  PROVE  Opened(s \o u)
<1> PICK n \in Nat : n = Len(s)
  BY DEF Opened
<1> PICK m \in Nat : m = Len(u)
  BY DEF Good
<1> PICK z : z = s \o u
  OBVIOUS
<1>1. /\ z \in Seq(Ops) /\ Len(z) = n + m /\ n >= 1
      /\ \A i \in 1 .. n : z[i] = s[i]
      /\ \A i \in n + 1 .. n + m : z[i] = u[i - n] /\ i - n \in 1 .. m
  BY DEF Good, Opened
<1>2. ASSUME NEW j \in 2 .. n, NEW i \in n .. n + m, LastBefore(z, j, i) PROVE s[j].op = "un"
  <2>1. \A k \in j + 1 .. n : s[k].lock # s[j].lock
    BY <1>1, <1>2 DEF LastBefore
  <2>2. QED
    BY <2>1 DEF Opened, LastBefore
<1>3. ASSUME NEW j \in n + 1 .. n + m, NEW i \in n .. n + m, LastBefore(z, j, i)
      PROVE  LastBefore(u, j - n, i - n)
  <2>1. ASSUME NEW k \in (j - n) + 1 .. i - n PROVE u[k].lock # u[j - n].lock
    <3>1. k + n \in j + 1 .. i /\ k + n \in n + 1 .. n + m /\ (k + n) - n = k
      OBVIOUS
    <3>2. z[k + n] = u[k] /\ z[j] = u[j - n]
      BY <1>1, <3>1
    <3>3. QED
      BY <1>3, <3>1, <3>2 DEF LastBefore
  <2>2. QED
    BY <2>1 DEF LastBefore
<1>4. ASSUME NEW j \in 2 .. n + m, LastBefore(z, j, n + m) PROVE z[j].op = "un"
  <2>1. CASE j <= n
    BY <1>1, <1>2, <1>4, <2>1
  <2>2. CASE j > n
    <3>1. LastBefore(u, j - n, m)
      BY <1>3, <1>4, <2>2
    <3>2. u[j - n].op = "un"
      BY <1>1, <2>2, <3>1 DEF Good, Closed
    <3>3. QED
      BY <1>1, <2>2, <3>2
  <2>3. QED
    BY <2>1, <2>2
<1>5. Ordered("monitor", z)
  <2>1. ASSUME NEW i \in 1 .. n + m, NEW j \in 1 .. i - 1,
               z[j].op \in Acquisitions, z[i].op \in Acquisitions, LastBefore(z, j, i - 1)
        PROVE  MayAsk("monitor", z[j], z[i])
    <3>1. CASE i <= n
      <4>1. LastBefore(s, j, i - 1)
        BY <1>1, <2>1, <3>1 DEF LastBefore
      <4>2. MayAsk("monitor", s[j], s[i])
        BY <1>1, <2>1, <3>1, <4>1 DEF Opened, Ordered
      <4>3. QED
        BY <1>1, <3>1, <4>2
    <3>2. CASE i > n /\ j = 1
      BY <1>1, <3>2 DEF Opened, MayAsk
    <3>3. CASE i > n /\ j <= n /\ j # 1
      <4>1. s[j].op = "un"
        BY <1>2, <2>1, <3>3
      <4>2. QED
        BY <1>1, <2>1, <3>3, <4>1 DEF Acquisitions
    <3>4. CASE i > n /\ j > n
      <4> PICK a \in 1 .. m : a = i - n
        BY <3>4
      <4>0. j - n \in 1 .. a - 1
        BY <3>4
      <4> PICK b \in 1 .. a - 1 : b = j - n
        BY <4>0
      <4>1. z[i] = u[a] /\ z[j] = u[b]
        BY <1>1, <3>4
      <4>2. LastBefore(u, b, a - 1)
        <5>1. ASSUME NEW k \in b + 1 .. a - 1 PROVE u[k].lock # u[b].lock
          <6>1. k + n \in j + 1 .. i - 1 /\ k + n \in n + 1 .. n + m /\ (k + n) - n = k
            OBVIOUS
          <6>2. z[k + n] = u[k]
            BY <1>1, <6>1
          <6>3. QED
            BY <2>1, <4>1, <6>1, <6>2 DEF LastBefore
        <5>2. QED
          BY <5>1 DEF LastBefore
      <4>3. Ordered("monitor", u)
        BY DEF Good
      <4>4. MayAsk("monitor", u[b], u[a])
        BY <2>1, <4>1, <4>2, <4>3 DEF Ordered
      <4>5. QED
        BY <4>1, <4>4
    <3>5. QED
      BY <3>1, <3>2, <3>3, <3>4
  <2>2. QED
    BY <1>1, <2>1 DEF Ordered
<1>6. z[1] = wr("clients") /\ \A i \in 2 .. n + m : z[i].lock # "clients"
  <2>1. \A i \in 2 .. n : z[i].lock # "clients"
    BY <1>1 DEF Opened
  <2>2. \A i \in n + 1 .. n + m : z[i].lock # "clients"
    BY <1>1
  <2>3. z[1] = wr("clients")
    BY <1>1 DEF Opened
  <2>4. QED
    BY <1>1, <2>1, <2>2, <2>3
<1>7. QED
  BY <1>1, <1>4, <1>5, <1>6 DEF Opened

LEMMA OpenedEnds == ASSUME NEW s, Opened(s) PROVE Good("monitor", s \o <<un("clients")>>)
<1> PICK n \in Nat : n = Len(s)
  BY DEF Opened
<1> PICK z : z = s \o <<un("clients")>>
  OBVIOUS
<1>1. /\ z \in Seq(Ops) /\ Len(z) = n + 1 /\ n >= 1
      /\ \A i \in 1 .. n : z[i] = s[i]
      /\ z[n + 1] = un("clients")
  BY OpsOK DEF Opened, Locks
<1>2. un("clients").op = "un" /\ un("clients").lock = "clients" /\ wr("clients").lock = "clients"
  BY DEF un, wr
<1>3. Closed(z)
  <2>1. ASSUME NEW j \in 1 .. n + 1, LastBefore(z, j, n + 1) PROVE z[j].op = "un"
    <3>1. CASE j = n + 1
      BY <1>1, <1>2, <3>1
    <3>2. CASE j = 1 /\ j # n + 1
      BY <1>1, <1>2, <2>1, <3>2 DEF LastBefore, Opened
    <3>3. CASE j # 1 /\ j # n + 1
      <4>1. LastBefore(s, j, n)
        BY <1>1, <2>1, <3>3 DEF LastBefore
      <4>2. QED
        BY <1>1, <3>3, <4>1 DEF Opened
    <3>4. QED
      BY <3>1, <3>2, <3>3
  <2>2. QED
    BY <1>1, <2>1 DEF Closed
<1>4. Ordered("monitor", z)
  <2>1. ASSUME NEW i \in 1 .. n + 1, NEW j \in 1 .. i - 1,
               z[j].op \in Acquisitions, z[i].op \in Acquisitions, LastBefore(z, j, i - 1)
        PROVE  MayAsk("monitor", z[j], z[i])
    <3>1. i <= n
      BY <1>1, <1>2, <2>1 DEF Acquisitions
    <3>2. LastBefore(s, j, i - 1)
      BY <1>1, <2>1, <3>1 DEF LastBefore
    <3>3. Ordered("monitor", s)
      BY DEF Opened
    <3>4. s[j] = z[j] /\ s[i] = z[i] /\ j \in 1 .. n
      BY <1>1, <3>1
    <3>5. MayAsk("monitor", s[j], s[i])
      BY <2>1, <3>1, <3>2, <3>3, <3>4 DEF Ordered
    <3>6. QED
      BY <3>4, <3>5
  <2>2. QED
    BY <1>1, <2>1 DEF Ordered
<1>5. Clients("monitor", z)
  BY DEF Clients
<1>6. QED
  BY <1>1, <1>3, <1>4, <1>5 DEF Good

\* Every section of every thread.
LEMMA AllGood ==
  ASSUME NEW t \in Threads, NEW s \in Sections(t)
  PROVE  Good(t, s)
<1>0. \A l \in {"sessions", "workers", "scheduler"} :
        Good(t, Read(l)) /\ Good(t, Write(l)) /\ Good(t, Signal)
  BY GoodPairs DEF Locks
<1>1. ASSUME NEW a \in Ops, NEW b \in Ops, NEW la, NEW lb, a.lock = la, b.lock = lb,
             a.op \in Acquisitions, b.op \in Acquisitions,
             la # lb, la # "clients", lb # "clients", MayAsk(t, a, b),
             \/ s = <<a, b, un(lb), un(la)>>
             \/ s = <<a>> \o <<b, un(lb)>> \o <<un(la)>>
      PROVE  Good(t, s)
  <2>1. un(la) \in Ops /\ un(lb) \in Ops
    BY <1>1, OpsOK DEF Ops
  <2>2. /\ s \in Seq(Ops) /\ Len(s) = 4 /\ s[1] = a /\ s[2] = b
        /\ s[3] = un(lb) /\ s[4] = un(la)
    BY <1>1, <2>1, NestedTuples
  <2>3. QED
    BY <1>1, <2>2, GoodNests
<1>2. /\ rd("sessions") \in Ops /\ rd("workers") \in Ops /\ wr("sessions") \in Ops
      /\ wr("workers") \in Ops /\ wr("scheduler") \in Ops
  BY OpsOK DEF Locks
<1>3. /\ \A l : rd(l).lock = l /\ rd(l).op \in Acquisitions
      /\ \A l : wr(l).lock = l /\ wr(l).op \in Acquisitions
  BY DEF rd, wr, Acquisitions
<1>4. CASE t = "scheduler"
  <2>1. CASE s \in {Wait, SearchIdle} \cup FifoSections
    BY <1>0, <2>1 DEF Wait, SearchIdle, FifoSections
  <2>2. CASE s \in {Snapshot, ChooseVictim}
    <3>1. s = <<rd("sessions"), rd("workers"), un("workers"), un("sessions")>>
      BY <2>2 DEF Snapshot, ChooseVictim
    <3>2. MayAsk(t, rd("sessions"), rd("workers"))
      BY <1>4 DEF MayAsk
    <3>3. QED
      BY <1>1, <1>2, <1>3, <3>1, <3>2
  <2>3. CASE s = EvictSession
    <3>1. Good(t, Write("sessions") \o Write("workers"))
      BY <1>0, GoodThen
    <3>2. QED
      BY <1>0, <2>3, <3>1, GoodThen DEF EvictSession
  <2>4. CASE s = Assign
    <3>1. s = <<wr("workers"), wr("sessions"), un("sessions"), un("workers")>>
      BY <2>4 DEF Assign
    <3>2. MayAsk(t, wr("workers"), wr("sessions"))
      BY <1>4 DEF MayAsk
    <3>3. QED
      BY <1>1, <1>2, <1>3, <3>1, <3>2
  <2>5. CASE s = Revert /\ Preemptive /\ SendFails
    <3>1. s = <<wr("sessions"), wr("workers"), un("workers"), un("sessions")>>
      BY <2>5 DEF Revert
    <3>2. MayAsk(t, wr("sessions"), wr("workers"))
      BY <1>4, <2>5 DEF MayAsk
    <3>3. QED
      BY <1>1, <1>2, <1>3, <3>1, <3>2
  <2>6. QED
    BY <1>4, <2>1, <2>2, <2>3, <2>4, <2>5 DEF Sections, PrioritySections
<1>5. CASE t = "aging"
  <2>1. CASE s = Write("sessions")
    BY <1>0, <2>1
  <2>2. CASE s = <<wr("sessions")>> \o Signal \o <<un("sessions")>>
    <3>1. s = <<wr("sessions")>> \o <<wr("scheduler"), un("scheduler")>> \o <<un("sessions")>>
      BY <2>2 DEF Signal
    <3>2. MayAsk(t, wr("sessions"), wr("scheduler"))
      BY <1>5 DEF MayAsk
    <3>3. QED
      BY <1>1, <1>2, <1>3, <3>1, <3>2
  <2>3. QED
    BY <1>5, <2>1, <2>2 DEF Sections, AgingSections
<1>6. CASE t = "watchdog"
  <2>1. CASE s = Read("sessions")
    BY <1>0, <2>1
  <2>2. CASE s = <<wr("workers")>> \o Read("sessions") \o <<un("workers")>>
    <3>1. s = <<wr("workers")>> \o <<rd("sessions"), un("sessions")>> \o <<un("workers")>>
      BY <2>2 DEF Read
    <3>2. MayAsk(t, wr("workers"), rd("sessions"))
      BY <1>6 DEF MayAsk
    <3>3. QED
      BY <1>1, <1>2, <1>3, <3>1, <3>2
  <2>3. QED
    BY <1>6, <2>1, <2>2 DEF Sections, WatchdogSections
<1>7. CASE t = "monitor"
  <2>1. Opened(<<wr("clients")>>)
    BY OpsOK DEF Opened, Ordered, Locks
  <2>2. ASSUME NEW l \in {"sessions", "workers"}
        PROVE  /\ \A i \in 1 .. Len(Read(l)) : Read(l)[i].lock \in {"sessions", "workers"}
               /\ \A i \in 1 .. Len(Write(l)) : Write(l)[i].lock \in {"sessions", "workers"}
    BY DEF Read, Write, rd, wr, un
  <2>3. ASSUME NEW u, Opened(u), NEW l \in {"sessions", "workers"}
        PROVE  Opened(u \o Read(l)) /\ Opened(u \o Write(l))
    BY <1>0, <1>7, <2>2, <2>3, OpenedThen
  <2>4. Opened(<<wr("clients")>> \o Read("workers"))
    BY <2>1, <2>3
  <2>5. Opened(<<wr("clients")>> \o Read("workers") \o Read("sessions"))
    BY <2>3, <2>4
  <2>6. Opened(<<wr("clients")>> \o Read("workers") \o Read("sessions") \o Write("workers"))
    BY <2>3, <2>5
  <2>7. Opened(<<wr("clients")>> \o Read("workers") \o Read("sessions") \o Write("workers")
                 \o Write("sessions"))
    BY <2>3, <2>6
  <2>8. QED
    BY <1>7, <2>4, <2>7, OpenedEnds DEF Sections, MonitorSections
<1>8. CASE t \notin {"scheduler", "aging", "watchdog", "monitor"}
  <2>1. Good(t, Write("sessions") \o Signal) /\ Good(t, Write("workers") \o Signal)
    BY <1>0, GoodThen
  <2>2. Good(t, Read("sessions") \o Write("workers") \o Signal \o Write("sessions"))
    BY <1>0, GoodThen
  <2>3. Good(t, Read("sessions") \o Write("sessions") \o Write("workers") \o Signal)
    BY <1>0, GoodThen
  <2>4. QED
    BY <1>8, <2>1, <2>2, <2>3
       DEF Sections, HandlerSections, Admit, Enrol, EndOfQuery, EvictAck
<1>9. QED
  BY <1>4, <1>5, <1>6, <1>7, <1>8

-----------------------------------------------------------------------------
(* Threads in their sections *)

\* After its first i operations, section s holds l as m.
HeldAfter(s, i, l, m) ==
  \/ m = "no" /\ \A j \in 1 .. i : s[j].lock = l /\ LastBefore(s, j, i) => s[j].op = "un"
  \/ /\ m \in Acquisitions
     /\ \E j \in 1 .. i : s[j] = [op |-> m, lock |-> l] /\ LastBefore(s, j, i)

\* Thread t has done the first i operations of s, and holds what they left.
Within(t, s, i) ==
  /\ todo[t] = SubSeq(s, i + 1, Len(s))
  /\ \A l \in Locks : HeldAfter(s, i, l, held[l][t])

IInv ==
  /\ held \in [Locks -> [Threads -> {"no", "rd", "wr"}]]
  /\ todo \in [Threads -> Seq(Ops)]
  /\ \A t \in Threads : \E s \in Sections(t) \cup {<<>>} : \E i \in 0 .. Len(s) : Within(t, s, i)

LEMMA GoodEmpty == ASSUME NEW t PROVE Good(t, <<>>)
BY DEF Good, Closed, Ordered, Clients

LEMMA RestOf ==
  ASSUME NEW s \in Seq(Ops), NEW i \in 0 .. Len(s)
  PROVE  /\ SubSeq(s, i + 1, Len(s)) \in Seq(Ops)
         /\ i = Len(s) <=> SubSeq(s, i + 1, Len(s)) = <<>>
         /\ i < Len(s) => /\ s[i + 1] \in Ops
                          /\ Head(SubSeq(s, i + 1, Len(s))) = s[i + 1]
                          /\ Tail(SubSeq(s, i + 1, Len(s))) = SubSeq(s, i + 2, Len(s))
<1>1. SubSeq(s, i + 1, Len(s)) \in Seq(Ops) /\ (i = Len(s) <=> SubSeq(s, i + 1, Len(s)) = <<>>)
  OBVIOUS
<1>2. ASSUME i < Len(s)
      PROVE  /\ s[i + 1] \in Ops /\ Head(SubSeq(s, i + 1, Len(s))) = s[i + 1]
             /\ Tail(SubSeq(s, i + 1, Len(s))) = SubSeq(s, i + 2, Len(s))
  <2>1. i + 1 \in 1 .. Len(s) /\ Len(s) \in i + 1 .. Len(s) /\ (i + 1) + 1 = i + 2
    BY <1>2
  <2>2. QED
    BY <2>1, HeadTailOfSubSeq
<1>3. QED
  BY <1>1, <1>2

\* The next operation of s changes what is held of its own lock only.
LEMMA HeldNext ==
  ASSUME NEW s \in Seq(Ops), NEW i \in 0 .. Len(s) - 1, NEW l \in Locks, NEW m
  PROVE  /\ s[i + 1].lock # l /\ HeldAfter(s, i, l, m) => HeldAfter(s, i + 1, l, m)
         /\ s[i + 1].lock = l /\ s[i + 1].op \in Acquisitions
              => HeldAfter(s, i + 1, l, s[i + 1].op)
         /\ s[i + 1].lock = l /\ s[i + 1].op = "un" => HeldAfter(s, i + 1, l, "no")
<1>0. s[i + 1] \in Ops
  OBVIOUS
<1>1. ASSUME s[i + 1].lock # l, HeldAfter(s, i, l, m) PROVE HeldAfter(s, i + 1, l, m)
  <2>1. ASSUME NEW j \in 1 .. i + 1, s[j].lock = l, LastBefore(s, j, i + 1)
        PROVE  j \in 1 .. i /\ LastBefore(s, j, i)
    BY <1>1, <2>1 DEF LastBefore
  <2>2. ASSUME NEW j \in 1 .. i, s[j].lock = l, LastBefore(s, j, i)
        PROVE  LastBefore(s, j, i + 1)
    <3>1. \A k \in j + 1 .. i + 1 : k \in j + 1 .. i \/ k = i + 1
      OBVIOUS
    <3>2. QED
      BY <1>1, <2>2, <3>1 DEF LastBefore
  <2>3. CASE m = "no" /\ \A j \in 1 .. i : s[j].lock = l /\ LastBefore(s, j, i) => s[j].op = "un"
    BY <2>1, <2>3 DEF HeldAfter
  <2>4. CASE /\ m \in Acquisitions
             /\ \E j \in 1 .. i : s[j] = [op |-> m, lock |-> l] /\ LastBefore(s, j, i)
    <3>1. PICK j \in 1 .. i : s[j] = [op |-> m, lock |-> l] /\ LastBefore(s, j, i)
      BY <2>4
    <3>2. LastBefore(s, j, i + 1) /\ j \in 1 .. i + 1
      BY <2>2, <3>1
    <3>3. QED
      BY <2>4, <3>1, <3>2 DEF HeldAfter
  <2>5. QED
    BY <1>1, <2>3, <2>4 DEF HeldAfter
<1>2. LastBefore(s, i + 1, i + 1) /\ i + 1 \in 1 .. i + 1
  BY DEF LastBefore
<1>3. ASSUME s[i + 1].lock = l, s[i + 1].op \in Acquisitions
      PROVE  HeldAfter(s, i + 1, l, s[i + 1].op)
  <2>1. s[i + 1] = [op |-> s[i + 1].op, lock |-> l]
    BY <1>0, <1>3 DEF Ops
  <2>2. QED
    BY <1>2, <1>3, <2>1 DEF HeldAfter
<1>4. ASSUME s[i + 1].lock = l, s[i + 1].op = "un" PROVE HeldAfter(s, i + 1, l, "no")
  <2>1. ASSUME NEW j \in 1 .. i + 1, s[j].lock = l, LastBefore(s, j, i + 1) PROVE j = i + 1
    BY <1>4, <2>1 DEF LastBefore
  <2>2. QED
    BY <1>4, <2>1 DEF HeldAfter
<1>5. QED
  BY <1>1, <1>3, <1>4

\* A thread moves on by the next operation of its section.
LEMMA Advance ==
  ASSUME IInv, NEW t \in Threads, todo[t] # <<>>,
         todo' = [todo EXCEPT ![t] = Tail(@)],
         NEW m \in {"no", "rd", "wr"},
         held' = [held EXCEPT ![Head(todo[t]).lock][t] = m],
         \/ Head(todo[t]).op \in Acquisitions /\ m = Head(todo[t]).op
         \/ Head(todo[t]).op = "un" /\ m = "no"
  PROVE  IInv'
<1> PICK s \in Sections(t) \cup {<<>>} : \E i \in 0 .. Len(s) : Within(t, s, i)
  BY DEF IInv
<1>1. PICK i \in 0 .. Len(s) : Within(t, s, i)
  OBVIOUS
<1>2. s \in Seq(Ops)
  BY AllGood, GoodEmpty DEF Good
<1> PICK n \in Nat : n = Len(s)
  BY <1>2
<1> PICK r : r = SubSeq(s, i + 1, n)
  OBVIOUS
<1>a. /\ r \in Seq(Ops) /\ (i = n <=> r = <<>>)
      /\ i < n => s[i + 1] \in Ops /\ Head(r) = s[i + 1] /\ Tail(r) = SubSeq(s, i + 2, n)
  BY <1>2, RestOf
<1>b. todo[t] = r
  BY <1>1 DEF Within
<1>3. i \in 0 .. n - 1 /\ i < n
  BY <1>a, <1>b
<1>4. /\ s[i + 1] \in Ops /\ Head(todo[t]) = s[i + 1]
      /\ Tail(todo[t]) = SubSeq(s, i + 2, n)
  BY <1>a, <1>b, <1>3
<1>5. s[i + 1].lock \in Locks
  BY <1>4 DEF Ops
<1>6. /\ \A l \in Locks, u \in Threads :
           held'[l][u] = IF l = s[i + 1].lock /\ u = t THEN m ELSE held[l][u]
      /\ held' \in [Locks -> [Threads -> {"no", "rd", "wr"}]]
  BY <1>4, <1>5 DEF IInv
<1>7. todo' \in [Threads -> Seq(Ops)] /\ todo'[t] = SubSeq(s, i + 2, n)
      /\ \A u \in Threads \ {t} : todo'[u] = todo[u]
  <2>1. Tail(todo[t]) \in Seq(Ops)
    BY DEF IInv
  <2>2. QED
    BY <1>4, <2>1 DEF IInv
<1>8. \A l \in Locks : HeldAfter(s, i + 1, l, held'[l][t])
  BY <1>1, <1>2, <1>3, <1>4, <1>6, HeldNext DEF Within
<1>9. Within(t, s, i + 1)' /\ i + 1 \in 0 .. Len(s)
  <2>1. (i + 1) + 1 = i + 2 /\ i + 1 \in 0 .. n
    BY <1>3
  <2>2. todo'[t] = SubSeq(s, (i + 1) + 1, Len(s))
    BY <1>7, <2>1
  <2>3. QED
    BY <1>8, <2>1, <2>2 DEF Within
<1>10. ASSUME NEW u \in Threads
       PROVE  \E z \in Sections(u) \cup {<<>>} : \E k \in 0 .. Len(z) : Within(u, z, k)'
  <2>1. CASE u = t
    BY <1>9, <2>1
  <2>2. CASE u # t
    <3> PICK z \in Sections(u) \cup {<<>>} : \E k \in 0 .. Len(z) : Within(u, z, k)
      BY DEF IInv
    <3>1. PICK k \in 0 .. Len(z) : Within(u, z, k)
      OBVIOUS
    <3>2. Within(u, z, k)'
      BY <1>6, <1>7, <2>2, <3>1 DEF Within
    <3>3. QED
      BY <3>2
  <2>3. QED
    BY <2>1, <2>2
<1>11. QED
  BY <1>6, <1>7, <1>10 DEF IInv

LEMMA InitOK == Init => IInv
<1> SUFFICES ASSUME Init PROVE IInv
  OBVIOUS
<1>1. /\ held \in [Locks -> [Threads -> {"no", "rd", "wr"}]]
      /\ todo \in [Threads -> Seq(Ops)]
      /\ \A t \in Threads : todo[t] = <<>> /\ \A l \in Locks : held[l][t] = "no"
  BY DEF Init
<1>2. ASSUME NEW t \in Threads PROVE Within(t, <<>>, 0)
  BY <1>1 DEF Within, HeldAfter
<1>3. QED
  BY <1>1, <1>2 DEF IInv

\* A thread at the end of a section holds nothing.
LEMMA EndHoldsNothing ==
  ASSUME NEW t, NEW s, Good(t, s), NEW l \in Locks, NEW m, HeldAfter(s, Len(s), l, m)
  PROVE  m = "no"
<1>1. ASSUME NEW j \in 1 .. Len(s), s[j] = [op |-> m, lock |-> l], LastBefore(s, j, Len(s)),
             m \in Acquisitions
      PROVE  FALSE
  BY <1>1 DEF Good, Closed, Acquisitions
<1>2. QED
  BY <1>1 DEF HeldAfter

LEMMA Holds ==
  ASSUME IInv, NEW t \in Threads, todo[t] = <<>>, NEW l \in Locks PROVE held[l][t] = "no"
<1> PICK s \in Sections(t) \cup {<<>>} : \E i \in 0 .. Len(s) : Within(t, s, i)
  BY DEF IInv
<1>1. PICK i \in 0 .. Len(s) : Within(t, s, i)
  OBVIOUS
<1>2. Good(t, s) /\ s \in Seq(Ops)
  BY AllGood, GoodEmpty DEF Good
<1>3. SubSeq(s, i + 1, Len(s)) = <<>>
  BY <1>1 DEF Within
<1>4. i = Len(s)
  BY <1>2, <1>3, RestOf
<1>5. QED
  BY <1>1, <1>2, <1>4, EndHoldsNothing DEF Within

LEMMA BeginOK == ASSUME IInv, NEW t \in Threads, Begin(t) PROVE IInv'
<1> PICK s \in Sections(t) : todo' = [todo EXCEPT ![t] = s]
  BY DEF Begin
<1>1. s \in Seq(Ops) /\ held' = held /\ todo[t] = <<>>
  BY AllGood DEF Begin, Good
<1>2. todo' \in [Threads -> Seq(Ops)] /\ todo'[t] = s /\ \A u \in Threads \ {t} : todo'[u] = todo[u]
  BY <1>1 DEF IInv
<1>3. SubSeq(s, 0 + 1, Len(s)) = s
  BY <1>1, SubSeqFull
<1>4. Within(t, s, 0)'
  <2>1. \A l \in Locks : HeldAfter(s, 0, l, held'[l][t])
    BY <1>1, Holds DEF HeldAfter
  <2>2. QED
    BY <1>2, <1>3, <2>1 DEF Within
<1>5. ASSUME NEW u \in Threads
      PROVE  \E z \in Sections(u) \cup {<<>>} : \E k \in 0 .. Len(z) : Within(u, z, k)'
  <2>1. CASE u = t
    BY <1>1, <1>4, <2>1
  <2>2. CASE u # t
    <3> PICK z \in Sections(u) \cup {<<>>} : \E k \in 0 .. Len(z) : Within(u, z, k)
      BY DEF IInv
    <3>1. PICK k \in 0 .. Len(z) : Within(u, z, k)
      OBVIOUS
    <3>2. Within(u, z, k)'
      BY <1>1, <1>2, <2>2, <3>1 DEF Within
    <3>3. QED
      BY <3>2
  <2>3. QED
    BY <2>1, <2>2
<1>6. QED
  BY <1>1, <1>2, <1>5 DEF IInv

LEMMA StepOK == ASSUME IInv, [Next]_vars PROVE IInv'
<1>1. ASSUME NEW t \in Threads, Acquire(t) PROVE IInv'
  <2> PICK m : m = Head(todo[t]).op
    OBVIOUS
  <2>1. /\ todo[t] # <<>> /\ m \in Acquisitions /\ m \in {"no", "rd", "wr"}
        /\ held' = [held EXCEPT ![Head(todo[t]).lock][t] = m]
        /\ todo' = [todo EXCEPT ![t] = Tail(@)]
    BY <1>1 DEF Acquire, Acquisitions
  <2>2. QED
    BY <2>1, Advance
<1>2. ASSUME NEW t \in Threads, Release(t) PROVE IInv'
  BY <1>2, Advance DEF Release
<1>3. CASE UNCHANGED vars
  BY <1>3 DEF IInv, Within, vars
<1>4. QED
  BY <1>1, <1>2, <1>3, BeginOK DEF Next

LEMMA Inductive == Spec => []IInv
BY InitOK, StepOK, PTL DEF Spec

-----------------------------------------------------------------------------
\* What is held and what is left to do are those of a place in a section.
THEOREM TypeCorrect == Spec => []TypeOK
<1>1. IInv => TypeOK
  BY DEF IInv, Within, TypeOK
<1>2. QED
  BY <1>1, Inductive, PTL

\* No path through a critical section of any thread forgets a release.
THEOREM SectionsAreClosed == Spec => []NothingHeldBetweenSections
<1>1. IInv => NothingHeldBetweenSections
  BY Holds DEF NothingHeldBetweenSections
<1>2. QED
  BY <1>1, Inductive, PTL

-----------------------------------------------------------------------------
(* Waiting *)

\* What a thread asks for while it holds a lock is what its sections may.
LEMMA HoldsAndAsks ==
  ASSUME IInv, NEW t \in Threads, NEW l \in Locks, held[l][t] # "no",
         todo[t] # <<>>, Head(todo[t]).op \in Acquisitions
  PROVE  MayAsk(t, [op |-> held[l][t], lock |-> l], Head(todo[t]))
<1> PICK s \in Sections(t) \cup {<<>>} : \E i \in 0 .. Len(s) : Within(t, s, i)
  BY DEF IInv
<1>1. PICK i \in 0 .. Len(s) : Within(t, s, i)
  OBVIOUS
<1>2. Good(t, s) /\ s \in Seq(Ops)
  BY AllGood, GoodEmpty DEF Good
<1> PICK n \in Nat : n = Len(s)
  BY <1>2
<1> PICK r : r = SubSeq(s, i + 1, n)
  OBVIOUS
<1>3. (i = n <=> r = <<>>) /\ (i < n => Head(r) = s[i + 1])
  BY <1>2, RestOf
<1>4. todo[t] = r
  BY <1>1 DEF Within
<1>5. i + 1 \in 1 .. n /\ Head(todo[t]) = s[i + 1]
  BY <1>3, <1>4
<1>6. HeldAfter(s, i, l, held[l][t])
  BY <1>1 DEF Within
<1>7. PICK j \in 1 .. i : s[j] = [op |-> held[l][t], lock |-> l] /\ LastBefore(s, j, i)
  BY <1>6 DEF HeldAfter
<1>8. held[l][t] \in Acquisitions
  BY <1>6 DEF HeldAfter
<1>9. Ordered(t, s)
  BY <1>2 DEF Good
<1>10. s[j].op \in Acquisitions /\ s[i + 1].op \in Acquisitions /\ (i + 1) - 1 = i
  BY <1>5, <1>7, <1>8
<1>11. MayAsk(t, s[j], s[i + 1])
  BY <1>5, <1>7, <1>9, <1>10 DEF Ordered
<1>12. QED
  BY <1>5, <1>7, <1>11

\* In any group of threads, of any number of handlers, some thread waits for
\* none of the group: unless the preemptive scheduler puts a failed send right
\* with the sessions locked first (the order the watchdog does not keep).
THEOREM NoDeadlock ==
  ASSUME ~Preemptive \/ ~SendFails PROVE Spec => []NoCircularWait
<1>1. IInv => NoCircularWait
  <2> SUFFICES ASSUME IInv, NEW group \in (SUBSET Threads) \ {{}},
                      \A t \in group : InTheWay(t) \cap group # {}
               PROVE  FALSE
    BY DEF NoCircularWait
  <2>1. ASSUME NEW t \in group
        PROVE  /\ todo[t] # <<>> /\ Head(todo[t]) \in Ops
               /\ Head(todo[t]).op \in Acquisitions
               /\ \E u \in group : /\ held[Head(todo[t]).lock][u] # "no"
                                   /\ Head(todo[t]).op = "rd"
                                        => held[Head(todo[t]).lock][u] = "wr"
    <3>1. PICK u \in group : u \in InTheWay(t)
      OBVIOUS
    <3>2. todo[t] # <<>> /\ todo[t] \in Seq(Ops)
      BY <3>1 DEF InTheWay, IInv
    <3>3. Head(todo[t]) \in Ops
      BY <3>2
    <3>4. CASE Head(todo[t]).op = "rd"
      BY <3>1, <3>2, <3>3, <3>4 DEF InTheWay, Acquisitions
    <3>5. CASE Head(todo[t]).op = "wr"
      BY <3>1, <3>2, <3>3, <3>5 DEF InTheWay, Acquisitions
    <3>6. CASE Head(todo[t]).op = "un"
      BY <3>1, <3>2, <3>6 DEF InTheWay
    <3>7. QED
      BY <3>3, <3>4, <3>5, <3>6 DEF Ops, Acquisitions
  <2>2. ASSUME NEW u \in group, NEW l \in Locks, held[l][u] # "no"
        PROVE  MayAsk(u, [op |-> held[l][u], lock |-> l], Head(todo[u]))
    BY <2>1, <2>2, HoldsAndAsks
  <2>3. \A u \in group, l \in Locks : held[l][u] \in {"no", "rd", "wr"}
    BY DEF IInv
  <2> USE DEF MayAsk, rd, wr, Locks
  <2>4. \A u \in group : held["scheduler"][u] = "no"
    BY <2>2
  <2>5. \A t \in group : Head(todo[t]).lock # "scheduler"
    BY <2>1, <2>4
  <2>6. ASSUME NEW u \in group, held["sessions"][u] = "wr" PROVE FALSE
    <3>1. MayAsk(u, [op |-> "wr", lock |-> "sessions"], Head(todo[u]))
      BY <2>2, <2>6
    <3>2. Head(todo[u]) = wr("scheduler") \/ (Preemptive /\ SendFails)
      BY <3>1
    <3>3. QED
      BY <2>5, <3>2
  <2>7. ASSUME NEW t \in group, Head(todo[t]) = rd("sessions") PROVE FALSE
    <3>1. Head(todo[t]).lock = "sessions" /\ Head(todo[t]).op = "rd"
      BY <2>7
    <3>2. \E u \in group : held["sessions"][u] = "wr"
      BY <2>1, <3>1
    <3>3. QED
      BY <2>6, <3>2
  <2>8. \A u \in group : held["workers"][u] = "wr" => u = "scheduler" /\ Head(todo[u]) = wr("sessions")
    BY <2>2, <2>7
  <2>9. \A u \in group : held["sessions"][u] # "no" => u = "scheduler" /\ Head(todo[u]) = rd("workers")
    BY <2>2, <2>3, <2>6
  <2>10. \A u \in group : held["sessions"][u] = "no"
    <3>1. ASSUME NEW u \in group, held["sessions"][u] # "no" PROVE FALSE
      <4>1. Head(todo[u]) = rd("workers") /\ u = "scheduler"
        BY <2>9, <3>1
      <4>2. PICK v \in group : held["workers"][v] = "wr"
        BY <2>1, <4>1
      <4>3. v = "scheduler" /\ Head(todo[v]) = wr("sessions")
        BY <2>8, <4>2
      <4>4. QED
        BY <4>1, <4>3
    <3>2. QED
      BY <3>1
  <2>11. \A t \in group : Head(todo[t]).lock # "sessions"
    BY <2>1, <2>10
  <2>12. ASSUME NEW u \in group, held["workers"][u] # "no" PROVE FALSE
    <3>1. CASE held["workers"][u] = "wr"
      BY <2>8, <2>11, <3>1
    <3>2. CASE held["workers"][u] = "rd"
      <4>1. MayAsk(u, [op |-> "rd", lock |-> "workers"], Head(todo[u]))
        BY <2>2, <3>2
      <4>2. QED
        BY <4>1
    <3>3. QED
      BY <2>3, <2>12, <3>1, <3>2
  <2>13. \A t \in group : Head(todo[t]).lock # "workers"
    BY <2>1, <2>12
  <2>14. \A u \in group : held["clients"][u] = "no"
    BY <2>2, <2>11, <2>13
  <2>15. \A t \in group : Head(todo[t]).lock \in Locks /\ Head(todo[t]).lock # "clients"
    BY <2>1, <2>14 DEF Ops
  <2>16. PICK t : t \in group
    OBVIOUS
  <2>17. Head(todo[t]).lock \in {"sessions", "workers", "scheduler", "clients"}
    BY <2>15, <2>16
  <2>18. QED
    BY <2>5, <2>11, <2>13, <2>15, <2>16, <2>17
<1>2. QED
  BY <1>1, Inductive, PTL
=============================================================================
