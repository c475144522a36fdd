# Forky 2.0 in TLA+

A verification project for the distributed query system in
`tp-2025-2c-Forky-2.0-main/` (all paths below are relative to that directory).
It models Query Control, the Master, the Workers and the Storage and the streams
between them, model-checks them with TLC on small instances, states what the
system promises as an abstract specification, and proves the main invariants and
the refinement with TLAPS for every instance.

Contents: [the system](#the-system) · [hard behaviours](#what-is-hard-to-test) ·
[modules](#modules) · [runs](#runs) · [proofs](#proofs) ·
[divergences](#where-code-and-documents-disagree) · [limits](#what-is-not-modelled) ·
[plan](#plan)

## The system

| Component | State it keeps | Operations | Should hold |
|---|---|---|---|
| **Query Control** (`query_control/`) | one socket | submits a script with a priority, waits for its confirmation, prints what comes back until the result | it reads the fields the Master wrote; one final result, which says what became of the query |
| **Master** (`master/`) | `query_sessions` and `queries_by_id`, `workers_list`, one thread per connection, a scheduler, aging, watchdog and monitor threads | admission, assignment, preemption by `EVICT`/`EVICT_ACK`, aging, detection of dead Workers | no query lost, run twice, skipped or answered wrongly; a Worker runs one query at a time; no use of a freed session; no deadlock |
| **Worker: execution** (`worker/src/main.c`, `instrucctions/instructions.c`) | the query it runs and its program counter | reads a `PATH`, looks for an `EVICT` before each instruction, executes, reports the end | the saved program counter skips nothing |
| **Worker: memory** (`worker/src/memoria_interna.c`) | page tables, frames, LRU/CLOCK-M data | load, replace, write back, flush | tables match frames, a write is not lost, the policy picks the right victim |
| **Storage** (`storage/`) | directories, `metadata.config`, hard links, physical blocks, bitmap, hash index, a mutex per File:Tag | CREATE, TRUNCATE, TAG, WRITE, READ, COMMIT, DELETE, FLUSH, restart | links, metadata, bitmap and contents agree; sharing blocks is invisible; BASE is untouchable |
| **Utils** (`utils/`) | none | framing of messages, sockets, configuration, logging | sender and receiver of a message agree on its fields; one that is cut is not acted upon |

How they interact. A Query Control submits to the Master and waits. The Master
gives a query to an idle Worker (`PATH` with its program counter) over that
Worker's TCP socket, may take it back (`EVICT` with a version, answered by
`EVICT_ACK` with the program counter), and learns of its end on the same socket.
The Worker executes instructions against its own memory, which it fills from and
writes back to Storage over a second socket, one request at a time. Storage has a
thread per Worker. Inside the Master the threads share two lists, each under a
rwlock (`query_sessions_rwlock`, `workers_list_rwlock`); inside Storage the
threads share the file system, with a mutex per File:Tag that only some
operations take.

## What is hard to test

`PROJECT.json` lists the hazards line by line. In groups:

* **Master, check-then-act.** A thread keeps a pointer from one critical section
  and uses it in the next (scheduler `main.c:1523`, `EVICT_ACK` `main.c:931`,
  handler `main.c:774`). The session is READY again before its Worker has
  answered the eviction (`main.c:1325`), so two Workers may run one query.
* **Crossing messages.** `QUERY_FINISHED` crosses an `EVICT`; the end of a query
  is matched by socket (`main.c:694`); a late `EVICT_ACK` arrives after the
  watchdog gave up.
* **Failures.** A Worker crashes between any two steps, a Query Control leaves, a
  send fails, and the clean-up itself takes several steps.
* **Streams.** Three threads of the Master write to one Query Control without a
  lock (`main.c:292`, `connections.c:174`); a READ message gives up in the middle
  when the stream is full (`protocol.c:299`); a death cuts a frame anywhere and
  `recv_all(...) < 0` does not notice (`listen_worker.c:204`); which answers of
  Storage an instruction looks at depends on the instruction.
* **Lock order** across four threads and the handlers.
* **Worker memory.** A load that fails after the frame was given away, the
  write-back of a victim that Storage refuses, pages shared with other Workers
  through Storage only.
* **Storage.** CREATE and WRITE take no lock and meet every other operation
  between any two system calls; copy-on-write and deduplication share blocks
  among File:Tags; the hash index outlives the blocks it names; Storage may stop
  between any two steps.

## Modules

| Module | Models | Built on |
|---|---|---|
| `MasterCore` | what the Master does under any scheduler, the Workers' execution loop and the channels | - |
| `MasterPriority` | `scheduler_priority_thread`, `aging_thread` | `MasterCore` |
| `MasterFifo` | `scheduler_thread` | `MasterCore` |
| `QueryService` | the life of a query as its client could know it: the abstract specification | - |
| `MasterLocks` | which thread takes which lock in which order | - |
| `QueryPath` | one query end to end, field by field: Query Control, the Master's threads, a Worker's requests, its thread in Storage | - |
| `WorkerMemory` | the internal memory of a Worker and WRITE, READ, FLUSH, COMMIT | - |
| `Storage` | the file system and the requests that change it | - |
| `MasterCoreProofs`, `MasterPriorityProofs`, `MasterFifoProofs`, `QueryServiceProofs`, `WorkerMemoryProofs`, `StorageProofs`, `MasterLocksProofs`, `QueryPathProofs` | theorems | the modules they are named after |
| `MC*` | sets, symmetry and model values for TLC | one each |

Some modules hold definitions marked *Variant*: a plausible slip in the
definition that follows (a dropped guard, a missing reset, a swapped order).
Specifications never use them. They serve to see that a property notices: for
each property of a run `PROJECT.json` names a variant that TLC finds out.

### MasterCore, MasterPriority, MasterFifo

Every critical section, and every send or receive between two sections, is one
action. A thread's local variables are a record: `sched`, `handler[w]`,
`monitor`; its field `at` is the place in the code. A Worker is named by its
socket in the Master. Variables keep the names in the code; `to_worker` and
`to_master` are the bytes in flight on a Worker's socket, `wproc` the Worker
process, `qc` the client's end, and `results` and `reached` are history.

| Actions | Code |
|---|---|
| `Submit`, `Confirm`, `ConfirmFails`, `QueryControlLeaves` | `handle_client_thread`, submission |
| `Register`, `HandleEndOfQuery` ... `HandlerEndsAtPeek` | `handle_client_thread`, a Worker's connection |
| `Watchdog`, `EvictDeadline` | `watchdog_thread` |
| `MonitorPick` ... `MonitorCloseSession` | `check_connections_thread` (`connections.c`) |
| `WorkerReceive`, `WorkerYields`, `WorkerStep`, `WorkerCrash` | `worker/src/main.c`, `ejecutar_tarea`, `chequear_desalojo_master` |
| `SchedSnapshot` ... `SchedRevert`, `Age` | the priority scheduler and aging |
| `SchedFind` ... `SchedRelease` | the FIFO scheduler |

Abstractions, and why they keep what the properties see:

* A freed session keeps its contents, so that a thread which still points to it
  reads what it last held. Whether a pointer is to a listed session is what
  `NoDanglingPointer` and `SchedulerPointersAlive` ask.
* The list of sessions is a set; its order is the order of ids (`list_add`),
  except after `list_sort`, which sorts by priority and leaves ties alone. That
  the sort runs under a read lock (`main.c:1235`) is not modelled.
* A running Worker looks for an `EVICT` by peeking and reading. Whatever else it
  finds it may swallow in part: what is left is `JUNK`.
* Submission is one step: nothing else can see the session before it is listed.
* A script is its number of instructions (`Last` is its END); an instruction
  advances the program counter or fails.
* `session->version` is never initialised: `UninitVersions` are the values
  `malloc` may leave there. Versions are only incremented and compared for
  equality within one session, so the runs take one value. The theorems hold for
  any set of naturals, except those of `CalmInv` below, which say so.
* A send to a closed peer may be accepted and lost or fail. While the peer is
  alive sends succeed.

### QueryService, and how the Master implements it

`QueryService` has no threads, sockets, locks or messages: a query is unknown,
waiting, executing on a server or closed; its client was sent some answers and may
have left. `Spec` says what holds whatever is evicted, crashes or leaves: ids are
given in order, instructions are executed in the order of the script and none is
skipped, a query is closed once and only after its client was answered or left.
`CalmSpec` is what holds while queries have one priority and nothing fails: a
server has one unanswered query at a time, executes each instruction once, and the
client gets one result, after the last instruction.

`MasterPriority` maps its state (`Phase`, `Executing`, `session`, `qc`, `reached`,
`results`) and states `ImplementsService` and `ImplementsCalmService` through
`INSTANCE QueryService WITH`. `Submit` is `Submit`; an assignment is `Start`; an
eviction or a failed send is `Yield`; a Worker's instruction is `Execute`; an
answer sent by a handler or the monitor is `Report`; unlisting is `Close`;
everything else stutters. `MasterFifo` does not implement it: it sends the query
before it records who runs it, so an answer may be written for a query that is
still waiting, or be dropped.

### QueryPath

A stream holds fields, not messages, as TCP does. The functions that send and those
that receive (`protocol.c`, and the code that writes or reads a message by hand:
`write.c`, `read.c`, `delete.c`, `listen_worker.c`) each have their own frame
here; a field of a receiver's frame says whether the code notices that it never
came (`Must`) or not (`May`: `recv_all(...) < 0` on a `size_t`, or an unchecked
`recv`). Nothing but their order keeps the two in step, and that is what
`InStepAndAnswered` asks. The stream to Query Control has three writers
(admission, the Worker's handler, the monitor), so its fields are written one at a
time (`MasterWrites`) while there is `Room`; `HandlerTruncates` is a READ message
that meets a full stream. The other streams have one writer: a frame is written
whole (`WorkerSends`), or cut by a death (`WorkerDies`).

An instruction is the list of requests it sends to Storage, each with its role:
what the instruction makes of an answer that is not OK or does not come (`Todo`,
`Failed`, `WorkerHearsNothing`). `Instructions` has every list the code can
produce for one page (in memory, loaded, loaded in place of a modified page).
Storage accepts or refuses each; `unmet` records what it did not carry out.

| Actions | Code |
|---|---|
| `ClientSubmits` ... `ClientDrifts` | `query_control/src/main.c`, `listen_to_master`, `process_result` |
| `MasterAdmits`, `SchedulerAssigns`, `MasterRegisters` | `handle_client_thread`, the scheduler's `PATH` |
| `HandlerReceives`, `HandlerCloses`, `HandlerEnds` | `handle_client_thread` for a Worker |
| `MonitorFinds`, `MonitorRemoves`, `MonitorCloses` | `check_connections_thread` |
| `MasterWrites`, `HandlerTruncates`, `WriteFails` | the senders to Query Control |
| `WorkerConnects` ... `WorkerGoesOn` | `worker/src/main.c`, `ejecutar_tarea`, `instrucctions/` |
| `StorageAccepts`, `StorageServes`, `StorageEnds` | `loop_aceptar_workers`, `worker_thread` |

Left out: eviction and several queries (`MasterCore` has them), what memory and
Storage contain (`WorkerMemory`, `Storage`), lines the parser rejects, scripts
without END, connections that are reset instead of closed, answers of Storage that
are cut.

### MasterLocks

A critical section is the list of its acquisitions and releases; a thread runs the
sections of its loop for ever in any order, which allows every order the code has
and more. The rwlocks have default attributes: glibc lets a reader in while other
readers hold the lock even if a writer waits, and the model does too.

### WorkerMemory

`pagina` is the page tables, `marco_a_pagina`, `contenido`, `clock_pointer` and
`algoritmo` are fields of `memoria_worker`; `edad` is `ultimo_acceso` read
backwards (accesses to other pages since). `instr` is the instruction under way:
the Worker is sequential, but between two of its requests to Storage anybody may
change the file system (`StorageWrites`, `StorageTruncates`, `StorageDeletes`,
`StorageCommits`), which is how other Workers, and this Worker's own TRUNCATE and
DELETE, appear. A page's content is one value, so a WRITE replaces it; a new
page or a TAG is a `StorageWrites` or `StorageTruncates` that makes it appear. The
four passes of CLOCK-M are one step, as nothing comes between them: `Scanned`,
`Class` and `ClockChoice` compute the victim, the bits it clears and where the
pointer stops.

### Storage

`files`, `dirs`, `meta`, `link` and `content` are the file system, `bitmap`,
`index`, `saved` and `lock` what Storage has in memory and in its two files.
`th[w]` is the thread of Worker w: the request, where it is, and its local
variables (the metadata it read, the block it works on). Each access to the file
system another thread can come between is an action:

| Request | Actions |
|---|---|
| CREATE | `CreateCheck`, `CreateDirectory` |
| TRUNCATE | `TruncateCheck`, then per block `TruncateGrow` or `TruncateShrink` and `TruncateRelease`, `TruncateMetadata`, `Rebuild` |
| TAG | `TagCheck`, per entry `TagSkip`, `TagCopyMetadata`, `TagLink` or `TagFails`, `TagMetadata`, `Rebuild` |
| COMMIT | `CommitCheck`, per block `CommitHash`, `CommitLookup` and perhaps `CommitRelease`, `CommitMetadata`, `Rebuild` |
| WRITE | `WriteCheck`, `WriteReserve`, and for copy-on-write `WriteCopy`, `WriteUnlink`, `WriteLink`, `WriteMetadata`, then `WriteOpen`, `WriteData` |
| DELETE | `DeleteCheck`, per block `DeleteUnlink`, `DeleteRelease`, `DeleteDirectory`, `Rebuild` |
| FLUSH | `Flush` |

`Init` is what `fs_format` leaves, an operator per step of it (`create_bitmap`,
`create_hash_index`, `create_physical_blocks`, `create_initial_file`);
`hash_index_find_block`, `hash_index_add_entry` and `hash_index_sync_to_disk` are
the operations of the index. `Restart` stops Storage anywhere and starts it with
`FRESH_START=FALSE`. `expect`
is history: what each logical block should hold, from the requests alone.
`disturbed` records that two requests have overlapped or that Storage stopped
inside one.

Abstractions: reading and writing `metadata.config` are single steps; `stat` and
the reservation or release that follows it are one step; the lookup of a hash
and the relinking it leads to are one step, being under the mutex of the index;
a File has one Tag; sizes are whole blocks; equal contents have equal hashes and
different ones different hashes; READ changes nothing; answers are not kept.

## Runs

| Run | Instance | Shows |
|---|---|---|
| `master_fair_share` | 3 queries of one priority, 2 Workers, fairness | the Master implements the calm service (`ImplementsCalmService`): one query per Worker, answered once and last; no query is run twice; a Worker marked idle is free; no use of freed sessions; every query is answered |
| `master_preempt` | 2 queries, 2 priorities, 2 Workers of which one may crash, failing instructions | the Master implements the service (`ImplementsService`); with an evicted query running in two Workers no answer skips an instruction; errors, and Workers that end by themselves, have a cause; no session dropped unanswered; list inside dictionary |
| `master_aging` | 2 queries of priority 4 that age, 1 Worker, up to the first final result | with both queries evicted in turn, one of them twice, one answer per eviction; a query is evicted only for a better one; priorities only improve and stop at 1 |
| `master_clients` | 2 queries, 2 priorities, 1 Worker, Query Controls leave, fairness | no session dropped unanswered; a busy Worker without a session is released |
| `master_fifo` | 2 queries, 2 Workers that may crash | FIFO hands out in order, and once |
| `locks` | all threads of the Master, one handler, sends succeed | no circular wait, no lock left held |
| `worker_memory` | 3 pages, 2 frames, both algorithms | tables match frames, reads see writes, CLOCK-M's choice, no modified page lost |
| `storage` | 2 threads, 5 requests or restarts, BASE and 2 File:Tags of up to 2 pages, 4 blocks | BASE and block 0 survive any interleaving; locks are released; without overlap, metadata, links, bitmap and contents agree |
| `query_path` | one query of up to 2 instructions, Worker and Storage may end at any point, fairness | the streams stay in step and no answer is taken for another; a cut frame is acted upon only where the code does not look, and never ends in SUCCESS; Query Control loses step in two ways only; SUCCESS and ERROR match what Storage did; the query ends |
| `doc_success` | 2 queries, 1 Worker, preemption | violation, see below |
| `doc_lock_order` | 2 handlers, sends may fail | violation, see below |
| `doc_dedup` | 1 thread, 8 requests | violation, see below |

Why the bounds are enough to be interesting. Two queries of two priorities on two
Workers is the least with a preemption whose victim is handed to the other Worker
before it answered. `MaxVersion` bounds the evictions of one session; `master_aging`
allows two, the least at which a stale version exists. There priority 4 is what the
second eviction needs: the queries overtake each other at 3, 2 and 1, and the
Worker is released in between because its answer missed the deadline. Its
`CONSTRAINT` keeps that part of the behaviour only: both queries are submitted and
confirmed before the first assignment, and nothing is followed past the first
final result. `Last = 1` gives a script one instruction before END;
`master_fair_share` and `master_aging`, whose properties do not depend on how far a
script got, have `Last = 0`. Three queries on two Workers is the least where a
freed Worker is contended. In `master_preempt` the `CONSTRAINT OneCrashAtMost` lets
one of the two Workers crash and confirmations be sent while nothing else is under
way (a confirmation touches neither). In `query_path` two instructions are the
least with an answer left over for the next request and a READ message behind
another; `Room = 3` is less than a READ message's four fields, so that one is
truncated; the constraint `DiesEarly` lets the Worker die anywhere up to the end of
its first instruction, cut in the middle of any frame it sends, and later only in a
READ with nothing left to ask, which is where a result is on its way. Two frames for three pages is the least with replacement and a
surviving page. In `storage` five requests are the least that share a block and
then write to it (CREATE, TRUNCATE, WRITE, TAG, WRITE), and four blocks are few
enough for WRITE to run out of them.

Symmetry is used only in runs without temporal properties, or with action
properties that name no element of the symmetric sets.

`CHECK_DEADLOCK FALSE` is in the runs of systems that may stop: the Master's
bounded submissions end, a stopped Worker does nothing, requests are bounded by
`MaxOps`. `locks` and `doc_lock_order` check deadlock, as their threads never end.

Fairness. Every thread of the Master polls on a timer or a condition with a
timeout, so an enabled step of the scheduler, aging, a handler, the watchdog or
the monitor is eventually taken (weak fairness); Workers execute while alive.
`MonitorPick` has strong fairness for each Worker: a pass of
`check_connections_thread` visits every connection, so one that is busy again and
again is picked although it is not busy all the time. Nothing is assumed of
Query Controls, crashes or failing instructions. In `query_path` every thread is
weakly fair, each as a whole, since it is sequential; Query Control reads on, as
its loop does. The scheduler's step is fair only while the Worker lives: an idle
Worker that died stays in `workers_list`, so nothing is promised of a query that
has no other Worker to go to.

## Proofs

TLAPS checks every theorem for all values of the constants that satisfy the named
assumptions (positive sizes, null values outside the sets they complete).

**Master** (`MasterCoreProofs` has what every step of the core preserves;
`MasterPriorityProofs` adds the priority scheduler and aging, `MasterFifoProofs` the
FIFO scheduler):

* `TypeCorrect`: `Spec => []TypeOK`. Needs that a pointer used in a section is a
  session (`PointersKnown`) and that only an end of query is sent to a Query
  Control (`SendsAnEnd`).
* `SkipsNoInstruction`: `Spec => []NoSkippedInstruction`. A Worker's counter comes
  from a `PATH`, which comes from a session, which comes from an `EVICT_ACK` that
  a handler carried, which comes from a Worker. So the inductive invariant
  (`PcInv`, `SchedBehind`) says of each of these places that the counter there is at
  most what was reached, and `reached` only grows.
* `DropsNoSession`: `Spec => []NoSilentDrop`. Whoever is about to unlist a session
  has told its Query Control or knows it left (`DropInv`).
* `ListedAreIndexed`: `Spec => []ListedIsIndexed`.
* `EvictsOnlyTheWorse`: `Spec => []EvictsOnlyWorse`. Between the choice and the
  eviction everybody else runs; `VictimInv` says that the victim is active, so
  aging passes over it, and that both ids were given, so no submission reuses them.
* `PrioritiesImprove`: `Spec => PriorityOnlyImproves`, from the same invariant.
* `ReportsNoSpuriousError`: `Spec => []NoSpuriousError`. The handler that closes a
  query with an error is several steps and a channel away from the failure that
  caused it, so `ErrorInv` says of every `ERROR` on its way, and of every handler and
  section about to send one, that a Worker ended, a query failed in a Worker, or the
  monitor found a Worker's end.
* `AnswersEachEvictionOnce`: `Spec => []OneAnswerPerEviction`. An eviction is a token
  that moves from the `EVICT` to the `EVICT_ACK` to the handler that applies it, and is
  never in two of these places (`OneToken`); `TokensInv` adds that only versions already
  asked for have one, so the next eviction is of a version that has none.
* `OrderlyUntilTrouble`: `Spec => [](Calm => RunsEachInstructionOnce /\ IdleMeansFree
  /\ NoDanglingPointer)`. `Calm` says that nothing was evicted, no Worker crashed and no
  client left (instructions may fail); once false it stays so. Until then `CalmInv`
  places every Worker at one stage of one query (assigned, on its way, running,
  answered, being closed, closed), and each stage says what is in its channels,
  where its handler is, and what its session and `workers_list` record; the watchdog,
  the monitor and the scheduler only find what a stage allows. It assumes
  `OneFirstVersion`, that `malloc` leaves the same value in every new session:
  `Calm` recognises an eviction by a version that is not a first one. Nothing is lost
  by it, as versions are only compared within one session.
  TLC checked `CalmInv` on `master_fair_share`, also with failing instructions, and
  on `master_preempt` before it was proved.
* `StopsAfterTrouble`: `Spec => []StopsOnlyAfterTrouble`, since a calm Worker does not
  end. The departure of a client is among the causes: the proof did not go through
  without it, and TLC shows why. A confirmation that cannot be sent unlists a session
  that a Worker already executes, the watchdog finds that Worker busy without a session
  and frees it, and the next query it is handed meets the answer to the first.
* `RunsOnce`, `IdleIsFree`, `PointersStayValid`, `SchedulerPointersStayValid`: under
  `Undisturbed` (no aging, one priority, no crash, no departure; instructions may
  fail) nothing is ever evicted (`UndisturbedInv`), so what `CalmInv` says of a calm
  Master holds for good: `[]RunsEachInstructionOnce`, `[]IdleMeansFree`,
  `[]NoDanglingPointer` and `[]SchedulerPointersAlive`. The last one is not
  part of `OrderlyUntilTrouble`: a query chosen as victim may end, and be closed,
  before the scheduler comes to evict it.
* Under FIFO (`MasterFifoProofs`): `TypeCorrect`, `DropsNoSession`,
  `KeepsOrder`: `Spec => DispatchesInOrder`. `OrderInv` carries the choice across
  the three unlocked steps: the core never makes a session READY again
  (`CoreReadies`), and a new one has a later id. And `HandsOutOnce`:
  `Spec => []HandedOutOnce`: a query is in one `PATH`, one Worker or one answer at
  most (`OneCopy`), and only when its session is active, which under FIFO is for good
  (`HandInv`).

**Abstract service** (`QueryServiceProofs`):

* `Implements`: `Spec => ImplementsService`, for any numbers of queries, Workers,
  priorities and instructions, all faults included. Each action of the core, the
  scheduler and aging is shown to be a step of the service or a stutter; a session
  unlisted is one that was told (`DropInv`), ids not yet given are not in any list.
* `ImplementsCalm`: `Spec => ImplementsCalmService`, under `Undisturbed` and without
  failing instructions. The steps are those of `Implements` (`Service...`), and
  `CalmInv` supplies what the calm service asks besides: an instruction is run by the
  one Worker that executes its query, in order and once, and the result a handler
  sends is that of the query its Worker was assigned.

**Worker memory** (`WorkerMemoryProofs`), for any numbers of File:Tags, pages and
frames, both algorithms, and whatever the others do to Storage between two requests:

* `TypeCorrect`, with the strengthening that an instruction past its load has its
  page in memory (`Loaded`), and that ages stay below the number of pages.
* `FramesAgree`: `Spec => []FramesMatchPages`, inductive with the types.
* `ReadsWhatItWrote`: `Spec => []ReadsOwnWrites`. It needs `FramesMatchPages`: a
  write, a load or a replacement changes the bytes of one frame, so of one page.
* `ModifiedIsStored`: `Spec => ModifiedReachesStorage`.
* `ClockIsRight`: `Spec => []ClockTakesLowestClass`. With no free frame the scan
  meets present pages only, and all of them (`ScanMeetsResident`, arithmetic modulo
  the number of frames in `ScanMeetsAll`); the classes are then tried in order.

**Storage** (`StorageProofs`), over any number of threads and restarts:

* `TypeCorrect`, `BlockZeroSurvives`: `Spec => []BlockZeroIntact`. The invariant
  alone is not inductive: a thread past its checks acts on what it read before.
  `IInv` adds, for each thread, that past the checks its File:Tag (for TAG, its
  destination) is not BASE, that a WRITE's target is a block other than 0, that
  the page it writes is inside the metadata it read, and that every metadata,
  on disk or in a thread, names a block for each of its pages. `Rebuild` and
  `Released` spare block 0 because BASE links it.
* `NoLockIsKept`: `Spec => []HeldWhileServed`, with the strengthening that a
  thread at rest holds no lock.
* `SerialMetadataMatchesLinks`, `SerialLinkedBlocksAreUsed` and
  `SerialContentsAsRequested`: what holds between requests that do not overlap, for
  any number of them and any restarts. `SerialInv` describes, until the first
  overlap, every intermediate state of the one request being served: which links
  already differ from the metadata on disk, which block is reserved and not yet
  linked, which logical block will change in `expect`. Each request is then shown to
  start from a state that agrees and to end in one. TLC checked `SerialInv` on the
  instance of `storage` before it was proved.

**Locks of the Master** (`MasterLocksProofs`), for any number of Workers:

* `SectionsAreClosed`: `Spec => []NothingHeldBetweenSections`. A thread is at a place
  in one of its sections and holds what the operations before it left (`IInv`);
  every section, on every return, is balanced, which is shown once for each.
* `NoDeadlock`: without preemption, or while no send fails, `Spec => []NoCircularWait`.
  In the remaining sections the locks are taken in one order, so the thread that
  holds the last lock of a circle could not wait for the first. With both the
  theorem is false: `doc_lock_order` is the counterexample.

**The path of a query** (`QueryPathProofs`), for any number of instructions, any room
on the stream to Query Control and any of the faults:

* `PathHolds`: `Spec => []PathInv`, the invariant behind the four theorems below. It
  says what may be on each stream, given where its two ends are. Between the Worker
  and Storage there is at most one request or one answer (`StorageStream`). What the
  Worker sends to its handler is whole frames, of which a death may have cut the last
  (`HandlerStream`: wherever an operation code stands, the fields its reader expects
  follow, and then another operation code; this needs no recursion on the stream). The
  `PATH` comes once, after the `ACK` (`WorkerStream`). What Query Control has still to
  read, followed by the frame that a thread of the Master is in the middle of writing,
  is what it expects (`ToClient`), until two threads wrote over each other or a READ
  message was truncated; and there is one `CONFIRM`, first unless overtaken
  (`Confirmation`). `Outcomes` says that once the end of a query is anywhere between
  the Worker and Query Control, nothing that it is about can change any more.
* `StaysInStep`: `Spec => []InStepAndAnswered`. Senders and receivers are compared
  field by field once, in the lemmas on frames; the rest is where a frame may be.
* `CutsHarmless`: `Spec => []CutFrames`, and `OutcomeIsTrue`:
  `Spec => []OutcomeMatchesStorage`. A `QUERY_FINISHED` is sent by a Worker that has
  heard every answer, and none that it heeds was a refusal (`Heeded`), so nothing is
  left that could be cut or refused.
* `StepLostOnlyThen`: `Spec => []LosesStepOnlyBy`, from `ToClient` and `Confirmation`.
  TLC checked `PathInv` on the instance of `query_path` before it was proved.

Only model-checked: the liveness properties (temporal reasoning under fairness and
`ENABLED` are out of the prover's reach). Every invariant of a passing run and every
property of its steps is also proved; some of the Master's under the hypotheses
stated above, and those of Storage's contents while requests do not overlap, which
are also the circumstances in which TLC checks them.
