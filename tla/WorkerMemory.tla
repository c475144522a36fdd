---------------------------- MODULE WorkerMemory ----------------------------
(***************************************************************************)
(* The internal memory of one Worker (worker/src/memoria_interna.c): page  *)
(* tables per File:Tag, frames, LRU and CLOCK-M replacement, and the       *)
(* instructions that reach it (worker/src/instrucctions/): WRITE and READ  *)
(* page by page, FLUSH, COMMIT and the flush before an eviction.           *)
(*                                                                         *)
(* The Worker runs one instruction at a time; between two requests of an   *)
(* instruction, other Workers (and this one's own TRUNCATE and DELETE,     *)
(* which never touch the memory) change what Storage holds.  Storage is    *)
(* what a Worker can tell of it: the content of every page, and which      *)
(* File:Tags are COMMITED.  A page's content is one value.                 *)
(***************************************************************************)
EXTENDS Integers, FiniteSets

CONSTANTS
  FileTags,       \* the File:Tags the queries name
  LastPage,       \* a File:Tag has pages 0 .. LastPage at most
  Marcos,         \* total_marcos: frames of the memory
  Data,           \* what a WRITE may write in a page
  Initial,        \* the content of physical block 0, which a new page shows
  Zeros,          \* memset 0 over a frame whose load failed
  Garbage,        \* the frame as malloc left it
  NoBlock,        \* Storage has no such page: it answers ST_ERROR
  NoPage, NoFile, NoData

ASSUME MarcosAssumption == Marcos \in Nat \ {0}
ASSUME LastPageAssumption == LastPage \in Nat
ASSUME FileTagsAssumption == IsFiniteSet(FileTags)
ASSUME ContentsAssumption ==
  /\ NoBlock \notin Data \union {Initial, Zeros, Garbage}
  /\ NoData \notin Data \union {Initial, Zeros, Garbage}
ASSUME PageAssumption == NoPage \notin FileTags \X (0 .. LastPage)

VARIABLES
  tablas,          \* File:Tags with a page table
  pagina,          \* t_pagina of every page; a page never touched is as created
  marco_a_pagina,  \* frame -> page, NoPage while marcos_ocupados is false
  contenido,       \* frame -> its bytes, in memoria_base
  edad,            \* ultimo_acceso read backwards: pages accessed since
  clock_pointer,
  algoritmo,       \* algoritmo_reemplazo, from the configuration
  instr,           \* the instruction under way and where it is
  block,           \* Storage: page -> content
  commited,        \* Storage: File:Tags in ESTADO_COMMITED
  mine             \* history: what this Worker's last WRITE of the page left
                   \* in Storage, until somebody else changes the page

memVars == <<tablas, pagina, marco_a_pagina, contenido, edad, clock_pointer, algoritmo>>
storageVars == <<block, commited>>
vars == <<memVars, instr, storageVars, mine>>

Pages == FileTags \X (0 .. LastPage)
Frames == 0 .. Marcos - 1
Contents == Data \union {Initial, Zeros, Garbage}
Never == Cardinality(Pages)   \* the age of a page that is not in memory

Resident == {p \in Pages : pagina[p].presente}
Dirty == {p \in Pages : pagina[p].modificada}
FreeFrames == {f \in Frames : marco_a_pagina[f] = NoPage}
First(S) == CHOOSE k \in S : \A j \in S : k <= j

New == [presente |-> FALSE, modificada |-> FALSE, uso |-> FALSE, marco |-> 0]
Rest == [op |-> "none", ft |-> NoFile, page |-> 0, upto |-> 0, at |-> "rest",
         pending |-> {}]

Init ==
  /\ tablas = {}
  /\ pagina = [p \in Pages |-> New]
  /\ marco_a_pagina = [f \in Frames |-> NoPage]
  /\ contenido = [f \in Frames |-> Garbage]
  /\ edad = [p \in Pages |-> Never]
  /\ clock_pointer = 0
  /\ algoritmo \in {"LRU", "CLOCK-M"}
  /\ instr = Rest
  /\ block = [p \in Pages |-> NoBlock]
  /\ commited = {}
  /\ mine = [p \in Pages |-> NoData]

----------------------------------------------------------------------------
(* Victims *)

\* Variant: the counter is not started anew for the page accessed.
AgesAfterAll(p, place) == [q \in Pages |-> edad[q] + 1]

\* ++contador_accesos: p becomes the most recent; those more recent than the
\* place it leaves are one access older.
AgesAfter(p, place) ==
  [q \in Pages |-> IF q = p THEN 0
                   ELSE IF edad[q] < place THEN edad[q] + 1 ELSE edad[q]]

\* LRU: the present page with the least ultimo_acceso.
LruVictims == {p \in Resident : \A q \in Resident : edad[q] <= edad[p]}

\* CLOCK-M.  Scanned(k) is the page k frames after the pointer; Class(u, m)
\* the positions of the pages with those bits.
Scanned(k) == marco_a_pagina[(clock_pointer + k) % Marcos]
Class(u, m) == {k \in Frames : /\ Scanned(k) \in Resident
                               /\ pagina[Scanned(k)].uso = u
                               /\ pagina[Scanned(k)].modificada = m}

\* Variant: the second pass does not stop at (U=0, M=1), it only clears.
ClockClearsFirst ==
  LET cold == Class(FALSE, FALSE)  warm == Class(TRUE, FALSE) IN
  IF cold # {} THEN [at |-> First(cold), cleared |-> {}]
  ELSE IF warm # {} THEN [at |-> First(warm), cleared |-> Frames]
  ELSE [at |-> 0, cleared |-> Frames]

\* The four passes: (0,0) as they are; (0,1), clearing U on the way; then all
\* have U=0, so (0,0) is a page that was (1,0); then whatever comes first.
ClockChoice ==
  LET cold == Class(FALSE, FALSE)  dirty == Class(FALSE, TRUE)  warm == Class(TRUE, FALSE) IN
  IF cold # {} THEN [at |-> First(cold), cleared |-> {}]
  ELSE IF dirty # {} THEN [at |-> First(dirty), cleared |-> 0 .. First(dirty) - 1]
  ELSE IF warm # {} THEN [at |-> First(warm), cleared |-> Frames]
  ELSE [at |-> 0, cleared |-> Frames]

\* The victim v, and what choosing it does to the pointer and the use bits.
Chosen(v, cleared, pointer) ==
  \/ /\ algoritmo = "LRU"
     /\ v \in LruVictims
     /\ cleared = {}
     /\ pointer = clock_pointer
  \/ /\ algoritmo = "CLOCK-M"
     /\ v = Scanned(ClockChoice.at)
     /\ cleared = {Scanned(k) : k \in ClockChoice.cleared}
     /\ pointer = (clock_pointer + ClockChoice.at + 1) % Marcos

----------------------------------------------------------------------------
(* One page of a WRITE or a READ *)

Current == <<instr.ft, instr.page>>
Accepts(p) == block[p] # NoBlock /\ p[1] \notin commited

Advance == instr' = IF instr.page < instr.upto
                    THEN [instr EXCEPT !.page = @ + 1, !.at = "memory"]
                    ELSE Rest
Fail == instr' = Rest

Begin(op, ft, from, upto) ==
  /\ instr = Rest
  /\ from <= upto
  /\ tablas' = tablas \union {ft}
  /\ instr' = [Rest EXCEPT !.op = op, !.ft = ft, !.page = from, !.upto = upto,
                           !.at = "memory"]
  /\ UNCHANGED <<pagina, marco_a_pagina, contenido, edad, clock_pointer, algoritmo,
                 storageVars, mine>>

\* memoria_escribir_pagina creates the table; a READ of a File:Tag without
\* one asks Storage first and creates it only if the page exists.
BeginWrite == \E ft \in FileTags : \E from, upto \in 0 .. LastPage :
                Begin("WRITE", ft, from, upto)
BeginRead == \E ft \in FileTags : \E from, upto \in 0 .. LastPage :
               /\ ft \in tablas \/ block[<<ft, from>>] # NoBlock
               /\ Begin("READ", ft, from, upto)

\* Variant: the page is not entered in the frame it takes.
LoadInFreeFrameUnowned ==
  LET p == Current  f == First(FreeFrames) IN
  /\ instr.at = "memory" /\ p \notin Resident /\ FreeFrames # {}
  /\ pagina' = [pagina EXCEPT ![p].presente = TRUE, ![p].marco = f]
  /\ edad' = AgesAfter(p, edad[p])
  /\ IF block[p] # NoBlock
     THEN /\ contenido' = [contenido EXCEPT ![f] = block[p]]
          /\ instr' = [instr EXCEPT !.at = "access"]
     ELSE contenido' = contenido /\ Fail
  /\ UNCHANGED <<tablas, marco_a_pagina, clock_pointer, algoritmo, storageVars, mine>>

\* memoria_cargar_pagina with a free frame: the page is present before the
\* answer comes.  On ST_ERROR it stays so, over whatever the frame held.
\* (READ then asks again, gets the same answer and fails as WRITE does.)
LoadInFreeFrame ==
  LET p == Current  f == First(FreeFrames) IN
  /\ instr.at = "memory" /\ p \notin Resident /\ FreeFrames # {}
  /\ marco_a_pagina' = [marco_a_pagina EXCEPT ![f] = p]
  /\ pagina' = [pagina EXCEPT ![p].presente = TRUE, ![p].marco = f]
  /\ edad' = AgesAfter(p, edad[p])
  /\ IF block[p] # NoBlock
     THEN /\ contenido' = [contenido EXCEPT ![f] = block[p]]
          /\ instr' = [instr EXCEPT !.at = "access"]
     ELSE contenido' = contenido /\ Fail
  /\ UNCHANGED <<tablas, clock_pointer, algoritmo, storageVars, mine>>

\* The page table and the frames after p took the frame of v.
Replaced(p, v, cleared) ==
  [q \in Pages |->
     IF q = v THEN [pagina[q] EXCEPT !.presente = FALSE, !.modificada = FALSE,
                                     !.marco = 0, !.uso = @ /\ q \notin cleared]
     ELSE IF q = p THEN [pagina[q] EXCEPT !.presente = TRUE, !.marco = pagina[v].marco]
     ELSE [pagina[q] EXCEPT !.uso = @ /\ q \notin cleared]]

\* Variant: the victim is dropped without writing it back.
ReplaceDropsVictim ==
  LET p == Current IN
  /\ instr.at = "memory" /\ p \notin Resident /\ FreeFrames = {}
  /\ \E v \in Resident, cleared \in SUBSET Pages, pointer \in Frames :
       /\ Chosen(v, cleared, pointer)
       /\ pagina' = Replaced(p, v, cleared)
       /\ marco_a_pagina' = [marco_a_pagina EXCEPT ![pagina[v].marco] = p]
       /\ contenido' = [contenido EXCEPT ![pagina[v].marco] =
                          IF block[p] # NoBlock THEN block[p] ELSE Zeros]
       /\ edad' = [AgesAfter(p, edad[v]) EXCEPT ![v] = Never]
       /\ clock_pointer' = pointer
  /\ instr' = [instr EXCEPT !.at = "access"]
  /\ UNCHANGED <<tablas, algoritmo, storageVars, mine>>

\* Variant: the frame keeps the victim's bytes.
ReplaceKeepsBytes ==
  LET p == Current IN
  /\ instr.at = "memory" /\ p \notin Resident /\ FreeFrames = {}
  /\ \E v \in Resident, cleared \in SUBSET Pages, pointer \in Frames :
       /\ Chosen(v, cleared, pointer)
       /\ block' = IF v \in Dirty /\ Accepts(v)
                   THEN [block EXCEPT ![v] = contenido[pagina[v].marco]] ELSE block
       /\ pagina' = Replaced(p, v, cleared)
       /\ marco_a_pagina' = [marco_a_pagina EXCEPT ![pagina[v].marco] = p]
       /\ edad' = [AgesAfter(p, edad[v]) EXCEPT ![v] = Never]
       /\ clock_pointer' = pointer
  /\ instr' = [instr EXCEPT !.at = "access"]
  /\ UNCHANGED <<contenido, tablas, algoritmo, commited, mine>>

\* memoria_reemplazar_pagina: the victim, if dirty, is sent to Storage and
\* forgotten whatever the answer; a load that fails leaves zeros and goes on.
Replace ==
  LET p == Current IN
  /\ instr.at = "memory" /\ p \notin Resident /\ FreeFrames = {}
  /\ \E v \in Resident, cleared \in SUBSET Resident, pointer \in Frames :
       /\ Chosen(v, cleared, pointer)
       /\ block' = IF v \in Dirty /\ Accepts(v)
                   THEN [block EXCEPT ![v] = contenido[pagina[v].marco]] ELSE block
       /\ pagina' = Replaced(p, v, cleared)
       /\ marco_a_pagina' = [marco_a_pagina EXCEPT ![pagina[v].marco] = p]
       /\ contenido' = [contenido EXCEPT ![pagina[v].marco] =
                          IF block[p] # NoBlock THEN block[p] ELSE Zeros]
       /\ edad' = [AgesAfter(p, edad[v]) EXCEPT ![v] = Never]
       /\ clock_pointer' = pointer
       /\ mine' = IF block'[v] # block[v] THEN [mine EXCEPT ![v] = NoData] ELSE mine
  /\ instr' = [instr EXCEPT !.at = "access"]
  /\ UNCHANGED <<tablas, algoritmo, commited>>

\* The page is present, found so or just loaded.
Accessible == \/ instr.at = "access"
              \/ instr.at = "memory" /\ Current \in Resident

ReadPage ==
  /\ instr.op = "READ" /\ Accessible
  /\ pagina' = [pagina EXCEPT ![Current].uso = TRUE]
  /\ edad' = AgesAfter(Current, edad[Current])
  /\ Advance
  /\ UNCHANGED <<tablas, marco_a_pagina, contenido, clock_pointer, algoritmo, storageVars, mine>>

\* memoria_escribir_pagina, then the memoria_leer_pagina of the copy to send.
WritePage ==
  /\ instr.op = "WRITE" /\ Accessible
  /\ \E d \in Data :
       contenido' = [contenido EXCEPT ![pagina[Current].marco] = d]
  /\ pagina' = [pagina EXCEPT ![Current].uso = TRUE, ![Current].modificada = TRUE]
  /\ edad' = AgesAfter(Current, edad[Current])
  /\ mine' = [mine EXCEPT ![Current] = NoData]
  /\ instr' = [instr EXCEPT !.at = "send"]
  /\ UNCHANGED <<tablas, marco_a_pagina, clock_pointer, algoritmo, storageVars>>

\* enviar_pagina_storage.  The page stays modificada although it is stored.
SendPage ==
  /\ instr.at = "send"
  /\ \/ /\ Accepts(Current)
        /\ block' = [block EXCEPT ![Current] = contenido[pagina[Current].marco]]
        /\ mine' = [mine EXCEPT ![Current] = contenido[pagina[Current].marco]]
        /\ Advance
     \/ ~Accepts(Current) /\ Fail /\ UNCHANGED <<block, mine>>
  /\ UNCHANGED <<memVars, commited>>

----------------------------------------------------------------------------
(* FLUSH, COMMIT, and the flush of every File:Tag before an eviction *)

Flushing(op, ft, pages) ==
  /\ instr = Rest
  /\ instr' = [Rest EXCEPT !.op = op, !.ft = ft, !.at = "flush", !.pending = pages]
  /\ UNCHANGED <<memVars, storageVars, mine>>

\* COMMIT flushes first.
BeginFlush == \E op \in {"FLUSH", "COMMIT"}, ft \in FileTags :
                Flushing(op, ft, {p \in Dirty : p[1] = ft})
\* flush_all_modified_pages
BeginEvict == Flushing("EVICT", NoFile, Dirty)

\* Variant: a page that Storage refused is taken for clean.
FlushPageWhateverTheAnswer ==
  /\ instr.at = "flush"
  /\ \E p \in instr.pending :
       /\ instr' = [instr EXCEPT !.pending = @ \ {p}]
       /\ pagina' = [pagina EXCEPT ![p].modificada = FALSE]
       /\ UNCHANGED <<block, mine>>
  /\ UNCHANGED <<tablas, marco_a_pagina, contenido, edad, clock_pointer, algoritmo, commited>>

\* One page; its modificada is cleared only on ST_OK.  A failure makes FLUSH
\* fail at the end; COMMIT and EVICT do not look.
FlushPage ==
  /\ instr.at = "flush"
  /\ \E p \in instr.pending :
       /\ instr' = [instr EXCEPT !.pending = @ \ {p}]
       /\ IF Accepts(p)
          THEN /\ block' = [block EXCEPT ![p] = contenido[pagina[p].marco]]
               /\ mine' = IF block'[p] # block[p] THEN [mine EXCEPT ![p] = NoData] ELSE mine
               /\ pagina' = [pagina EXCEPT ![p].modificada = FALSE]
          ELSE UNCHANGED <<block, mine, pagina>>
  /\ UNCHANGED <<tablas, marco_a_pagina, contenido, edad, clock_pointer, algoritmo, commited>>

EndFlush ==
  /\ instr.at = "flush" /\ instr.op # "COMMIT" /\ instr.pending = {}
  /\ instr' = Rest
  /\ UNCHANGED <<memVars, storageVars, mine>>

\* Whatever the flush did and whatever Storage answers, COMMIT succeeds.
SendCommit ==
  /\ instr.at = "flush" /\ instr.op = "COMMIT" /\ instr.pending = {}
  /\ commited' = commited \union {instr.ft}
  /\ instr' = Rest
  /\ UNCHANGED <<memVars, block, mine>>

----------------------------------------------------------------------------
(* Storage, seen from here: the requests of the other Workers, and this     *)
(* Worker's own TRUNCATE and DELETE, which touch no page of the memory.     *)
(* CREATE shows no page; a TAG shows as pages appearing and being written.  *)

StorageWrites ==
  /\ \E p \in Pages, d \in Data :
       /\ Accepts(p)
       /\ block' = [block EXCEPT ![p] = d]
       /\ mine' = [mine EXCEPT ![p] = NoData]
  /\ UNCHANGED <<memVars, instr, commited>>

StorageTruncates ==
  /\ \E ft \in FileTags \ commited, size \in 0 .. LastPage + 1 :
       LET Kept(p) == p[1] # ft \/ (p[2] < size /\ block[p] # NoBlock) IN
       /\ block' = [p \in Pages |-> IF Kept(p) THEN block[p]
                                    ELSE IF p[2] < size THEN Initial ELSE NoBlock]
       /\ mine' = [p \in Pages |-> IF Kept(p) THEN mine[p] ELSE NoData]
  /\ UNCHANGED <<memVars, instr, commited>>

StorageDeletes ==
  /\ \E ft \in FileTags :
       /\ block' = [p \in Pages |-> IF p[1] = ft THEN NoBlock ELSE block[p]]
       /\ mine' = [p \in Pages |-> IF p[1] = ft THEN NoData ELSE mine[p]]
       /\ commited' = commited \ {ft}
  /\ UNCHANGED <<memVars, instr>>

StorageCommits ==
  /\ \E ft \in FileTags : commited' = commited \union {ft}
  /\ UNCHANGED <<memVars, instr, block, mine>>

Next ==
  \/ BeginWrite \/ BeginRead \/ LoadInFreeFrame \/ Replace
  \/ ReadPage \/ WritePage \/ SendPage
  \/ BeginFlush \/ BeginEvict \/ FlushPage \/ EndFlush \/ SendCommit
  \/ StorageWrites \/ StorageTruncates \/ StorageDeletes \/ StorageCommits

Spec == Init /\ [][Next]_vars

----------------------------------------------------------------------------
PageState == [presente : BOOLEAN, modificada : BOOLEAN, uso : BOOLEAN, marco : Frames]
InstrState == [op : {"none", "WRITE", "READ", "FLUSH", "COMMIT", "EVICT"},
               ft : FileTags \union {NoFile}, page : 0 .. LastPage, upto : 0 .. LastPage,
               at : {"rest", "memory", "access", "send", "flush"}, pending : SUBSET Pages]

\* The memory, the instruction and Storage keep their types; in particular
\* clock_pointer is always a frame (memoria_interna.c: every step of a pass
\* takes it modulo total_marcos) and no age exceeds the number of pages.
TypeOK ==
  /\ tablas \in SUBSET FileTags
  /\ pagina \in [Pages -> PageState]
  /\ marco_a_pagina \in [Frames -> Pages \union {NoPage}]
  /\ contenido \in [Frames -> Contents]
  /\ edad \in [Pages -> 0 .. Never]
  /\ clock_pointer \in Frames
  /\ algoritmo \in {"LRU", "CLOCK-M"}
  /\ instr \in InstrState
  /\ block \in [Pages -> Contents \union {NoBlock}]
  /\ commited \in SUBSET FileTags
  /\ mine \in [Pages -> Contents \union {NoData}]

\* The page tables and marco_a_pagina are two views of one assignment: a
\* frame holds a page exactly when that page says it is present there, so no
\* two pages share a frame, whatever load failed half way and whichever
\* algorithm chose the victims.
FramesMatchPages ==
  \A f \in Frames, p \in Pages :
    marco_a_pagina[f] = p <=> (pagina[p].presente /\ pagina[p].marco = f)

\* What this Worker wrote in a page and Storage accepted is what its next
\* READ returns, in memory or not, and what Storage holds, until somebody
\* changes the page there or a later WRITE of it is under way or refused:
\* replacement never mixes frames up nor brings older bytes back.
ReadsOwnWrites ==
  \A p \in Pages : mine[p] # NoData =>
    /\ block[p] = mine[p]
    /\ p \in Resident => contenido[pagina[p].marco] = mine[p]

\* Once every frame is taken CLOCK-M always finds a victim in its four passes
\* and it is in the lowest class present: unused before used and, among
\* those, clean before modified.
Weight(p) == (IF pagina[p].uso THEN 2 ELSE 0) + (IF pagina[p].modificada THEN 1 ELSE 0)
ClockTakesLowestClass ==
  FreeFrames = {} =>
    LET v == Scanned(ClockChoice.at) IN
    /\ v \in Resident
    /\ \A p \in Resident : Weight(v) <= Weight(p)

\* A page stops being modified only when Storage took its bytes, or it was
\* replaced after Storage refused them.
ModifiedReachesStorage ==
  [][\A p \in Pages :
       pagina[p].modificada /\ ~pagina'[p].modificada =>
         \/ block'[p] = contenido[pagina[p].marco]
         \/ ~Accepts(p) /\ ~pagina'[p].presente]_vars
=============================================================================
