------------------------- MODULE WorkerMemoryProofs -------------------------
(***************************************************************************)
(* Theorems about the internal memory of a Worker, for any number of       *)
(* File:Tags, pages and frames, both replacement algorithms and whatever   *)
(* the others do to Storage meanwhile.                                     *)
(***************************************************************************)
EXTENDS WorkerMemory, FiniteSetTheorems, WellFoundedInduction, TLAPS

\* What an instruction under way relies on: it is about a File:Tag, unless it
\* flushes them all, and once it has loaded its page nobody takes the frame.
OnPage == \/ instr.ft \in FileTags
          \/ instr.at = "rest"
          \/ instr.at = "flush" /\ instr.op # "COMMIT"
Loaded == instr.at \in {"access", "send"} => Current \in Resident
TypeInv == TypeOK /\ OnPage /\ Loaded

-----------------------------------------------------------------------------
(***************************************************************************)
(* Numbers                                                                 *)
(***************************************************************************)
\* First takes the least element.
LEMMA FirstIsLeast ==
  ASSUME NEW S \in SUBSET Nat, S # {}
  PROVE  First(S) \in S /\ \A j \in S : First(S) <= j
<1>1. \E k \in S : \A j \in S : <<j, k>> \notin OpToRel(<, Nat)
  BY NatLessThanWellFounded, WFMin
<1>2. PICK k \in S : \A j \in S : <<j, k>> \notin OpToRel(<, Nat)
  BY <1>1
<1>3. \A j \in S : ~(j < k)
  BY <1>2, Zenon DEF OpToRel
<1>4. \A j \in S : k <= j
  BY <1>3
<1> QED BY <1>4 DEF First

\* The scan of CLOCK-M stays inside the frames and meets every one of them.
LEMMA ScanMeetsAll ==
  ASSUME NEW c \in Frames
  PROVE  /\ \A k \in Frames : (c + k) % Marcos \in Frames
         /\ \A f \in Frames : \E k \in Frames : (c + k) % Marcos = f
<1>0. Marcos \in Nat \ {0} /\ Frames = 0 .. Marcos - 1
  BY MarcosAssumption DEF Frames
<1>1. ASSUME NEW k \in Frames PROVE (c + k) % Marcos \in Frames
  BY <1>0
<1>2. ASSUME NEW f \in Frames PROVE \E k \in Frames : (c + k) % Marcos = f
  <2>1. CASE c <= f
    <3>1. f - c \in Frames /\ c + (f - c) = f
      BY <1>0, <2>1
    <3>2. f % Marcos = f
      BY <1>0
    <3> QED BY <3>1, <3>2
  <2>2. CASE f < c
    <3>1. f - c + Marcos \in Frames /\ c + (f - c + Marcos) = f + Marcos
      BY <1>0, <2>2
    <3>2. (f + Marcos) % Marcos = f
      BY <1>0
    <3> QED BY <3>1, <3>2
  <2> QED BY <1>0, <2>1, <2>2
<1> QED BY <1>1, <1>2

\* The age of a page out of memory is a number, as there are finitely many pages.
LEMMA NeverIsNumber == Never \in Nat
<1>1. IsFiniteSet(0 .. LastPage)
  BY LastPageAssumption, FS_Interval
<1>2. IsFiniteSet(Pages)
  BY <1>1, FileTagsAssumption, FS_Product DEF Pages
<1> QED BY <1>2, FS_CardinalityType DEF Never

-----------------------------------------------------------------------------
(***************************************************************************)
(* Types                                                                   *)
(***************************************************************************)
\* An access makes nobody older than a page that is not in memory.
LEMMA AgesTypes ==
  ASSUME TypeOK, NEW p \in Pages, NEW v \in Pages
  PROVE  /\ AgesAfter(p, edad[v]) \in [Pages -> 0 .. Never]
         /\ [AgesAfter(p, edad[v]) EXCEPT ![v] = Never] \in [Pages -> 0 .. Never]
BY NeverIsNumber DEF TypeOK, AgesAfter

\* The page of the instruction under way.
LEMMA CurrentIsPage ==
  ASSUME TypeInv, instr.at \in {"memory", "access", "send"}
  PROVE  /\ Current \in Pages /\ pagina[Current] \in PageState
         /\ pagina[Current].marco \in Frames
         /\ contenido[pagina[Current].marco] \in Contents
<1>1. Current \in Pages
  BY DEF TypeInv, TypeOK, OnPage, InstrState, Current, Pages
<1> QED BY <1>1 DEF TypeInv, TypeOK, PageState

\* The free frame that a load takes is a frame.
LEMMA FreeFrameIsFrame ==
  ASSUME FreeFrames # {}
  PROVE  First(FreeFrames) \in Frames /\ marco_a_pagina[First(FreeFrames)] = NoPage
BY FirstIsLeast, MarcosAssumption DEF FreeFrames, Frames

\* The instruction goes on with its next page or ends.
LEMMA AdvanceTypes ==
  ASSUME TypeInv, Advance \/ Fail, instr.at \in {"memory", "access", "send"}
  PROVE  /\ instr' \in InstrState
         /\ instr'.at \in {"memory", "rest"}
         /\ instr'.at = "memory" => instr'.ft \in FileTags
<1>1. instr \in InstrState /\ instr.ft \in FileTags
  BY DEF TypeInv, TypeOK, OnPage
<1>2. Rest \in InstrState /\ Rest.at = "rest"
  BY LastPageAssumption DEF Rest, InstrState
<1>3. CASE instr' = Rest
  BY <1>2, <1>3
<1>4. CASE instr.page < instr.upto
           /\ instr' = [instr EXCEPT !.page = instr.page + 1, !.at = "memory"]
  <2>1. instr.page + 1 \in 0 .. LastPage
    BY <1>1, <1>4, LastPageAssumption DEF InstrState
  <2> QED BY <1>1, <1>4, <2>1 DEF InstrState
<1> QED BY <1>3, <1>4 DEF Advance, Fail

\* A step that changes neither the memory nor the place of the instruction.
LEMMA StorageTypes ==
  ASSUME TypeInv, UNCHANGED <<memVars, instr>>,
         block' \in [Pages -> Contents \union {NoBlock}],
         commited' \in SUBSET FileTags,
         mine' \in [Pages -> Contents \union {NoData}]
  PROVE  TypeInv'
BY DEF TypeInv, TypeOK, OnPage, Loaded, Current, Resident, memVars

\* Loading, replacing and accessing a page.
LEMMA AccessTypes ==
  ASSUME TypeInv, LoadInFreeFrame \/ Replace \/ ReadPage \/ WritePage \/ SendPage
  PROVE  TypeInv'
<1>0. /\ tablas \in SUBSET FileTags /\ pagina \in [Pages -> PageState]
      /\ marco_a_pagina \in [Frames -> Pages \union {NoPage}]
      /\ contenido \in [Frames -> Contents]
      /\ edad \in [Pages -> 0 .. Never] /\ clock_pointer \in Frames
      /\ algoritmo \in {"LRU", "CLOCK-M"} /\ instr \in InstrState
      /\ block \in [Pages -> Contents \union {NoBlock}]
      /\ commited \in SUBSET FileTags
      /\ mine \in [Pages -> Contents \union {NoData}]
  BY DEF TypeInv, TypeOK
<1>1. instr.at \in {"memory", "access", "send"}
  BY DEF LoadInFreeFrame, Replace, ReadPage, WritePage, SendPage, Accessible
<1>2. /\ Current \in Pages /\ pagina[Current] \in PageState
      /\ pagina[Current].marco \in Frames
      /\ contenido[pagina[Current].marco] \in Contents
      /\ instr.ft \in FileTags
  BY <1>1, CurrentIsPage DEF TypeInv, OnPage
<1>3. CASE LoadInFreeFrame
  <2> DEFINE p == Current
             f == First(FreeFrames)
  <2>1. f \in Frames
    BY <1>3, FreeFrameIsFrame DEF LoadInFreeFrame
  <2>2. /\ pagina' \in [Pages -> PageState] /\ pagina'[p].presente
    BY <1>0, <1>2, <1>3, <2>1 DEF LoadInFreeFrame, PageState
  <2>3. marco_a_pagina' \in [Frames -> Pages \union {NoPage}]
    BY <1>0, <1>2, <1>3, <2>1 DEF LoadInFreeFrame
  <2>4. edad' \in [Pages -> 0 .. Never]
    BY <1>2, <1>3, AgesTypes DEF LoadInFreeFrame, TypeInv
  <2>5. contenido' \in [Frames -> Contents]
    BY <1>0, <1>2, <1>3, <2>1 DEF LoadInFreeFrame
  <2>6. /\ instr' \in InstrState
        /\ instr'.at \in {"access", "rest"}
        /\ instr'.at = "access" => instr'.ft = instr.ft /\ instr'.page = instr.page
    <3>1. CASE instr' = [instr EXCEPT !.at = "access"]
      BY <1>0, <3>1 DEF InstrState
    <3>2. CASE Fail
      BY <1>1, <3>2, AdvanceTypes DEF Fail, Rest
    <3> QED BY <1>3, <3>1, <3>2 DEF LoadInFreeFrame
  <2>7. OnPage' /\ Loaded'
    BY <1>2, <2>2, <2>6 DEF OnPage, Loaded, Current, Resident
  <2> QED BY <1>0, <1>3, <2>2, <2>3, <2>4, <2>5, <2>6, <2>7
          DEF LoadInFreeFrame, TypeInv, TypeOK, storageVars
<1>4. CASE Replace
  <2> DEFINE p == Current
  <2>1. PICK v \in Resident, cleared \in SUBSET Resident, pointer \in Frames :
          /\ block' = IF v \in Dirty /\ Accepts(v)
                      THEN [block EXCEPT ![v] = contenido[pagina[v].marco]] ELSE block
          /\ pagina' = Replaced(p, v, cleared)
          /\ marco_a_pagina' = [marco_a_pagina EXCEPT ![pagina[v].marco] = p]
          /\ contenido' = [contenido EXCEPT ![pagina[v].marco] =
                             IF block[p] # NoBlock THEN block[p] ELSE Zeros]
          /\ edad' = [AgesAfter(p, edad[v]) EXCEPT ![v] = Never]
          /\ clock_pointer' = pointer
          /\ mine' = IF block'[v] # block[v] THEN [mine EXCEPT ![v] = NoData] ELSE mine
    BY <1>4 DEF Replace
  <2>2. /\ v \in Pages /\ v # p /\ pagina[v].marco \in Frames
        /\ contenido[pagina[v].marco] \in Contents /\ pagina[v] \in PageState
    <3>1. v \in Pages /\ v # p
      BY <1>4 DEF Replace, Resident
    <3>2. pagina[v] \in PageState
      BY <1>0, <3>1
    <3>3. pagina[v].marco \in Frames
      BY <3>2 DEF PageState
    <3> QED BY <1>0, <3>1, <3>2, <3>3
  <2>3. /\ pagina' \in [Pages -> PageState] /\ pagina'[p].presente
    <3>1. 0 \in Frames
      BY MarcosAssumption DEF Frames
    <3>2. \A q \in Pages : pagina[q] \in PageState
      BY <1>0
    <3>3. \A q \in Pages : Replaced(p, v, cleared)[q] \in PageState
      BY <2>2, <3>1, <3>2 DEF Replaced, PageState
    <3>4. Replaced(p, v, cleared)[p].presente
      BY <1>2, <2>2 DEF Replaced, PageState
    <3>5. Replaced(p, v, cleared) = [q \in Pages |-> Replaced(p, v, cleared)[q]]
      BY DEF Replaced
    <3> QED BY <2>1, <3>3, <3>4, <3>5
  <2>4. marco_a_pagina' \in [Frames -> Pages \union {NoPage}]
    BY <1>0, <1>2, <2>1, <2>2
  <2>5. contenido' \in [Frames -> Contents]
    <3>1. (IF block[p] # NoBlock THEN block[p] ELSE Zeros) \in Contents
      BY <1>0, <1>2 DEF Contents
    <3> QED BY <1>0, <2>1, <2>2, <3>1
  <2>6. edad' \in [Pages -> 0 .. Never]
    BY <1>2, <2>1, <2>2, AgesTypes DEF TypeInv
  <2>7. block' \in [Pages -> Contents \union {NoBlock}]
    BY <1>0, <2>1, <2>2
  <2>8. mine' \in [Pages -> Contents \union {NoData}]
    BY <1>0, <2>1, <2>2
  <2>9. instr' \in InstrState /\ OnPage' /\ Loaded'
    <3>1. /\ instr' \in InstrState /\ instr'.ft = instr.ft /\ instr'.page = instr.page
      BY <1>0, <1>4 DEF Replace, InstrState
    <3> QED BY <1>2, <2>3, <3>1 DEF OnPage, Loaded, Current, Resident
  <2> QED BY <1>0, <1>4, <2>1, <2>3, <2>4, <2>5, <2>6, <2>7, <2>8, <2>9
          DEF Replace, TypeInv, TypeOK
<1>5. CASE ReadPage
  <2>1. pagina' \in [Pages -> PageState]
    BY <1>0, <1>2, <1>5 DEF ReadPage, PageState
  <2>2. edad' \in [Pages -> 0 .. Never]
    BY <1>2, <1>5, AgesTypes DEF ReadPage, TypeInv
  <2>3. instr' \in InstrState /\ OnPage' /\ Loaded'
    BY <1>1, <1>5, AdvanceTypes DEF ReadPage, OnPage, Loaded
  <2> QED BY <1>0, <1>5, <2>1, <2>2, <2>3 DEF ReadPage, TypeInv, TypeOK, storageVars
<1>6. CASE WritePage
  <2>1. pagina' \in [Pages -> PageState] /\ pagina'[Current].presente = pagina[Current].presente
    BY <1>0, <1>2, <1>6 DEF WritePage, PageState
  <2>2. edad' \in [Pages -> 0 .. Never]
    BY <1>2, <1>6, AgesTypes DEF WritePage, TypeInv
  <2>3. contenido' \in [Frames -> Contents]
    BY <1>0, <1>2, <1>6 DEF WritePage, Contents
  <2>4. mine' \in [Pages -> Contents \union {NoData}]
    BY <1>0, <1>2, <1>6 DEF WritePage
  <2>5. instr' \in InstrState /\ instr'.ft = instr.ft /\ instr'.page = instr.page
    BY <1>0, <1>6 DEF WritePage, InstrState
  <2>6. Current \in Resident
    BY <1>6 DEF WritePage, Accessible, TypeInv, Loaded
  <2>7. OnPage' /\ Loaded'
    BY <1>2, <2>1, <2>5, <2>6 DEF OnPage, Loaded, Current, Resident
  <2> QED BY <1>0, <1>6, <2>1, <2>2, <2>3, <2>4, <2>5, <2>7
          DEF WritePage, TypeInv, TypeOK, storageVars
<1>7. CASE SendPage
  <2>1. block' \in [Pages -> Contents \union {NoBlock}]
    BY <1>0, <1>2, <1>7 DEF SendPage
  <2>2. mine' \in [Pages -> Contents \union {NoData}]
    BY <1>0, <1>2, <1>7 DEF SendPage
  <2>3. instr' \in InstrState /\ OnPage' /\ Loaded'
    BY <1>1, <1>7, AdvanceTypes DEF SendPage, OnPage, Loaded
  <2> QED BY <1>0, <1>7, <2>1, <2>2, <2>3 DEF SendPage, TypeInv, TypeOK, memVars
<1> QED BY <1>3, <1>4, <1>5, <1>6, <1>7

\* Beginning an instruction and flushing.
LEMMA OtherTypes ==
  ASSUME TypeInv,
         BeginWrite \/ BeginRead \/ BeginFlush \/ BeginEvict \/ FlushPage \/ EndFlush
         \/ SendCommit
  PROVE  TypeInv'
<1>0. instr \in InstrState /\ Rest \in InstrState /\ Rest.at = "rest"
  BY LastPageAssumption DEF TypeInv, TypeOK, Rest, InstrState
<1>1. ASSUME NEW op \in {"WRITE", "READ"}, NEW ft \in FileTags, NEW from \in 0 .. LastPage,
             NEW upto \in 0 .. LastPage, Begin(op, ft, from, upto)
      PROVE  TypeInv'
  <2>1. /\ instr' \in InstrState /\ instr'.at = "memory" /\ instr'.ft = ft
    BY <1>0, <1>1 DEF Begin, Rest, InstrState
  <2>2. OnPage' /\ Loaded'
    BY <2>1 DEF OnPage, Loaded
  <2> QED BY <1>1, <2>1, <2>2 DEF Begin, TypeInv, TypeOK, storageVars
<1>2. ASSUME NEW op \in {"FLUSH", "COMMIT", "EVICT"}, NEW ft \in FileTags \union {NoFile},
             NEW pages \in SUBSET Pages, Flushing(op, ft, pages),
             ft \in FileTags \/ op # "COMMIT"
      PROVE  TypeInv'
  <2>1. /\ instr' \in InstrState /\ instr'.at = "flush"
        /\ instr'.ft = ft /\ instr'.op = op
    BY <1>0, <1>2 DEF Flushing, Rest, InstrState
  <2>2. OnPage' /\ Loaded'
    BY <1>2, <2>1 DEF OnPage, Loaded
  <2> QED BY <1>2, <2>1, <2>2 DEF Flushing, TypeInv, TypeOK, memVars, storageVars
<1>3. CASE FlushPage
  <2>1. PICK p \in instr.pending :
          /\ instr' = [instr EXCEPT !.pending = @ \ {p}]
          /\ \/ /\ block' = [block EXCEPT ![p] = contenido[pagina[p].marco]]
                /\ mine' = IF block'[p] # block[p] THEN [mine EXCEPT ![p] = NoData] ELSE mine
                /\ pagina' = [pagina EXCEPT ![p].modificada = FALSE]
             \/ UNCHANGED <<block, mine, pagina>>
    BY <1>3 DEF FlushPage
  <2>2. p \in Pages
    BY <1>0 DEF InstrState
  <2>3. pagina[p] \in PageState /\ contenido[pagina[p].marco] \in Contents
    BY <2>2 DEF TypeInv, TypeOK, PageState
  <2>4. pagina' \in [Pages -> PageState]
    <3>1. [pagina[p] EXCEPT !.modificada = FALSE] \in PageState
      BY <2>3 DEF PageState
    <3>2. \/ pagina' = [pagina EXCEPT ![p] = [pagina[p] EXCEPT !.modificada = FALSE]]
          \/ UNCHANGED pagina
      BY <2>1
    <3> QED BY <2>2, <3>1, <3>2 DEF TypeInv, TypeOK
  <2>5. /\ block' \in [Pages -> Contents \union {NoBlock}]
        /\ mine' \in [Pages -> Contents \union {NoData}]
    BY <2>1, <2>2, <2>3 DEF TypeInv, TypeOK
  <2>6. /\ instr' \in InstrState /\ instr'.at = "flush"
        /\ instr'.ft = instr.ft /\ instr'.op = instr.op
    BY <1>0, <1>3, <2>1 DEF FlushPage, InstrState
  <2>7. OnPage' /\ Loaded'
    BY <1>3, <2>6 DEF FlushPage, OnPage, Loaded, TypeInv
  <2> QED BY <1>3, <2>4, <2>5, <2>6, <2>7 DEF FlushPage, TypeInv, TypeOK
<1>4. CASE EndFlush \/ SendCommit
  <2>1. instr' \in InstrState /\ OnPage' /\ Loaded'
    BY <1>0, <1>4 DEF EndFlush, SendCommit, OnPage, Loaded
  <2>2. commited' \in SUBSET FileTags
    BY <1>4 DEF EndFlush, SendCommit, TypeInv, TypeOK, OnPage, storageVars
  <2>3. UNCHANGED <<memVars, block, mine>>
    BY <1>4 DEF EndFlush, SendCommit, storageVars
  <2> QED BY <2>1, <2>2, <2>3 DEF TypeInv, TypeOK, memVars
<1>5. CASE BeginFlush
  <2>1. PICK op \in {"FLUSH", "COMMIT"}, ft \in FileTags :
          Flushing(op, ft, {p \in Dirty : p[1] = ft})
    BY <1>5 DEF BeginFlush
  <2>2. {p \in Dirty : p[1] = ft} \in SUBSET Pages
    BY DEF Dirty
  <2> QED BY <1>2, <2>1, <2>2
<1>6. CASE BeginEvict
  <2>1. Dirty \in SUBSET Pages
    BY DEF Dirty
  <2> QED BY <1>2, <1>6, <2>1 DEF BeginEvict
<1>7. CASE BeginWrite \/ BeginRead
  BY <1>1, <1>7 DEF BeginWrite, BeginRead
<1> QED BY <1>3, <1>4, <1>5, <1>6, <1>7

\* The types are an inductive invariant.
LEMMA TypeStep == TypeInv /\ [Next]_vars => TypeInv'
<1> SUFFICES ASSUME TypeInv, [Next]_vars PROVE TypeInv'
  OBVIOUS
<1>1. CASE StorageWrites
  BY <1>1, StorageTypes DEF StorageWrites, TypeInv, TypeOK, Contents
<1>2. CASE StorageTruncates
  BY <1>2, StorageTypes DEF StorageTruncates, TypeInv, TypeOK, Contents
<1>3. CASE StorageDeletes
  BY <1>3, StorageTypes DEF StorageDeletes, TypeInv, TypeOK
<1>4. CASE StorageCommits
  BY <1>4, StorageTypes DEF StorageCommits, TypeInv, TypeOK
<1>5. CASE UNCHANGED vars
  BY <1>5, StorageTypes DEF vars, storageVars, TypeInv, TypeOK
<1> QED BY <1>1, <1>2, <1>3, <1>4, <1>5, AccessTypes, OtherTypes DEF Next

LEMMA TypeInvariant == Spec => []TypeInv
<1>1. Init => TypeInv
  <2> SUFFICES ASSUME Init PROVE TypeInv
    OBVIOUS
  <2>1. 0 \in Frames /\ 0 \in 0 .. LastPage /\ Never \in 0 .. Never
    BY MarcosAssumption, LastPageAssumption, NeverIsNumber DEF Frames
  <2> QED BY <2>1 DEF Init, New, Rest, TypeInv, TypeOK, OnPage, Loaded, PageState,
             InstrState, Contents
<1> QED BY <1>1, TypeStep, PTL DEF Spec

\* Whatever is loaded, replaced, flushed or refused, page tables, frames, ages,
\* the clock's pointer and the instruction under way keep their types.
THEOREM TypeCorrect == Spec => []TypeOK
<1>1. TypeInv => TypeOK
  BY DEF TypeInv
<1> QED BY <1>1, TypeInvariant, PTL

-----------------------------------------------------------------------------
(***************************************************************************)
(* Page tables and frames                                                  *)
(***************************************************************************)
LEMMA FramesStep ==
  TypeInv /\ FramesMatchPages /\ [Next]_vars => FramesMatchPages'
<1> SUFFICES ASSUME TypeInv, FramesMatchPages, [Next]_vars PROVE FramesMatchPages'
  OBVIOUS
<1>0. /\ pagina \in [Pages -> PageState] /\ NoPage \notin Pages
      /\ marco_a_pagina \in [Frames -> Pages \union {NoPage}]
  BY PageAssumption DEF TypeInv, TypeOK, Pages
<1>1. ASSUME UNCHANGED marco_a_pagina,
             \A p \in Pages : /\ pagina'[p].presente = pagina[p].presente
                              /\ pagina'[p].marco = pagina[p].marco
      PROVE  FramesMatchPages'
  BY <1>1 DEF FramesMatchPages
<1>2. CASE LoadInFreeFrame
  <2> DEFINE p == Current
             f == First(FreeFrames)
  <2>1. f \in Frames /\ marco_a_pagina[f] = NoPage
    BY <1>2, FreeFrameIsFrame DEF LoadInFreeFrame
  <2>2. p \in Pages /\ ~pagina[p].presente
    BY <1>2, CurrentIsPage DEF LoadInFreeFrame, Resident
  <2>3. marco_a_pagina' = [marco_a_pagina EXCEPT ![f] = p]
    BY <1>2 DEF LoadInFreeFrame
  <2>4. /\ pagina'[p].presente /\ pagina'[p].marco = f
        /\ \A q \in Pages \ {p} : pagina'[q] = pagina[q]
    BY <1>0, <1>2, <2>1, <2>2 DEF LoadInFreeFrame, PageState
  <2> HIDE DEF p, f
  <2> QED BY <1>0, <2>1, <2>2, <2>3, <2>4 DEF FramesMatchPages
<1>3. CASE Replace
  <2> DEFINE p == Current
  <2>1. PICK v \in Resident, cleared \in SUBSET Resident :
          /\ pagina' = Replaced(p, v, cleared)
          /\ marco_a_pagina' = [marco_a_pagina EXCEPT ![pagina[v].marco] = p]
    BY <1>3 DEF Replace
  <2>2. /\ p \in Pages /\ ~pagina[p].presente
        /\ v \in Pages /\ pagina[v].presente /\ pagina[v].marco \in Frames
    <3>1. p \in Pages /\ ~pagina[p].presente
      BY <1>3, CurrentIsPage DEF Replace, Resident
    <3>2. v \in Pages /\ pagina[v].presente
      BY DEF Resident
    <3> QED BY <1>0, <3>1, <3>2 DEF PageState
  <2>3. /\ ~pagina'[v].presente
        /\ pagina'[p].presente /\ pagina'[p].marco = pagina[v].marco
        /\ \A q \in Pages \ {p, v} : /\ pagina'[q].presente = pagina[q].presente
                                     /\ pagina'[q].marco = pagina[q].marco
    BY <1>0, <2>1, <2>2 DEF Replaced, PageState
  <2> HIDE DEF p
  <2> QED BY <1>0, <2>1, <2>2, <2>3 DEF FramesMatchPages
<1>4. CASE ReadPage \/ WritePage
  BY <1>0, <1>1, <1>4 DEF ReadPage, WritePage, PageState
<1>5. CASE FlushPage
  BY <1>0, <1>1, <1>5 DEF FlushPage, PageState
<1>6. CASE UNCHANGED <<pagina, marco_a_pagina>>
  BY <1>1, <1>6
<1> QED BY <1>2, <1>3, <1>4, <1>5, <1>6
        DEF Next, BeginWrite, BeginRead, Begin, SendPage, BeginFlush, BeginEvict,
            Flushing, EndFlush, SendCommit, StorageWrites, StorageTruncates,
            StorageDeletes, StorageCommits, memVars, vars

LEMMA FramesInvariant == Spec => []FramesMatchPages
<1>1. Init => FramesMatchPages
  BY PageAssumption DEF Init, New, FramesMatchPages, Pages
<1> QED BY <1>1, FramesStep, TypeInvariant, PTL DEF Spec

\* No two pages ever share a frame and no frame is lost: a load that fails half
\* way, a victim whose write-back is refused and either algorithm keep the page
\* tables and marco_a_pagina in agreement.
THEOREM FramesAgree == Spec => []FramesMatchPages
BY FramesInvariant

-----------------------------------------------------------------------------
(***************************************************************************)
(* What a Worker wrote                                                     *)
(***************************************************************************)
LEMMA OwnStep ==
  TypeInv /\ FramesMatchPages /\ ReadsOwnWrites /\ [Next]_vars => ReadsOwnWrites'
<1> SUFFICES ASSUME TypeInv, FramesMatchPages, ReadsOwnWrites, [Next]_vars,
                    NEW q \in Pages, mine'[q] # NoData
             PROVE  /\ block'[q] = mine'[q]
                    /\ q \in Resident' => contenido'[pagina'[q].marco] = mine'[q]
  BY DEF ReadsOwnWrites
<1>0. /\ pagina \in [Pages -> PageState] /\ contenido \in [Frames -> Contents]
      /\ marco_a_pagina \in [Frames -> Pages \union {NoPage}]
      /\ block \in [Pages -> Contents \union {NoBlock}]
      /\ mine \in [Pages -> Contents \union {NoData}]
      /\ NoPage \notin Pages /\ NoBlock \notin Contents
  BY PageAssumption, ContentsAssumption DEF TypeInv, TypeOK, Pages, Contents
<1>1. /\ mine[q] # NoData => block[q] = mine[q]
      /\ mine[q] # NoData /\ q \in Resident => contenido[pagina[q].marco] = mine[q]
      /\ \A x \in Pages, y \in Pages :
           (x \in Resident /\ y \in Resident
            /\ pagina[x].marco = pagina[y].marco) => x = y
  <2>1. \A x \in Resident : marco_a_pagina[pagina[x].marco] = x
    BY <1>0 DEF FramesMatchPages, Resident, PageState
  <2>2. /\ mine[q] # NoData => block[q] = mine[q]
        /\ mine[q] # NoData /\ q \in Resident => contenido[pagina[q].marco] = mine[q]
    BY DEF ReadsOwnWrites
  <2>3. \A x \in Pages, y \in Pages :
          (x \in Resident /\ y \in Resident
           /\ pagina[x].marco = pagina[y].marco) => x = y
    <3>1. ASSUME NEW x \in Pages, NEW y \in Pages, x \in Resident, y \in Resident,
                 pagina[x].marco = pagina[y].marco
          PROVE  x = y
      <4>1. marco_a_pagina[pagina[x].marco] = x /\ marco_a_pagina[pagina[y].marco] = y
        BY <2>1, <3>1
      <4> QED BY <3>1, <4>1
    <3> QED BY <3>1
  <2> QED BY <2>2, <2>3
<1>2. ASSUME mine'[q] = mine[q], block'[q] = block[q],
             q \in Resident' => q \in Resident /\ pagina'[q].marco = pagina[q].marco,
             q \in Resident => contenido'[pagina[q].marco] = contenido[pagina[q].marco]
      PROVE  /\ block'[q] = mine'[q]
             /\ q \in Resident' => contenido'[pagina'[q].marco] = mine'[q]
  BY <1>1, <1>2
<1>3. ASSUME UNCHANGED <<pagina, contenido>>, mine'[q] = mine[q], block'[q] = block[q]
      PROVE  /\ block'[q] = mine'[q]
             /\ q \in Resident' => contenido'[pagina'[q].marco] = mine'[q]
  BY <1>2, <1>3 DEF Resident
<1>4. CASE LoadInFreeFrame
  <2> DEFINE p == Current
             f == First(FreeFrames)
  <2>1. f \in Frames /\ marco_a_pagina[f] = NoPage
    BY <1>4, FreeFrameIsFrame DEF LoadInFreeFrame
  <2>2. p \in Pages /\ p \notin Resident
    BY <1>4, CurrentIsPage DEF LoadInFreeFrame
  <2>3. /\ pagina' = [pagina EXCEPT ![p].presente = TRUE, ![p].marco = f]
        /\ UNCHANGED <<block, mine>>
        /\ contenido' = IF block[p] # NoBlock THEN [contenido EXCEPT ![f] = block[p]]
                                              ELSE contenido
    BY <1>4 DEF LoadInFreeFrame, storageVars
  <2>4. pagina'[p].marco = f /\ \A x \in Pages \ {p} : pagina'[x] = pagina[x]
    BY <1>0, <2>2, <2>3 DEF PageState
  <2> HIDE DEF p, f
  <2>5. CASE q = p
    BY <1>0, <1>1, <2>1, <2>3, <2>4, <2>5
  <2>6. CASE q # p
    <3>1. q \in Resident => pagina[q].marco # f
      BY <1>0, <2>1 DEF FramesMatchPages, Resident
    <3> QED BY <1>0, <1>2, <2>3, <2>4, <2>6, <3>1 DEF Resident
  <2> QED BY <2>5, <2>6
<1>5. CASE Replace
  <2> DEFINE p == Current
  <2>1. PICK v \in Resident, cleared \in SUBSET Resident :
          /\ block' = IF v \in Dirty /\ Accepts(v)
                      THEN [block EXCEPT ![v] = contenido[pagina[v].marco]] ELSE block
          /\ pagina' = Replaced(p, v, cleared)
          /\ contenido' = [contenido EXCEPT ![pagina[v].marco] =
                             IF block[p] # NoBlock THEN block[p] ELSE Zeros]
          /\ mine' = IF block'[v] # block[v] THEN [mine EXCEPT ![v] = NoData] ELSE mine
    BY <1>5 DEF Replace
  <2>2. p \in Pages /\ p \notin Resident /\ v \in Pages /\ v # p
        /\ pagina[v].marco \in Frames
    <3>1. p \in Pages /\ p \notin Resident
      BY <1>5, CurrentIsPage DEF Replace
    <3>2. v \in Pages
      BY DEF Resident
    <3> QED BY <1>0, <3>1, <3>2 DEF PageState
  <2>3. /\ v \notin Resident'
        /\ pagina'[p].marco = pagina[v].marco
        /\ \A x \in Pages \ {p, v} : /\ pagina'[x].presente = pagina[x].presente
                                     /\ pagina'[x].marco = pagina[x].marco
    BY <1>0, <2>1, <2>2 DEF Replaced, PageState, Resident
  <2>4. mine'[q] = mine[q] /\ block'[q] = block[q]
    BY <1>0, <2>1, <2>2
  <2> HIDE DEF p
  <2>5. CASE q = p
    BY <1>0, <1>1, <2>1, <2>2, <2>3, <2>4, <2>5
  <2>6. CASE q = v
    BY <1>1, <2>3, <2>4, <2>6
  <2>7. CASE q \notin {p, v}
    <3>1. q \in Resident => pagina[q].marco # pagina[v].marco
      BY <1>1, <2>2, <2>7
    <3>2. q \in Resident' => q \in Resident /\ pagina'[q].marco = pagina[q].marco
      BY <2>3, <2>7 DEF Resident
    <3>3. q \in Resident => contenido'[pagina[q].marco] = contenido[pagina[q].marco]
      BY <1>0, <2>1, <3>1
    <3> QED BY <1>2, <2>4, <3>2, <3>3
  <2> QED BY <2>5, <2>6, <2>7
<1>6. CASE ReadPage
  <2>1. /\ UNCHANGED <<contenido, block, mine>>
        /\ pagina'[q].presente = pagina[q].presente
        /\ pagina'[q].marco = pagina[q].marco
    BY <1>0, <1>6 DEF ReadPage, storageVars, PageState
  <2> QED BY <1>2, <2>1 DEF Resident
<1>7. CASE WritePage
  <2>1. Current \in Resident /\ Current \in Pages
    <3>1. instr.at \in {"memory", "access", "send"}
      BY <1>7 DEF WritePage, Accessible
    <3> QED BY <1>7, <3>1, CurrentIsPage DEF WritePage, Accessible, TypeInv, Loaded
  <2>2. /\ mine' = [mine EXCEPT ![Current] = NoData] /\ UNCHANGED block
        /\ \E d : contenido' = [contenido EXCEPT ![pagina[Current].marco] = d]
        /\ pagina'[q].presente = pagina[q].presente
        /\ pagina'[q].marco = pagina[q].marco
    BY <1>0, <1>7 DEF WritePage, storageVars, PageState
  <2>3. q # Current /\ mine'[q] = mine[q]
    BY <1>0, <2>1, <2>2
  <2>4. q \in Resident => pagina[q].marco # pagina[Current].marco
    BY <1>1, <2>1, <2>3
  <2>5. q \in Resident => contenido'[pagina[q].marco] = contenido[pagina[q].marco]
    BY <1>0, <2>2, <2>4
  <2> QED BY <1>2, <2>2, <2>3, <2>5 DEF Resident
<1>8. CASE SendPage
  <2>1. UNCHANGED <<pagina, contenido>>
    BY <1>8 DEF SendPage, memVars
  <2>2. CASE q # Current \/ UNCHANGED <<block, mine>>
    BY <1>0, <1>3, <1>8, <2>1, <2>2 DEF SendPage
  <2>3. CASE q = Current /\ ~UNCHANGED <<block, mine>>
    BY <1>0, <1>8, <2>1, <2>3 DEF SendPage, Resident
  <2> QED BY <2>2, <2>3
<1>9. CASE FlushPage
  <2>1. PICK p \in instr.pending :
          \/ /\ block' = [block EXCEPT ![p] = contenido[pagina[p].marco]]
             /\ mine' = IF block'[p] # block[p] THEN [mine EXCEPT ![p] = NoData] ELSE mine
             /\ pagina' = [pagina EXCEPT ![p].modificada = FALSE]
          \/ UNCHANGED <<block, mine, pagina>>
    BY <1>9 DEF FlushPage
  <2>2. /\ pagina'[q].presente = pagina[q].presente
        /\ pagina'[q].marco = pagina[q].marco
    BY <1>0, <2>1 DEF PageState
  <2>3. mine'[q] = mine[q] /\ block'[q] = block[q]
    BY <1>0, <2>1
  <2>4. UNCHANGED contenido
    BY <1>9 DEF FlushPage
  <2> QED BY <1>2, <2>2, <2>3, <2>4 DEF Resident
<1>10. CASE StorageWrites
  BY <1>0, <1>3, <1>10 DEF StorageWrites, memVars
<1>11. CASE StorageTruncates
  BY <1>0, <1>3, <1>11 DEF StorageTruncates, memVars
<1>12. CASE StorageDeletes
  BY <1>0, <1>3, <1>12 DEF StorageDeletes, memVars
<1>13. CASE UNCHANGED <<pagina, contenido, block, mine>>
  BY <1>3, <1>13
<1> QED BY <1>4, <1>5, <1>6, <1>7, <1>8, <1>9, <1>10, <1>11, <1>12, <1>13
        DEF Next, BeginWrite, BeginRead, Begin, BeginFlush, BeginEvict, Flushing,
            EndFlush, SendCommit, StorageCommits, memVars, storageVars, vars

\* What a Worker wrote is what it reads, in memory or fetched again, until
\* somebody changes the page: with any number of frames, no replacement brings
\* older bytes back or mixes two pages up.
THEOREM ReadsWhatItWrote == Spec => []ReadsOwnWrites
<1>1. Init => ReadsOwnWrites
  BY DEF Init, ReadsOwnWrites
<1> QED BY <1>1, OwnStep, TypeInvariant, FramesInvariant, PTL DEF Spec

\* A page stops being modificada only when Storage has its bytes, or because it
\* lost its frame after Storage refused them.
THEOREM ModifiedIsStored == Spec => ModifiedReachesStorage
<1> DEFINE Stored ==
      \A p \in Pages :
       pagina[p].modificada /\ ~pagina'[p].modificada =>
         \/ block'[p] = contenido[pagina[p].marco]
         \/ ~Accepts(p) /\ ~pagina'[p].presente
<1>1. TypeInv /\ [Next]_vars => [Stored]_vars
  <2> SUFFICES ASSUME TypeInv, Next, NEW p \in Pages,
                      pagina[p].modificada, ~pagina'[p].modificada
               PROVE  \/ block'[p] = contenido[pagina[p].marco]
                      \/ ~Accepts(p) /\ ~pagina'[p].presente
    OBVIOUS
  <2>0. /\ pagina \in [Pages -> PageState] /\ pagina[p] \in PageState
        /\ block \in [Pages -> Contents \union {NoBlock}]
    BY DEF TypeInv, TypeOK
  <2>1. CASE Replace
    <3>1. PICK v \in Resident, cleared \in SUBSET Resident :
            /\ block' = IF v \in Dirty /\ Accepts(v)
                        THEN [block EXCEPT ![v] = contenido[pagina[v].marco]] ELSE block
            /\ pagina' = Replaced(Current, v, cleared)
      BY <2>1 DEF Replace
    <3>2. p = v /\ ~pagina'[p].presente
      BY <2>0, <3>1 DEF Replaced, PageState
    <3> QED BY <2>0, <3>1, <3>2 DEF Dirty
  <2>2. CASE FlushPage
    BY <2>0, <2>2 DEF FlushPage, PageState
  <2>3. CASE LoadInFreeFrame \/ ReadPage \/ WritePage
    BY <2>0, <2>3 DEF LoadInFreeFrame, ReadPage, WritePage, PageState
  <2> QED
    BY <2>1, <2>2, <2>3
       DEF Next, BeginWrite, BeginRead, Begin, SendPage, BeginFlush, BeginEvict,
           Flushing, EndFlush, SendCommit, StorageWrites, StorageTruncates,
           StorageDeletes, StorageCommits, memVars
<1> QED BY <1>1, TypeInvariant, PTL DEF Spec, ModifiedReachesStorage

-----------------------------------------------------------------------------
(***************************************************************************)
(* The clock                                                               *)
(***************************************************************************)
\* When every frame is taken the scan meets present pages only, and every one.
LEMMA ScanMeetsResident ==
  ASSUME TypeInv, FramesMatchPages, FreeFrames = {}
  PROVE  /\ \A k \in Frames : Scanned(k) \in Resident
         /\ \A p \in Resident : \E k \in Frames : Scanned(k) = p
<1>0. /\ clock_pointer \in Frames /\ pagina \in [Pages -> PageState]
      /\ \A f \in Frames : marco_a_pagina[f] \in Pages
  BY DEF TypeInv, TypeOK, FreeFrames
<1>1. \A f \in Frames : marco_a_pagina[f] \in Resident
  BY <1>0 DEF FramesMatchPages, Resident
<1>2. \A p \in Resident : pagina[p].marco \in Frames /\ marco_a_pagina[pagina[p].marco] = p
  BY <1>0 DEF FramesMatchPages, Resident, PageState
<1>3. ASSUME NEW k \in Frames PROVE Scanned(k) \in Resident
  BY <1>0, <1>1, ScanMeetsAll DEF Scanned
<1>4. ASSUME NEW p \in Resident PROVE \E k \in Frames : Scanned(k) = p
  <2>1. PICK k \in Frames : (clock_pointer + k) % Marcos = pagina[p].marco
    BY <1>0, <1>2, ScanMeetsAll
  <2> QED BY <1>2, <2>1 DEF Scanned
<1> QED BY <1>3, <1>4

\* Whatever the frames, the bits and where the pointer stands, the four passes
\* of CLOCK-M find a victim and no present page was a better one.
THEOREM ClockIsRight == Spec => []ClockTakesLowestClass
<1>1. TypeInv /\ FramesMatchPages => ClockTakesLowestClass
  <2> SUFFICES ASSUME TypeInv, FramesMatchPages, FreeFrames = {}
               PROVE  /\ Scanned(ClockChoice.at) \in Resident
                      /\ \A p \in Resident : Weight(Scanned(ClockChoice.at)) <= Weight(p)
    BY DEF ClockTakesLowestClass
  <2>0. /\ \A p \in Resident : pagina[p] \in PageState
        /\ \A k \in Frames : Scanned(k) \in Resident
        /\ \A p \in Resident : \E k \in Frames : Scanned(k) = p
        /\ 0 \in Frames
    BY ScanMeetsResident, MarcosAssumption DEF TypeInv, TypeOK, Resident, Frames
  <2>1. ASSUME NEW u \in BOOLEAN, NEW m \in BOOLEAN, Class(u, m) # {}
        PROVE  First(Class(u, m)) \in Class(u, m)
    BY <2>1, FirstIsLeast, MarcosAssumption DEF Class, Frames
  <2>2. ASSUME NEW u \in BOOLEAN, NEW m \in BOOLEAN, Class(u, m) = {}, NEW p \in Resident
        PROVE  ~(pagina[p].uso = u /\ pagina[p].modificada = m)
    BY <2>0, <2>2 DEF Class
  <2>3. \A p \in Resident : pagina[p].uso \in BOOLEAN /\ pagina[p].modificada \in BOOLEAN
    BY <2>0 DEF PageState
  <2> DEFINE cold == Class(FALSE, FALSE)
             dirty == Class(FALSE, TRUE)
             warm == Class(TRUE, FALSE)
  <2>4. CASE cold # {}
    <3>1. ClockChoice.at = First(cold) /\ First(cold) \in cold
      BY <2>1, <2>4 DEF ClockChoice
    <3>2. Scanned(First(cold)) \in Resident /\ Weight(Scanned(First(cold))) = 0
      BY <3>1 DEF Class, Weight
    <3>3. \A p \in Resident : 0 <= Weight(p)
      BY DEF Weight
    <3> QED BY <3>1, <3>2, <3>3
  <2>5. CASE cold = {} /\ dirty # {}
    <3>1. ClockChoice.at = First(dirty) /\ First(dirty) \in dirty
      BY <2>1, <2>5 DEF ClockChoice
    <3>2. \A p \in Resident : ~(pagina[p].uso = FALSE /\ pagina[p].modificada = FALSE)
      BY <2>2, <2>5
    <3>3. Scanned(First(dirty)) \in Resident /\ Weight(Scanned(First(dirty))) = 1
      BY <3>1 DEF Class, Weight
    <3>4. \A p \in Resident : 1 <= Weight(p)
      BY <2>3, <3>2 DEF Weight
    <3> QED BY <3>1, <3>3, <3>4
  <2>6. CASE cold = {} /\ dirty = {} /\ warm # {}
    <3>1. ClockChoice.at = First(warm) /\ First(warm) \in warm
      BY <2>1, <2>6 DEF ClockChoice
    <3>2. \A p \in Resident : ~(pagina[p].uso = FALSE)
      BY <2>2, <2>3, <2>6
    <3> QED BY <2>3, <3>1, <3>2 DEF Class, Weight
  <2>7. CASE cold = {} /\ dirty = {} /\ warm = {}
    <3>1. ClockChoice.at = 0
      BY <2>7 DEF ClockChoice
    <3>2. \A p \in Resident : pagina[p].uso /\ pagina[p].modificada
      BY <2>2, <2>3, <2>7
    <3> QED BY <2>0, <3>1, <3>2 DEF Weight
  <2> QED BY <2>4, <2>5, <2>6, <2>7
<1> QED BY <1>1, TypeInvariant, FramesInvariant, PTL
=============================================================================
