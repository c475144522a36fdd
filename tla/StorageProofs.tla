--------------------------- MODULE StorageProofs ----------------------------
(***************************************************************************)
(* Theorems about Storage, for any number of Workers, File:Tags, blocks    *)
(* and requests, any interleaving and restarts at any point.  The last     *)
(* part is about behaviours where requests come one at a time.             *)
(***************************************************************************)
EXTENDS Storage, TLAPS

\* A metadata names a physical block for each of its logical blocks.
WellFormed(md) == \A i \in Pages : i < md.tam => md.blocks[i] \in Blocks

\* Past its checks, a request changes another File:Tag than BASE.
Mutating == {"directory", "resize", "release", "hash", "lookup", "stat", "unlink",
             "link", "metadata", "open", "data"}
Targeted == {"copy", "unlink", "link", "metadata", "open", "data"}

SparesBase(r) ==
  /\ r.at \in Mutating \/ (r.op = "WRITE" /\ r.at = "copy") => r.ft # BASE
  /\ r.op = "TAG" /\ r.at = "copy" => r.dst # BASE

\* A WRITE aims inside its File:Tag, at a block that is not block 0.
AimsRight(r) ==
  /\ r.at = "lookup" => r.op = "COMMIT" /\ r.page < r.md.tam
  /\ r.op = "WRITE" /\ r.at \in Targeted \union {"stat"} => r.page < r.md.tam
  /\ r.op = "WRITE" /\ r.at \in Targeted => r.target \in Blocks \ {0}

ThreadOK(r) == r \in Thread /\ WellFormed(r.md) /\ SparesBase(r) /\ AimsRight(r)

FilesOK ==
  /\ files \in SUBSET FileTags
  /\ dirs \in SUBSET files
  /\ meta \in [FileTags -> Metadata \union {NoMeta}]
  /\ \A ft \in FileTags : meta[ft] # NoMeta => WellFormed(meta[ft])
LinkOK == link \in [FileTags -> [Pages -> Blocks \union {NoBlock}]]
ContentOK == content \in [Blocks -> Contents]
IndexOK == /\ index \in [Contents -> Blocks \union {NoBlock}]
           /\ saved \in [Contents -> Blocks \union {NoBlock}]
LockOK == lock \in [FileTags -> Workers \union {NoWorker}]
HistoryOK == /\ ops \in 0 .. MaxOps /\ disturbed \in BOOLEAN
             /\ expect \in [FileTags -> [Pages -> Contents \union {NoData}]]
ThreadsOK == /\ th \in [Workers -> Thread]
             /\ \A w \in Workers : ThreadOK(th[w])

IInv == /\ FilesOK /\ LinkOK /\ ContentOK /\ IndexOK /\ LockOK /\ HistoryOK
        /\ ThreadsOK /\ bitmap \in SUBSET Blocks
        /\ BlockZeroIntact

-----------------------------------------------------------------------------
(***************************************************************************)
(* The initial state                                                       *)
(***************************************************************************)
LEMMA ZeroIsThere == 0 \in Pages /\ 0 \in Blocks
BY SizesAssumption DEF Pages, Blocks

LEMMA ContentsThere == Initial \in Contents /\ Blank \in Contents /\ Torn \in Contents /\ Data \subseteq Contents
BY DEF Contents

LEMMA RestOK == ThreadOK(Rest)
BY SizesAssumption, BaseAssumption, ZeroIsThere
   DEF Rest, Empty, NoLinks, ThreadOK, Thread, WellFormed, SparesBase, AimsRight,
       Mutating, Targeted, Metadata, Pages, Contents, Locking, Entries

LEMMA EmptyOK == Empty \in Metadata /\ WellFormed(Empty)
BY SizesAssumption DEF Empty, NoLinks, Metadata, WellFormed, Pages

LEMMA InitOK == Init => IInv
<1> SUFFICES ASSUME Init PROVE IInv
  OBVIOUS
<1> USE SizesAssumption, BaseAssumption, DistinctAssumption, ZeroIsThere
        DEF create_bitmap, create_hash_index, create_physical_blocks, create_initial_file
<1> DEFINE base == [tam |-> 1, blocks |-> [NoLinks EXCEPT ![0] = 0], estado |-> "COMMITED"]
<1>1. base \in Metadata /\ WellFormed(base) /\ base.estado = "COMMITED"
  BY DEF Metadata, WellFormed, NoLinks, Pages
<1>2. base # NoMeta
  BY <1>1 DEF Metadata
<1>3. meta = [ft \in FileTags |-> IF ft = BASE THEN base ELSE NoMeta]
  BY DEF Init
<1> HIDE DEF base
<1>4. FilesOK
  BY <1>1, <1>2, <1>3 DEF Init, FilesOK
<1>5. LinkOK /\ LockOK /\ bitmap \in SUBSET Blocks
  BY DEF Init, LinkOK, LockOK, NoLinks
<1>9. ContentOK /\ IndexOK
  BY ContentsThere DEF Init, ContentOK, IndexOK
<1>10. HistoryOK
  <2>1. expect = [ft \in FileTags |->
                   [i \in Pages |-> IF ft = BASE /\ i = 0 THEN Initial ELSE NoData]]
    BY DEF Init
  <2>2. expect \in [FileTags -> [Pages -> Contents \union {NoData}]]
    BY <2>1, ContentsThere
  <2>3. ops \in 0 .. MaxOps
    BY DEF Init
  <2>4. disturbed \in BOOLEAN
    BY Zenon DEF Init
  <2>5. QED
    BY <2>2, <2>3, <2>4, Zenon DEF HistoryOK
<1>6. ThreadsOK
  <2>1. th = [w \in Workers |-> Rest] /\ Rest \in Thread
    BY RestOK DEF Init, ThreadOK
  <2>2. QED
    BY <2>1, RestOK DEF ThreadsOK
<1>7. BlockZeroIntact
  BY <1>1, <1>2, <1>3 DEF Init, BlockZeroIntact, NoLinks
<1>8. QED
  BY <1>4, <1>5, <1>6, <1>7, <1>9, <1>10 DEF IInv

-----------------------------------------------------------------------------
(***************************************************************************)
(* Threads                                                                 *)
(***************************************************************************)
LEMMA ThreadStep ==
  ASSUME ThreadsOK, NEW w \in Workers, NEW r, ThreadOK(r), th' = [th EXCEPT ![w] = r]
  PROVE  ThreadsOK'
<1>1. r \in Thread
  BY DEF ThreadOK
<1>2. \A v \in Workers : th'[v] = IF v = w THEN r ELSE th[v]
  BY DEF ThreadsOK
<1>3. th' \in [Workers -> Thread]
  BY <1>1 DEF ThreadsOK
<1>4. \A v \in Workers : ThreadOK(th'[v])
  BY <1>2 DEF ThreadsOK
<1>5. QED
  BY <1>3, <1>4 DEF ThreadsOK

LEMMA FinishOK ==
  ASSUME ThreadsOK, LockOK, NEW w \in Workers, Finish(w)
  PROVE  ThreadsOK' /\ LockOK'
<1>1. ThreadsOK'
  BY RestOK, ThreadStep DEF Finish
<1>2. LockOK'
  BY DEF Finish, Unlock, LockOK
<1>3. QED
  BY <1>1, <1>2

LEMMA RefuseOK == ASSUME IInv, NEW w \in Workers, Refuse(w) PROVE IInv'
<1>1. ThreadsOK' /\ LockOK'
  BY FinishOK DEF IInv, Refuse
<1>2. UNCHANGED <<fsVars, bitmap, indexVars, history, expect>>
  BY DEF Refuse
<1>3. QED
  BY <1>1, <1>2
     DEF IInv, FilesOK, LinkOK, ContentOK, IndexOK, HistoryOK, BlockZeroIntact, fsVars,
         indexVars, history

\* A step that changes only the thread's own state.
LEMMA OnlyThread ==
  ASSUME IInv, ThreadsOK', UNCHANGED <<fsVars, bitmap, indexVars, lock, history, expect>>
  PROVE  IInv'
BY DEF IInv, FilesOK, LinkOK, ContentOK, IndexOK, LockOK, HistoryOK, BlockZeroIntact,
       fsVars, indexVars, history

\* A step that releases a block, or writes a free block's bit, spares block 0.
LEMMA ReleasedOK == ASSUME IInv, NEW b PROVE Released(b) \in SUBSET Blocks /\ 0 \in Released(b)
<1>1. Linked(0)
  BY ZeroIsThere, BaseAssumption DEF IInv, BlockZeroIntact, Linked
<1>2. bitmap \in SUBSET Blocks /\ 0 \in bitmap
  BY DEF IInv, BlockZeroIntact
<1>3. QED
  BY <1>1, <1>2 DEF Released

LEMMA StartOK ==
  ASSUME IInv, NEW w \in Workers, NEW r, ThreadOK(r), Start(w, r) PROVE IInv'
<1>1. ThreadsOK'
  BY ThreadStep DEF Start, IInv
<1>2. LockOK'
  <2>1. r.ft \in FileTags
    BY DEF ThreadOK, Thread
  <2>2. QED
    BY <2>1 DEF Start, IInv, LockOK
<1>3. ops' \in 0 .. MaxOps /\ expect' = expect
  BY SizesAssumption DEF Start, IInv, HistoryOK
<1>4. disturbed' \in BOOLEAN
  <2>1. disturbed' = (disturbed \/ \E v \in Workers \ {w} : th[v].at # "rest")
    BY DEF Start
  <2>2. QED
    BY <2>1, Zenon
<1>5. HistoryOK'
  BY <1>3, <1>4, Zenon DEF IInv, HistoryOK
<1>6. UNCHANGED <<fsVars, bitmap, indexVars>>
  BY DEF Start
<1>7. QED
  BY <1>1, <1>2, <1>5, <1>6
     DEF IInv, FilesOK, LinkOK, ContentOK, IndexOK, BlockZeroIntact, fsVars, indexVars

LEMMA ReceiveOK == ASSUME IInv, NEW w \in Workers, Receive(w) PROVE IInv'
<1> USE DEF Request, Rest, ThreadOK, Thread, SparesBase, AimsRight, Mutating, Targeted,
            Locking
<1>0. Rest \in Thread /\ WellFormed(Empty)
  BY RestOK, EmptyOK
<1>1. PICK ft \in FileTags :
        \/ \E op \in {"CREATE", "COMMIT", "DELETE"} : Start(w, Request(op, ft))
        \/ \E size \in 0 .. MaxPages : Start(w, [Request("TRUNCATE", ft) EXCEPT !.size = size])
        \/ \E dst \in FileTags : Start(w, [Request("TAG", ft) EXCEPT !.dst = dst])
        \/ \E i \in Pages, d \in Data :
             Start(w, [Request("WRITE", ft) EXCEPT !.page = i, !.data = d])
  BY DEF Receive
<1>2. CASE \E op \in {"CREATE", "COMMIT", "DELETE"} : Start(w, Request(op, ft))
  <2>1. PICK op \in {"CREATE", "COMMIT", "DELETE"} : Start(w, Request(op, ft))
    BY <1>2
  <2>2. ThreadOK(Request(op, ft))
    BY <1>0
  <2>3. QED
    BY <2>1, <2>2, StartOK
<1>3. CASE \E size \in 0 .. MaxPages : Start(w, [Request("TRUNCATE", ft) EXCEPT !.size = size])
  <2>1. PICK size \in 0 .. MaxPages : Start(w, [Request("TRUNCATE", ft) EXCEPT !.size = size])
    BY <1>3
  <2>2. ThreadOK([Request("TRUNCATE", ft) EXCEPT !.size = size])
    BY <1>0
  <2>3. QED
    BY <2>1, <2>2, StartOK
<1>4. CASE \E dst \in FileTags : Start(w, [Request("TAG", ft) EXCEPT !.dst = dst])
  <2>1. PICK dst \in FileTags : Start(w, [Request("TAG", ft) EXCEPT !.dst = dst])
    BY <1>4
  <2>2. ThreadOK([Request("TAG", ft) EXCEPT !.dst = dst])
    BY <1>0
  <2>3. QED
    BY <2>1, <2>2, StartOK
<1>5. CASE \E i \in Pages, d \in Data :
             Start(w, [Request("WRITE", ft) EXCEPT !.page = i, !.data = d])
  <2>1. PICK i \in Pages, d \in Data :
          Start(w, [Request("WRITE", ft) EXCEPT !.page = i, !.data = d])
    BY <1>5
  <2>2. i \in 0 .. MaxPages /\ d \in Contents
    BY ContentsThere, SizesAssumption DEF Pages
  <2>3. ThreadOK([Request("WRITE", ft) EXCEPT !.page = i, !.data = d])
    BY <1>0, <2>2
  <2>4. QED
    BY <2>1, <2>3, StartOK
<1>6. QED
  BY <1>1, <1>2, <1>3, <1>4, <1>5

-----------------------------------------------------------------------------
(***************************************************************************)
(* CREATE and TRUNCATE                                                     *)
(***************************************************************************)
\* A check that passes leaves BASE to the requests it refuses.
LEMMA BaseIsThere ==
  ASSUME IInv PROVE BASE \in dirs /\ BASE \in files /\ ~Writable(BASE)
BY BaseAssumption DEF IInv, FilesOK, BlockZeroIntact, Writable

LEMMA MayStep ==
  ASSUME IInv, NEW w \in Workers
  PROVE  /\ th[w] \in Thread /\ WellFormed(th[w].md) /\ SparesBase(th[w]) /\ AimsRight(th[w])
         /\ th[w].ft \in FileTags /\ th[w].dst \in FileTags
         /\ th[w].page \in Nat /\ th[w].size \in 0 .. MaxPages
         /\ th[w].md \in Metadata /\ th[w].todo \in SUBSET Entries
BY SizesAssumption DEF IInv, ThreadsOK, ThreadOK, Thread

LEMMA CreateOK == ASSUME IInv, NEW w \in Workers, Create(w) PROVE IInv'
<1>1. CASE CreateCheck(w)
  <2>1. CASE Refuse(w)
    BY <2>1, RefuseOK
  <2>2. CASE /\ th[w].ft \notin files /\ Goto(w, "directory")
             /\ UNCHANGED <<fsVars, bitmap, indexVars, lock, history, expect>>
    <3> DEFINE r == [th[w] EXCEPT !.at = "directory"]
    <3>1. ThreadOK(r)
      BY <1>1, <2>2, MayStep, BaseIsThere
         DEF CreateCheck, At, ThreadOK, Thread, SparesBase, AimsRight, Targeted
    <3>2. th' = [th EXCEPT ![w] = r]
      BY <2>2 DEF Goto
    <3>3. QED
      BY <2>2, <3>1, <3>2, ThreadStep, OnlyThread DEF IInv
  <2>3. QED
    BY <1>1, <2>1, <2>2 DEF CreateCheck
<1>2. CASE CreateDirectory(w)
  <2>1. th[w].ft # BASE /\ th[w].ft \in FileTags
    BY <1>2, MayStep DEF CreateDirectory, At, SparesBase, Mutating
  <2>2. ThreadsOK' /\ LockOK'
    BY <1>2, FinishOK DEF CreateDirectory, IInv
  <2>3. FilesOK'
    BY <1>2, <2>1, EmptyOK DEF CreateDirectory, IInv, FilesOK
  <2>4. UNCHANGED <<link, content, bitmap, indexVars, history, expect>>
    BY <1>2 DEF CreateDirectory
  <2>5. BlockZeroIntact'
    BY <1>2, <2>1, <2>4 DEF CreateDirectory, IInv, FilesOK, BlockZeroIntact
  <2>6. QED
    BY <2>2, <2>3, <2>4, <2>5
       DEF IInv, LinkOK, ContentOK, IndexOK, HistoryOK, indexVars, history
<1>3. QED
  BY <1>1, <1>2 DEF Create

\* A step that sets logical block i of ft, which is not BASE, to b.
LEMMA LinkStep ==
  ASSUME IInv, NEW ft \in FileTags \ {BASE}, NEW i \in Pages, NEW b \in Blocks \union {NoBlock},
         link' = [link EXCEPT ![ft][i] = b],
         ThreadsOK', IndexOK', LockOK', bitmap' \in SUBSET Blocks, 0 \in bitmap',
         UNCHANGED <<files, dirs, meta, content, history, expect>>
  PROVE  IInv'
<1>1. LinkOK'
  BY DEF IInv, LinkOK
<1>2. link'[BASE] = link[BASE]
  BY BaseAssumption DEF IInv, LinkOK
<1>3. BlockZeroIntact'
  BY <1>2 DEF IInv, BlockZeroIntact
<1>4. QED
  BY <1>1, <1>3 DEF IInv, FilesOK, ContentOK, HistoryOK, history

LEMMA EnteredOK ==
  ASSUME NEW md \in Metadata, NEW tam \in 0 .. MaxPages, NEW i \in Pages,
         NEW b \in Blocks \union {NoBlock}, WellFormed(md),
         \A j \in Pages : j < tam => IF j = i THEN b \in Blocks ELSE j < md.tam
  PROVE  Entered(md, tam, i, b) \in Metadata /\ WellFormed(Entered(md, tam, i, b))
BY DEF Entered, Metadata, WellFormed

\* Block b is released: only the bitmap changes, and where the thread is.
LEMMA ReleaseStep ==
  ASSUME IInv, NEW b, ThreadsOK', bitmap' = Released(b),
         UNCHANGED <<fsVars, indexVars, lock, history, expect>>
  PROVE  IInv'
<1>1. bitmap' \in SUBSET Blocks /\ 0 \in bitmap'
  BY ReleasedOK
<1>2. QED
  BY <1>1 DEF IInv, FilesOK, LinkOK, ContentOK, IndexOK, LockOK, HistoryOK, BlockZeroIntact,
              fsVars, indexVars, history

\* Only the place in the request changes.
LEMMA GotoStep ==
  ASSUME IInv, NEW w \in Workers, NEW at, Goto(w, at), ThreadOK([th[w] EXCEPT !.at = at])
  PROVE  ThreadsOK'
BY ThreadStep DEF Goto, IInv

\* A metadata of another File:Tag than BASE is written.
LEMMA ExpectStep ==
  ASSUME IInv, ThreadsOK', FilesOK', meta'[BASE] = meta[BASE], IndexOK',
         expect' \in [FileTags -> [Pages -> Contents \union {NoData}]],
         UNCHANGED <<files, dirs, link, content, bitmap, lock, history>>
  PROVE  IInv'
<1>1. HistoryOK'
  BY DEF IInv, HistoryOK, history
<1>2. BlockZeroIntact'
  BY DEF IInv, BlockZeroIntact
<1>3. QED
  BY <1>1, <1>2 DEF IInv, LinkOK, ContentOK, LockOK

LEMMA TruncateOK == ASSUME IInv, NEW w \in Workers, Truncate(w) PROVE IInv'
<1> DEFINE ft == th[w].ft
<1>1. CASE TruncateCheck(w)
  <2>1. CASE Refuse(w)
    BY <2>1, RefuseOK
  <2>2. CASE /\ Writable(ft)
             /\ th' = [th EXCEPT ![w].md = meta[ft], ![w].at = "resize"]
             /\ UNCHANGED <<fsVars, bitmap, indexVars, lock, history, expect>>
    <3> DEFINE r == [th[w] EXCEPT !.md = meta[ft], !.at = "resize"]
    <3>1. ft # BASE /\ meta[ft] \in Metadata /\ WellFormed(meta[ft])
      BY <2>2, MayStep, BaseIsThere DEF Writable, IInv, FilesOK
    <3>2. ThreadOK(r)
      BY <1>1, <3>1, MayStep
         DEF TruncateCheck, At, ThreadOK, Thread, SparesBase, AimsRight, Targeted
    <3>3. th' = [th EXCEPT ![w] = r]
      BY <2>2
    <3>4. QED
      BY <2>2, <3>2, <3>3, ThreadStep, OnlyThread DEF IInv
  <2>3. QED
    BY <1>1, <2>1, <2>2 DEF TruncateCheck
<1>2. CASE TruncateGrow(w)
  <2> DEFINE n == th[w].md.tam
             r == [th[w] EXCEPT !.md = Entered(th[w].md, n + 1, n, 0)]
  <2>1. /\ th[w].op = "TRUNCATE" /\ th[w].at = "resize"
        /\ n < th[w].size
        /\ link' = [link EXCEPT ![ft][n] = 0]
        /\ th' = [th EXCEPT ![w].md = Entered(@, n + 1, n, 0)]
        /\ UNCHANGED <<files, dirs, meta, content, bitmap, indexVars, lock, history, expect>>
    BY <1>2 DEF TruncateGrow, At
  <2>2. n \in Pages /\ n \in 0 .. MaxPages /\ n + 1 \in 0 .. MaxPages
    BY <2>1, MayStep, SizesAssumption DEF Metadata, Pages
  <2>3. Entered(th[w].md, n + 1, n, 0) \in Metadata /\ WellFormed(Entered(th[w].md, n + 1, n, 0))
    BY <2>2, MayStep, ZeroIsThere, EnteredOK, SizesAssumption DEF Pages
  <2>4. ThreadOK(r) /\ ft # BASE
    BY <2>1, <2>3, MayStep
       DEF ThreadOK, Thread, SparesBase, AimsRight, Targeted, Mutating
  <2>5. th' = [th EXCEPT ![w] = r]
    BY <2>1
  <2>6. ThreadsOK'
    BY <2>4, <2>5, ThreadStep DEF IInv
  <2>7. QED
    BY <2>1, <2>2, <2>4, <2>6, MayStep, LinkStep, ZeroIsThere
       DEF IInv, IndexOK, LockOK, BlockZeroIntact, indexVars
<1>3. CASE TruncateShrink(w)
  <2> DEFINE n == th[w].md.tam - 1
             r == [th[w] EXCEPT !.md = Entered(th[w].md, n, n, NoBlock),
                                !.target = th[w].md.blocks[n], !.at = "release"]
  <2>1. /\ th[w].op = "TRUNCATE" /\ th[w].at = "resize"
        /\ n >= th[w].size
        /\ link' = [link EXCEPT ![ft][n] = NoBlock]
        /\ th' = [th EXCEPT ![w].md = Entered(@, n, n, NoBlock),
                            ![w].target = th[w].md.blocks[n], ![w].at = "release"]
        /\ UNCHANGED <<files, dirs, meta, content, bitmap, indexVars, lock, history, expect>>
    BY <1>3 DEF TruncateShrink, At
  <2>2. n \in Pages /\ n \in 0 .. MaxPages
    BY <2>1, MayStep, SizesAssumption DEF Metadata, Pages
  <2>3. Entered(th[w].md, n, n, NoBlock) \in Metadata
          /\ WellFormed(Entered(th[w].md, n, n, NoBlock))
    <3>1. \A j \in Pages : j < n => IF j = n THEN NoBlock \in Blocks ELSE j < th[w].md.tam
      BY <2>2, MayStep DEF Pages, Metadata
    <3>2. th[w].md \in Metadata /\ WellFormed(th[w].md)
      BY MayStep
    <3>3. NoBlock \in Blocks \union {NoBlock}
      OBVIOUS
    <3>4. QED
      BY <2>2, <3>1, <3>2, <3>3, EnteredOK, Zenon
  <2>4. th[w].md.blocks[n] \in Blocks \union {NoBlock}
    BY <2>2, MayStep DEF Metadata
  <2>5. ThreadOK(r) /\ ft # BASE
    BY <2>1, <2>3, <2>4, MayStep
       DEF ThreadOK, Thread, SparesBase, AimsRight, Targeted, Mutating
  <2>6. th' = [th EXCEPT ![w] = r]
    BY <2>1
  <2>7. ThreadsOK'
    BY <2>5, <2>6, ThreadStep DEF IInv
  <2>8. QED
    BY <2>1, <2>2, <2>5, <2>7, MayStep, LinkStep
       DEF IInv, IndexOK, LockOK, BlockZeroIntact, indexVars
<1>4. CASE TruncateRelease(w)
  <2>1. ThreadOK([th[w] EXCEPT !.at = "resize"])
    BY <1>4, MayStep DEF TruncateRelease, At, ThreadOK, Thread, SparesBase, AimsRight,
                         Targeted, Mutating
  <2>2. ThreadsOK'
    BY <1>4, <2>1, GotoStep DEF TruncateRelease
  <2>3. QED
    BY <1>4, <2>2, ReleaseStep DEF TruncateRelease
<1>5. CASE TruncateMetadata(w)
  <2>1. ThreadOK([th[w] EXCEPT !.at = "rebuild"]) /\ ft # BASE
    BY <1>5, MayStep DEF TruncateMetadata, At, ThreadOK, Thread, SparesBase, AimsRight,
                         Targeted, Mutating
  <2>2. ThreadsOK'
    BY <1>5, <2>1, GotoStep DEF TruncateMetadata
  <2>3. FilesOK' /\ meta'[BASE] = meta[BASE]
    BY <1>5, <2>1, MayStep, BaseAssumption DEF TruncateMetadata, IInv, FilesOK
  <2>4. expect' \in [FileTags -> [Pages -> Contents \union {NoData}]]
    <3> DEFINE old == expect[ft]
               new == [i \in Pages |-> IF i >= th[w].size THEN NoData
                                       ELSE IF old[i] = NoData THEN Initial ELSE old[i]]
    <3>1. expect' = [expect EXCEPT ![ft] = new]
      BY <1>5 DEF TruncateMetadata
    <3>2. new \in [Pages -> Contents \union {NoData}]
      BY ContentsThere, MayStep DEF IInv, HistoryOK
    <3>3. QED
      BY <3>1, <3>2 DEF IInv, HistoryOK
  <2>5. QED
    BY <1>5, <2>2, <2>3, <2>4, ExpectStep DEF TruncateMetadata, IInv, IndexOK, indexVars
<1>6. QED
  BY <1>1, <1>2, <1>3, <1>4, <1>5 DEF Truncate

-----------------------------------------------------------------------------
(***************************************************************************)
(* TAG                                                                     *)
(***************************************************************************)
\* A step of a copy takes entries off the list of those still to copy.
LEMMA CopyStep ==
  ASSUME IInv, NEW w \in Workers, At(w, "TAG", "copy"), NEW e,
         th' = [th EXCEPT ![w].todo = @ \ {e}]
  PROVE  ThreadsOK' /\ th[w].dst \in FileTags \ {BASE}
<1> DEFINE r == [th[w] EXCEPT !.todo = @ \ {e}]
<1>1. ThreadOK(r) /\ th[w].dst \in FileTags \ {BASE}
  BY MayStep DEF At, ThreadOK, Thread, SparesBase, AimsRight, Mutating, Targeted
<1>2. th' = [th EXCEPT ![w] = r]
  OBVIOUS
<1>3. QED
  BY <1>1, <1>2, ThreadStep DEF IInv

LEMMA TagOK == ASSUME IInv, NEW w \in Workers, Tag(w) PROVE IInv'
<1> DEFINE ft == th[w].ft
           dst == th[w].dst
<1>1. CASE TagCheck(w)
  <2>1. CASE Refuse(w)
    BY <2>1, RefuseOK
  <2>2. CASE /\ dst \notin dirs
             /\ files' = files \union {dst} /\ dirs' = dirs \union {dst}
             /\ th' = [th EXCEPT ![w].todo = Entries, ![w].at = "copy"]
             /\ UNCHANGED <<meta, link, content, bitmap, indexVars, lock, history, expect>>
    <3> DEFINE r == [th[w] EXCEPT !.todo = Entries, !.at = "copy"]
    <3>1. dst # BASE /\ dst \in FileTags /\ th[w].op = "TAG"
      BY <1>1, <2>2, MayStep, BaseIsThere DEF TagCheck, At
    <3>2. ThreadOK(r)
      BY <3>1, MayStep DEF ThreadOK, Thread, SparesBase, AimsRight, Mutating, Targeted
    <3>3. th' = [th EXCEPT ![w] = r]
      BY <2>2
    <3>4. ThreadsOK'
      BY <3>2, <3>3, ThreadStep DEF IInv
    <3>5. FilesOK' /\ BASE \in dirs'
      BY <2>2, <3>1, BaseIsThere DEF IInv, FilesOK
    <3>6. QED
      BY <2>2, <3>4, <3>5
         DEF IInv, LinkOK, ContentOK, IndexOK, LockOK, HistoryOK, BlockZeroIntact,
             indexVars, history
  <2>3. QED
    BY <1>1, <2>1, <2>2 DEF TagCheck
<1>2. CASE TagSkip(w)
  <2>1. PICK e \in th[w].todo : th' = [th EXCEPT ![w].todo = @ \ {e}]
    BY <1>2 DEF TagSkip
  <2>2. ThreadsOK'
    BY <1>2, <2>1, CopyStep DEF TagSkip
  <2>3. QED
    BY <1>2, <2>2, OnlyThread DEF TagSkip
<1>3. CASE TagCopyMetadata(w)
  <2>1. ThreadsOK' /\ dst \in FileTags \ {BASE}
    BY <1>3, CopyStep DEF TagCopyMetadata
  <2>2. FilesOK' /\ meta'[BASE] = meta[BASE]
    BY <1>3, <2>1, MayStep, BaseAssumption DEF TagCopyMetadata, IInv, FilesOK
  <2>3. QED
    BY <1>3, <2>1, <2>2, ExpectStep
       DEF TagCopyMetadata, IInv, IndexOK, HistoryOK, indexVars
<1>4. CASE TagLink(w)
  <2>1. PICK i \in th[w].todo \ {MetadataConfig} :
          /\ link' = [link EXCEPT ![dst][i] = link[ft][i]]
          /\ th' = [th EXCEPT ![w].todo = @ \ {i}]
    BY <1>4 DEF TagLink
  <2>2. ThreadsOK' /\ dst \in FileTags \ {BASE}
    BY <1>4, <2>1, CopyStep DEF TagLink
  <2>3. i \in Pages /\ link[ft][i] \in Blocks \union {NoBlock}
    BY MayStep DEF IInv, LinkOK, Entries
  <2>4. QED
    BY <1>4, <2>1, <2>2, <2>3, LinkStep
       DEF TagLink, IInv, IndexOK, LockOK, BlockZeroIntact, indexVars
<1>5. CASE TagFails(w)
  BY <1>5, RefuseOK DEF TagFails
<1>6. CASE TagMetadata(w)
  <2>1. ThreadOK([th[w] EXCEPT !.at = "rebuild"]) /\ dst \in FileTags \ {BASE}
    BY <1>6, MayStep DEF TagMetadata, At, ThreadOK, Thread, SparesBase, AimsRight,
                         Targeted, Mutating
  <2>2. ThreadsOK'
    BY <1>6, <2>1, GotoStep DEF TagMetadata
  <2>3. FilesOK' /\ meta'[BASE] = meta[BASE]
    <3>1. CASE meta[dst] # NoMeta
      <4> DEFINE md == [meta[dst] EXCEPT !.estado = "WORK_IN_PROGRESS"]
      <4>1. meta' = [meta EXCEPT ![dst] = md]
        BY <1>6, <3>1 DEF TagMetadata
      <4>2. md \in Metadata /\ WellFormed(md)
        BY <2>1, <3>1 DEF IInv, FilesOK, Metadata, WellFormed
      <4>3. QED
        BY <1>6, <2>1, <4>1, <4>2, BaseAssumption DEF TagMetadata, IInv, FilesOK
    <3>2. CASE meta[dst] = NoMeta
      BY <1>6, <3>2 DEF TagMetadata, IInv, FilesOK
    <3>3. QED
      BY <3>1, <3>2
  <2>4. expect' \in [FileTags -> [Pages -> Contents \union {NoData}]]
    BY <1>6, <2>1, MayStep DEF TagMetadata, IInv, HistoryOK
  <2>5. QED
    BY <1>6, <2>2, <2>3, <2>4, ExpectStep DEF TagMetadata, IInv, IndexOK, indexVars
<1>7. QED
  BY <1>1, <1>2, <1>3, <1>4, <1>5, <1>6 DEF Tag

-----------------------------------------------------------------------------
(***************************************************************************)
(* COMMIT                                                                  *)
(***************************************************************************)
LEMMA CommitOK == ASSUME IInv, NEW w \in Workers, Commit(w) PROVE IInv'
<1> DEFINE ft == th[w].ft
<1>1. CASE CommitCheck(w)
  <2>1. CASE Refuse(w)
    BY <2>1, RefuseOK
  <2>2. CASE /\ Writable(ft)
             /\ th' = [th EXCEPT ![w].md = meta[ft], ![w].at = "hash"]
             /\ UNCHANGED <<fsVars, bitmap, indexVars, lock, history, expect>>
    <3> DEFINE r == [th[w] EXCEPT !.md = meta[ft], !.at = "hash"]
    <3>1. ft # BASE /\ meta[ft] \in Metadata /\ WellFormed(meta[ft])
      BY <2>2, MayStep, BaseIsThere DEF Writable, IInv, FilesOK
    <3>2. ThreadOK(r)
      BY <1>1, <3>1, MayStep
         DEF CommitCheck, At, ThreadOK, Thread, SparesBase, AimsRight, Targeted
    <3>3. th' = [th EXCEPT ![w] = r]
      BY <2>2
    <3>4. QED
      BY <2>2, <3>2, <3>3, ThreadStep, OnlyThread DEF IInv
  <2>3. QED
    BY <1>1, <2>1, <2>2 DEF CommitCheck
<1>2. CASE CommitHash(w)
  <2>1. PICK c \in Contents : th' = [th EXCEPT ![w].data = c, ![w].at = "lookup"]
    BY <1>2 DEF CommitHash
  <2> DEFINE r == [th[w] EXCEPT !.data = c, !.at = "lookup"]
  <2>2. ThreadOK(r)
    BY <1>2, MayStep
       DEF CommitHash, At, ThreadOK, Thread, SparesBase, AimsRight, Targeted, Mutating
  <2>3. th' = [th EXCEPT ![w] = r]
    BY <2>1
  <2>4. QED
    BY <1>2, <2>2, <2>3, ThreadStep, OnlyThread DEF CommitHash, IInv
<1>3. CASE CommitLookup(w)
  <2> DEFINE i == th[w].page
             md == th[w].md
             b == md.blocks[i]
             found == index[th[w].data]
  <2>1. /\ th[w].op = "COMMIT" /\ th[w].at = "lookup" /\ ft \in FileTags \ {BASE}
        /\ i \in Pages /\ i < md.tam /\ i + 1 \in 0 .. MaxPages /\ b \in Blocks
        /\ found \in Blocks \union {NoBlock} /\ md.tam \in 0 .. MaxPages
    <3>1. th[w].op = "COMMIT" /\ th[w].at = "lookup"
      BY <1>3 DEF CommitLookup, At
    <3>2. i \in Nat /\ i < md.tam /\ md.tam \in 0 .. MaxPages
      BY <3>1, MayStep DEF AimsRight, Metadata
    <3>3. i \in Pages /\ i + 1 \in 0 .. MaxPages
      BY <3>2, SizesAssumption DEF Pages
    <3>4. found \in Blocks \union {NoBlock}
      BY MayStep DEF IInv, IndexOK, Thread
    <3>5. QED
      BY <3>1, <3>2, <3>3, <3>4, MayStep DEF SparesBase, Mutating, WellFormed
  <2>2. UNCHANGED <<files, dirs, meta, content, bitmap, saved, lock, history, expect>>
    BY <1>3 DEF CommitLookup
  <2>3. CASE /\ found \notin {NoBlock, b}
             /\ link' = [link EXCEPT ![ft][i] = found]
             /\ th' = [th EXCEPT ![w].page = i + 1, ![w].md = Entered(@, @.tam, i, found),
                                 ![w].target = b, ![w].at = "release"]
             /\ index' = index
    <3> DEFINE new == Entered(md, md.tam, i, found)
               r == [th[w] EXCEPT !.page = i + 1, !.md = new, !.target = b, !.at = "release"]
    <3>1. new \in Metadata /\ WellFormed(new)
      <4>1. found \in Blocks
        BY <2>1, <2>3
      <4>2. \A j \in Pages : j < md.tam => IF j = i THEN found \in Blocks ELSE j < md.tam
        BY <4>1
      <4>3. md \in Metadata /\ WellFormed(md)
        BY MayStep
      <4>4. QED
        BY <2>1, <4>2, <4>3, EnteredOK, Zenon
    <3>2. ThreadOK(r)
      BY <2>1, <3>1, MayStep DEF ThreadOK, Thread, SparesBase, AimsRight, Mutating, Targeted
    <3>3. th' = [th EXCEPT ![w] = r]
      BY <2>3
    <3>4. ThreadsOK'
      BY <3>2, <3>3, ThreadStep DEF IInv
    <3>5. QED
      BY <2>1, <2>2, <2>3, <3>4, LinkStep DEF IInv, IndexOK, LockOK, BlockZeroIntact
  <2>4. CASE /\ index' \in {index, [index EXCEPT ![th[w].data] = b]}
             /\ th' = [th EXCEPT ![w].page = i + 1, ![w].at = "hash"]
             /\ link' = link
    <3> DEFINE r == [th[w] EXCEPT !.page = i + 1, !.at = "hash"]
    <3>2. ThreadOK(r)
      BY <2>1, MayStep DEF ThreadOK, Thread, SparesBase, AimsRight, Mutating, Targeted
    <3>3. th' = [th EXCEPT ![w] = r]
      BY <2>4
    <3>4. ThreadsOK'
      BY <3>2, <3>3, ThreadStep DEF IInv
    <3>5. IndexOK'
      BY <2>1, <2>2, <2>4, MayStep DEF IInv, IndexOK, Thread
    <3>6. QED
      BY <2>2, <2>4, <3>4, <3>5
         DEF IInv, FilesOK, LinkOK, ContentOK, LockOK, HistoryOK, BlockZeroIntact, history
  <2>5. QED
    BY <1>3, <2>3, <2>4 DEF CommitLookup, hash_index_find_block, hash_index_add_entry
<1>4. CASE CommitRelease(w)
  <2>1. ThreadOK([th[w] EXCEPT !.at = "hash"])
    BY <1>4, MayStep DEF CommitRelease, At, ThreadOK, Thread, SparesBase, AimsRight,
                         Targeted, Mutating
  <2>2. ThreadsOK'
    BY <1>4, <2>1, GotoStep DEF CommitRelease
  <2>3. QED
    BY <1>4, <2>2, ReleaseStep DEF CommitRelease
<1>5. CASE CommitMetadata(w)
  <2>1. ThreadOK([th[w] EXCEPT !.at = "rebuild"]) /\ ft \in FileTags \ {BASE}
    BY <1>5, MayStep DEF CommitMetadata, At, ThreadOK, Thread, SparesBase, AimsRight,
                         Targeted, Mutating
  <2>2. ThreadsOK'
    BY <1>5, <2>1, GotoStep DEF CommitMetadata
  <2>3. FilesOK' /\ meta'[BASE] = meta[BASE]
    <3> DEFINE md == [th[w].md EXCEPT !.estado = "COMMITED"]
    <3>1. md \in Metadata /\ WellFormed(md)
      BY MayStep DEF Metadata, WellFormed
    <3>2. meta' = IF ft \in dirs THEN [meta EXCEPT ![ft] = md] ELSE meta
      BY <1>5 DEF CommitMetadata
    <3>3. QED
      BY <1>5, <2>1, <3>1, <3>2, BaseAssumption DEF CommitMetadata, IInv, FilesOK
  <2>4. expect' \in [FileTags -> [Pages -> Contents \union {NoData}]]
    <3> DEFINE new == [i \in Pages |->
                         IF link[ft][i] = NoBlock THEN NoData ELSE content[link[ft][i]]]
    <3>1. expect' = [expect EXCEPT ![ft] = new]
      BY <1>5 DEF CommitMetadata
    <3>2. new \in [Pages -> Contents \union {NoData}]
      BY <2>1 DEF IInv, LinkOK, ContentOK
    <3>3. QED
      BY <3>1, <3>2 DEF IInv, HistoryOK
  <2>5. QED
    BY <1>5, <2>2, <2>3, <2>4, ExpectStep
       DEF CommitMetadata, hash_index_sync_to_disk, IInv, IndexOK
<1>6. QED
  BY <1>1, <1>2, <1>3, <1>4, <1>5 DEF Commit

-----------------------------------------------------------------------------
(***************************************************************************)
(* WRITE                                                                   *)
(***************************************************************************)
\* What holds of a WRITE that passed its checks.
LEMMA WriteFacts ==
  ASSUME IInv, NEW w \in Workers, th[w].op = "WRITE", th[w].at \in Targeted \union {"stat"}
  PROVE  /\ th[w].ft \in FileTags \ {BASE} /\ th[w].page \in Pages
         /\ th[w].page < th[w].md.tam /\ th[w].md.tam \in 0 .. MaxPages
         /\ th[w].md.blocks[th[w].page] \in Blocks
         /\ th[w].at # "stat" => th[w].target \in Blocks \ {0}
<1>1. th[w].page < th[w].md.tam /\ th[w].md.tam \in 0 .. MaxPages /\ th[w].page \in Nat
  BY MayStep DEF AimsRight, Metadata
<1>2. th[w].page \in Pages
  BY <1>1, SizesAssumption DEF Pages
<1>3. QED
  BY <1>1, <1>2, MayStep DEF AimsRight, SparesBase, Mutating, Targeted, WellFormed

\* A step of a WRITE that moves to another place keeps its thread right.
LEMMA WriteGoto ==
  ASSUME IInv, NEW w \in Workers, th[w].op = "WRITE", th[w].at \in Targeted,
         NEW at \in {"unlink", "link", "metadata", "open", "data"}, Goto(w, at)
  PROVE  ThreadsOK'
<1>1. ThreadOK([th[w] EXCEPT !.at = at])
  BY MayStep, WriteFacts DEF ThreadOK, Thread, SparesBase, AimsRight, Mutating, Targeted
<1>2. QED
  BY <1>1, GotoStep

\* A block that is not block 0 is given a content.
LEMMA ContentStep ==
  ASSUME IInv, NEW b \in Blocks \ {0}, NEW c \in Contents, content' = [content EXCEPT ![b] = c],
         ThreadsOK', LockOK', HistoryOK',
         UNCHANGED <<files, dirs, meta, link, bitmap, indexVars>>
  PROVE  IInv'
<1>1. ContentOK' /\ content'[0] = content[0]
  BY ZeroIsThere DEF IInv, ContentOK
<1>2. QED
  BY <1>1 DEF IInv, FilesOK, LinkOK, IndexOK, BlockZeroIntact, indexVars

LEMMA WriteReserveOK == ASSUME IInv, NEW w \in Workers, WriteReserve(w) PROVE IInv'
<1> DEFINE b == th[w].md.blocks[th[w].page]
<1>1. th[w].op = "WRITE" /\ th[w].at = "stat" /\ UNCHANGED <<fsVars, indexVars, history, expect>>
  BY DEF WriteReserve, At
<1>2. SUFFICES ThreadsOK' /\ LockOK' /\ bitmap' \in SUBSET Blocks /\ 0 \in bitmap'
  BY <1>1, <1>2
     DEF IInv, FilesOK, LinkOK, ContentOK, IndexOK, HistoryOK, BlockZeroIntact, fsVars,
         indexVars, history
<1>3. CASE /\ b # 0
           /\ th' = [th EXCEPT ![w].target = b, ![w].at = "open"]
           /\ UNCHANGED <<bitmap, lock>>
  <2> DEFINE r == [th[w] EXCEPT !.target = b, !.at = "open"]
  <2>1. ThreadOK(r)
    BY <1>1, <1>3, MayStep, WriteFacts
       DEF ThreadOK, Thread, SparesBase, AimsRight, Mutating, Targeted
  <2>2. th' = [th EXCEPT ![w] = r]
    BY <1>3
  <2>3. QED
    BY <1>3, <2>1, <2>2, ThreadStep DEF IInv, LockOK, BlockZeroIntact
<1>4. CASE /\ \E free \in FirstFree :
                /\ bitmap' = bitmap \union {free}
                /\ th' = [th EXCEPT ![w].target = free, ![w].at = "copy"]
           /\ lock' = lock
  <2>1. PICK free \in FirstFree :
          /\ bitmap' = bitmap \union {free}
          /\ th' = [th EXCEPT ![w].target = free, ![w].at = "copy"]
    BY <1>4
  <2>2. free \in Blocks \ {0}
    BY DEF FirstFree, FreeBlocks, IInv, BlockZeroIntact
  <2> DEFINE r == [th[w] EXCEPT !.target = free, !.at = "copy"]
  <2>3. ThreadOK(r)
    BY <1>1, <2>2, MayStep, WriteFacts
       DEF ThreadOK, Thread, SparesBase, AimsRight, Mutating, Targeted
  <2>4. th' = [th EXCEPT ![w] = r]
    BY <2>1
  <2>5. QED
    BY <1>4, <2>1, <2>2, <2>3, <2>4, ThreadStep DEF IInv, LockOK, BlockZeroIntact
<1>5. CASE Finish(w) /\ bitmap' = bitmap
  BY <1>5, FinishOK DEF IInv, BlockZeroIntact
<1>6. QED
  BY <1>3, <1>4, <1>5 DEF WriteReserve

LEMMA WriteOK == ASSUME IInv, NEW w \in Workers, Write(w) PROVE IInv'
<1> DEFINE ft == th[w].ft
<1>1. CASE WriteCheck(w)
  <2>1. CASE Refuse(w)
    BY <2>1, RefuseOK
  <2>2. CASE /\ Writable(ft) /\ th[w].page < meta[ft].tam
             /\ th' = [th EXCEPT ![w].md = meta[ft], ![w].at = "stat"]
             /\ UNCHANGED <<fsVars, bitmap, indexVars, lock, history, expect>>
    <3> DEFINE r == [th[w] EXCEPT !.md = meta[ft], !.at = "stat"]
    <3>1. ft # BASE /\ meta[ft] \in Metadata /\ WellFormed(meta[ft])
      BY <2>2, MayStep, BaseIsThere DEF Writable, IInv, FilesOK
    <3>2. ThreadOK(r)
      BY <1>1, <2>2, <3>1, MayStep
         DEF WriteCheck, At, ThreadOK, Thread, SparesBase, AimsRight, Targeted
    <3>3. th' = [th EXCEPT ![w] = r]
      BY <2>2
    <3>4. QED
      BY <2>2, <3>2, <3>3, ThreadStep, OnlyThread DEF IInv
  <2>3. QED
    BY <1>1, <2>1, <2>2 DEF WriteCheck
<1>2. CASE WriteReserve(w)
  BY <1>2, WriteReserveOK
<1>3. CASE WriteCopy(w)
  <2>1. ThreadsOK'
    BY <1>3, WriteGoto DEF WriteCopy, At, Targeted
  <2>2. /\ th[w].target \in Blocks \ {0}
        /\ content[th[w].md.blocks[th[w].page]] \in Contents
    BY <1>3, WriteFacts DEF WriteCopy, At, Targeted, IInv, ContentOK
  <2>3. QED
    BY <1>3, <2>1, <2>2, ContentStep DEF WriteCopy, IInv, LockOK, HistoryOK, history
<1>4. CASE WriteUnlink(w)
  <2>1. ThreadsOK'
    BY <1>4, WriteGoto DEF WriteUnlink, At, Targeted
  <2>2. ft \in FileTags \ {BASE} /\ th[w].page \in Pages
    BY <1>4, WriteFacts DEF WriteUnlink, At, Targeted
  <2>3. QED
    BY <1>4, <2>1, <2>2, LinkStep
       DEF WriteUnlink, IInv, IndexOK, LockOK, BlockZeroIntact, indexVars
<1>5. CASE WriteLink(w)
  <2>1. ft \in FileTags \ {BASE} /\ th[w].page \in Pages /\ th[w].target \in Blocks \ {0}
    BY <1>5, WriteFacts DEF WriteLink, At, Targeted
  <2>2. UNCHANGED <<files, dirs, meta, content, indexVars, history, expect>>
    BY <1>5 DEF WriteLink
  <2>3. CASE /\ link' = [link EXCEPT ![ft][th[w].page] = th[w].target]
             /\ Goto(w, "metadata") /\ UNCHANGED <<bitmap, lock>>
    <3>1. ThreadsOK'
      BY <1>5, <2>3, WriteGoto DEF WriteLink, At, Targeted
    <3>2. QED
      BY <2>1, <2>2, <2>3, <3>1, LinkStep
         DEF IInv, IndexOK, LockOK, BlockZeroIntact, indexVars
  <2>4. CASE bitmap' = bitmap \ {th[w].target} /\ Finish(w) /\ link' = link
    <3>1. ThreadsOK' /\ LockOK'
      BY <2>4, FinishOK DEF IInv
    <3>2. QED
      BY <2>1, <2>2, <2>4, <3>1
         DEF IInv, FilesOK, LinkOK, ContentOK, IndexOK, HistoryOK, BlockZeroIntact,
             indexVars, history
  <2>5. QED
    BY <1>5, <2>3, <2>4 DEF WriteLink
<1>6. CASE WriteMetadata(w)
  <2> DEFINE md == Entered(th[w].md, th[w].md.tam, th[w].page, th[w].target)
  <2>1. ft \in FileTags \ {BASE} /\ th[w].page \in Pages /\ th[w].target \in Blocks \ {0}
    BY <1>6, WriteFacts DEF WriteMetadata, At, Targeted
  <2>2. md \in Metadata /\ WellFormed(md)
    <3>1. \A j \in Pages : j < th[w].md.tam =>
            IF j = th[w].page THEN th[w].target \in Blocks ELSE j < th[w].md.tam
      BY <2>1
    <3>2. th[w].md \in Metadata /\ WellFormed(th[w].md) /\ th[w].md.tam \in 0 .. MaxPages
      BY MayStep DEF Metadata
    <3>3. th[w].target \in Blocks \union {NoBlock}
      BY <2>1
    <3>4. QED
      BY <2>1, <3>1, <3>2, <3>3, EnteredOK, Zenon
  <2>3. UNCHANGED <<files, dirs, link, content, bitmap, indexVars, history, expect>>
    BY <1>6 DEF WriteMetadata
  <2>4. CASE meta' = [meta EXCEPT ![ft] = md] /\ Goto(w, "open") /\ lock' = lock
    <3>1. ThreadsOK'
      BY <1>6, <2>4, WriteGoto DEF WriteMetadata, At, Targeted
    <3>2. FilesOK' /\ meta'[BASE] = meta[BASE]
      BY <2>1, <2>2, <2>3, <2>4, BaseAssumption DEF IInv, FilesOK
    <3>3. QED
      BY <2>3, <2>4, <3>1, <3>2, ExpectStep DEF IInv, IndexOK, HistoryOK, indexVars
  <2>5. CASE Finish(w) /\ meta' = meta
    <3>1. ThreadsOK' /\ LockOK'
      BY <2>5, FinishOK DEF IInv
    <3>2. QED
      BY <2>3, <2>5, <3>1
         DEF IInv, FilesOK, LinkOK, ContentOK, IndexOK, HistoryOK, BlockZeroIntact,
             indexVars, history
  <2>6. QED
    BY <1>6, <2>4, <2>5 DEF WriteMetadata
<1>7. CASE WriteOpen(w)
  <2>1. ThreadsOK'
    BY <1>7, WriteGoto DEF WriteOpen, At, Targeted
  <2>2. th[w].target \in Blocks \ {0}
    BY <1>7, WriteFacts DEF WriteOpen, At, Targeted
  <2>3. QED
    BY <1>7, <2>1, <2>2, ContentsThere, ContentStep
       DEF WriteOpen, IInv, LockOK, HistoryOK, history
<1>8. CASE WriteData(w)
  <2>1. /\ ft \in FileTags \ {BASE} /\ th[w].page \in Pages
        /\ th[w].target \in Blocks \ {0} /\ th[w].data \in Contents
    BY <1>8, WriteFacts, MayStep DEF WriteData, At, Targeted, Thread
  <2>2. ThreadsOK' /\ LockOK'
    BY <1>8, FinishOK DEF WriteData, IInv
  <2>3. HistoryOK'
    BY <1>8, <2>1 DEF WriteData, IInv, HistoryOK, history
  <2>4. QED
    BY <1>8, <2>1, <2>2, <2>3, ContentStep DEF WriteData
<1>9. QED
  BY <1>1, <1>2, <1>3, <1>4, <1>5, <1>6, <1>7, <1>8 DEF Write

-----------------------------------------------------------------------------
(***************************************************************************)
(* DELETE                                                                  *)
(***************************************************************************)
LEMMA DeleteOK == ASSUME IInv, NEW w \in Workers, Delete(w) PROVE IInv'
<1> DEFINE ft == th[w].ft
<1>1. CASE DeleteCheck(w)
  <2>1. CASE Refuse(w)
    BY <2>1, RefuseOK
  <2>2. CASE /\ ft # BASE /\ meta[ft] # NoMeta
             /\ th' = [th EXCEPT ![w].md = meta[ft], ![w].at = "unlink"]
             /\ UNCHANGED <<fsVars, bitmap, indexVars, lock, history, expect>>
    <3> DEFINE r == [th[w] EXCEPT !.md = meta[ft], !.at = "unlink"]
    <3>1. meta[ft] \in Metadata /\ WellFormed(meta[ft])
      BY <2>2, MayStep DEF IInv, FilesOK
    <3>2. ThreadOK(r)
      BY <1>1, <2>2, <3>1, MayStep
         DEF DeleteCheck, At, ThreadOK, Thread, SparesBase, AimsRight, Targeted
    <3>3. th' = [th EXCEPT ![w] = r]
      BY <2>2
    <3>4. QED
      BY <2>2, <3>2, <3>3, ThreadStep, OnlyThread DEF IInv
  <2>3. QED
    BY <1>1, <2>1, <2>2 DEF DeleteCheck
<1>2. CASE DeleteUnlink(w)
  <2> DEFINE i == th[w].page
             b == th[w].md.blocks[i]
             r == [th[w] EXCEPT !.page = i + 1, !.target = b, !.at = "release"]
  <2>1. th[w].op = "DELETE" /\ th[w].at = "unlink" /\ i < th[w].md.tam
    BY <1>2 DEF DeleteUnlink, At
  <2>2. i \in Pages /\ i + 1 \in 0 .. MaxPages /\ b \in Blocks
    BY <2>1, MayStep, SizesAssumption DEF Pages, Metadata, WellFormed
  <2>3. ThreadOK(r) /\ ft \in FileTags \ {BASE}
    BY <2>1, <2>2, MayStep DEF ThreadOK, Thread, SparesBase, AimsRight, Mutating, Targeted
  <2>4. th' = [th EXCEPT ![w] = r]
    BY <1>2 DEF DeleteUnlink
  <2>5. ThreadsOK'
    BY <2>3, <2>4, ThreadStep DEF IInv
  <2>6. QED
    BY <1>2, <2>2, <2>3, <2>5, LinkStep
       DEF DeleteUnlink, IInv, IndexOK, LockOK, BlockZeroIntact, indexVars
<1>3. CASE DeleteRelease(w)
  <2>1. ThreadOK([th[w] EXCEPT !.at = "unlink"])
    BY <1>3, MayStep DEF DeleteRelease, At, ThreadOK, Thread, SparesBase, AimsRight,
                         Targeted, Mutating
  <2>2. ThreadsOK'
    BY <1>3, <2>1, GotoStep DEF DeleteRelease
  <2>3. QED
    BY <1>3, <2>2, ReleaseStep DEF DeleteRelease
<1>4. CASE DeleteDirectory(w)
  <2>1. ThreadOK([th[w] EXCEPT !.at = "rebuild"]) /\ ft \in FileTags \ {BASE}
    BY <1>4, MayStep DEF DeleteDirectory, At, ThreadOK, Thread, SparesBase, AimsRight,
                         Targeted, Mutating
  <2>2. ThreadsOK'
    BY <1>4, <2>1, GotoStep DEF DeleteDirectory
  <2>3. FilesOK' /\ meta'[BASE] = meta[BASE] /\ BASE \in dirs'
    BY <1>4, <2>1, BaseAssumption, BaseIsThere DEF DeleteDirectory, IInv, FilesOK
  <2>4. LinkOK' /\ link'[BASE] = link[BASE]
    BY <1>4, <2>1, BaseAssumption DEF DeleteDirectory, IInv, LinkOK, NoLinks
  <2>5. HistoryOK'
    BY <1>4, <2>1 DEF DeleteDirectory, IInv, HistoryOK, history
  <2>6. QED
    BY <1>4, <2>2, <2>3, <2>4, <2>5
       DEF DeleteDirectory, IInv, ContentOK, IndexOK, LockOK, BlockZeroIntact, indexVars
<1>5. QED
  BY <1>1, <1>2, <1>3, <1>4 DEF Delete

-----------------------------------------------------------------------------
(***************************************************************************)
(* The end of a request, FLUSH, restarts, and the invariant                *)
(***************************************************************************)
LEMMA RebuildOK == ASSUME IInv, NEW w \in Workers, Rebuild(w) PROVE IInv'
<1>1. ThreadsOK' /\ LockOK'
  BY FinishOK DEF Rebuild, IInv
<1>2. Linked(0)
  BY ZeroIsThere, BaseAssumption DEF IInv, BlockZeroIntact, Linked
<1>3. bitmap' \in SUBSET Blocks /\ 0 \in bitmap'
  BY <1>2, ZeroIsThere DEF Rebuild
<1>4. QED
  BY <1>1, <1>3
     DEF Rebuild, IInv, FilesOK, LinkOK, ContentOK, IndexOK, HistoryOK, BlockZeroIntact,
         fsVars, indexVars, history

LEMMA FlushOK == ASSUME IInv, NEW w \in Workers, Flush(w) PROVE IInv'
BY DEF Flush, hash_index_sync_to_disk, IInv, FilesOK, LinkOK, ContentOK, IndexOK, LockOK, HistoryOK, ThreadsOK,
       BlockZeroIntact, fsVars, history

LEMMA RestartOK == ASSUME IInv, Restart PROVE IInv'
<1>1. ThreadsOK'
  BY RestOK DEF Restart, ThreadsOK, ThreadOK
<1>2. LockOK' /\ IndexOK'
  BY DEF Restart, hash_index_init, LockOK, IndexOK, IInv
<1>3. HistoryOK'
  <2>1. ops' \in 0 .. MaxOps /\ expect' \in [FileTags -> [Pages -> Contents \union {NoData}]]
    BY SizesAssumption DEF Restart, IInv, HistoryOK
  <2>2. disturbed' = (disturbed \/ \E w \in Workers : th[w].at # "rest")
    BY DEF Restart
  <2>3. disturbed' \in BOOLEAN
    BY <2>2, Zenon
  <2>4. QED
    BY <2>1, <2>3, Zenon DEF HistoryOK
<1>4. QED
  BY <1>1, <1>2, <1>3
     DEF Restart, IInv, FilesOK, LinkOK, ContentOK, BlockZeroIntact, fsVars

LEMMA StutterOK == ASSUME IInv, UNCHANGED vars PROVE IInv'
BY DEF vars, fsVars, indexVars, history, IInv, FilesOK, LinkOK, ContentOK, IndexOK, LockOK,
       HistoryOK, ThreadsOK, BlockZeroIntact

\* The conjunction is an invariant of Storage.
THEOREM Inductive == Spec => []IInv
<1>1. IInv /\ [Next]_vars => IInv'
  <2>1. ASSUME IInv, NEW w \in Workers,
               Receive(w) \/ Create(w) \/ Truncate(w) \/ Tag(w) \/ Commit(w)
                 \/ Write(w) \/ Delete(w) \/ Rebuild(w) \/ Flush(w)
        PROVE  IInv'
    BY <2>1, ReceiveOK, CreateOK, TruncateOK, TagOK, CommitOK, WriteOK, DeleteOK,
       RebuildOK, FlushOK
  <2>2. QED
    BY <2>1, RestartOK, StutterOK DEF Next
<1>2. QED
  BY InitOK, <1>1, PTL DEF Spec

\* Every variable keeps its type, whatever the threads do.
THEOREM TypeCorrect == Spec => []TypeOK
<1>1. IInv => TypeOK
  BY DEF IInv, FilesOK, LinkOK, ContentOK, IndexOK, LockOK, HistoryOK, ThreadsOK, TypeOK
<1>2. QED
  BY Inductive, <1>1, PTL

\* Block 0 and initial_file/BASE survive any requests, of any number of
\* Workers, in any order, interleaved at any point, and any restart.
THEOREM BlockZeroSurvives == Spec => []BlockZeroIntact
<1>1. IInv => BlockZeroIntact
  BY DEF IInv
<1>2. QED
  BY Inductive, <1>1, PTL

-----------------------------------------------------------------------------
(***************************************************************************)
(* Locks                                                                   *)
(***************************************************************************)
\* Only a thread that rests may start a request, and one that rests holds no
\* lock: this makes HeldWhileServed inductive.
RestHoldsNone ==
  \A w \in Workers : th[w].at = "rest" => \A ft \in FileTags : lock[ft] # w
LInv == HeldWhileServed /\ RestHoldsNone

\* A step that ends no request and starts none.
Keeps ==
  /\ lock' = lock
  /\ \A v \in Workers : /\ th'[v].op = th[v].op /\ th'[v].ft = th[v].ft
                        /\ th'[v].at = "rest" => th[v].at = "rest"

LEMMA FinishReleases ==
  ASSUME IInv, LInv, NEW w \in Workers, Finish(w) PROVE LInv'
<1>1. \A v \in Workers : v # w => th'[v] = th[v]
  BY DEF Finish, IInv, ThreadsOK
<1>2. \A ft \in FileTags : lock'[ft] = IF lock[ft] = w THEN NoWorker ELSE lock[ft]
  BY DEF Finish, Unlock
<1>3. \A ft \in FileTags : lock'[ft] # w
  BY <1>2, DistinctAssumption
<1>4. \A ft \in FileTags : lock'[ft] # NoWorker => lock'[ft] = lock[ft] /\ lock[ft] \in Workers
  BY <1>2 DEF IInv, LockOK
<1>5. HeldWhileServed'
  BY <1>1, <1>3, <1>4 DEF LInv, HeldWhileServed
<1>6. RestHoldsNone'
  BY <1>1, <1>2, <1>3, DistinctAssumption DEF LInv, RestHoldsNone
<1>7. QED
  BY <1>5, <1>6 DEF LInv

LEMMA KeepsLocks == ASSUME IInv, LInv, Keeps PROVE LInv'
<1>1. \A ft \in FileTags : lock[ft] # NoWorker => lock[ft] \in Workers
  BY DEF IInv, LockOK
<1>2. QED
  BY <1>1 DEF Keeps, LInv, HeldWhileServed, RestHoldsNone

LEMMA StartLocks ==
  ASSUME IInv, LInv, NEW w \in Workers, NEW r, r.ft \in FileTags, r.at # "rest", Start(w, r)
  PROVE  LInv'
<1>1. th'[w] = r /\ \A v \in Workers : v # w => th'[v] = th[v]
  BY DEF Start, IInv, ThreadsOK
<1>2. \A ft \in FileTags : lock[ft] # w
  BY DEF Start, LInv, RestHoldsNone
<1>3. \A ft \in FileTags : lock'[ft] = lock[ft] \/ (lock'[ft] = w /\ ft = r.ft /\ r.op \in Locking)
  BY DEF Start, IInv, LockOK
<1>4. \A ft \in FileTags : lock[ft] # NoWorker => lock[ft] \in Workers
  BY DEF IInv, LockOK
<1>5. HeldWhileServed'
  BY <1>1, <1>2, <1>3, <1>4 DEF LInv, HeldWhileServed
<1>6. RestHoldsNone'
  BY <1>1, <1>2, <1>3 DEF LInv, RestHoldsNone
<1>7. QED
  BY <1>5, <1>6 DEF LInv

LEMMA ReceiveLocks == ASSUME IInv, LInv, NEW w \in Workers, Receive(w) PROVE LInv'
<1>1. PICK ft \in FileTags :
        \/ \E op \in {"CREATE", "COMMIT", "DELETE"} : Start(w, Request(op, ft))
        \/ \E size \in 0 .. MaxPages : Start(w, [Request("TRUNCATE", ft) EXCEPT !.size = size])
        \/ \E dst \in FileTags : Start(w, [Request("TAG", ft) EXCEPT !.dst = dst])
        \/ \E i \in Pages, d \in Data :
             Start(w, [Request("WRITE", ft) EXCEPT !.page = i, !.data = d])
  BY DEF Receive
<1> USE DEF Request, Rest
<1>2. CASE \E op \in {"CREATE", "COMMIT", "DELETE"} : Start(w, Request(op, ft))
  <2>1. PICK op \in {"CREATE", "COMMIT", "DELETE"} : Start(w, Request(op, ft))
    BY <1>2
  <2>2. Request(op, ft).ft = ft /\ Request(op, ft).at = "check"
    OBVIOUS
  <2>3. QED
    BY <2>1, <2>2, StartLocks
<1>3. CASE \E size \in 0 .. MaxPages : Start(w, [Request("TRUNCATE", ft) EXCEPT !.size = size])
  <2>1. PICK size \in 0 .. MaxPages : Start(w, [Request("TRUNCATE", ft) EXCEPT !.size = size])
    BY <1>3
  <2> DEFINE r == [Request("TRUNCATE", ft) EXCEPT !.size = size]
  <2>2. r.ft = ft /\ r.at = "check"
    OBVIOUS
  <2>3. QED
    BY <2>1, <2>2, StartLocks
<1>4. CASE \E dst \in FileTags : Start(w, [Request("TAG", ft) EXCEPT !.dst = dst])
  <2>1. PICK dst \in FileTags : Start(w, [Request("TAG", ft) EXCEPT !.dst = dst])
    BY <1>4
  <2> DEFINE r == [Request("TAG", ft) EXCEPT !.dst = dst]
  <2>2. r.ft = ft /\ r.at = "check"
    OBVIOUS
  <2>3. QED
    BY <2>1, <2>2, StartLocks
<1>5. CASE \E i \in Pages, d \in Data :
             Start(w, [Request("WRITE", ft) EXCEPT !.page = i, !.data = d])
  <2>1. PICK i \in Pages, d \in Data :
          Start(w, [Request("WRITE", ft) EXCEPT !.page = i, !.data = d])
    BY <1>5
  <2> DEFINE r == [Request("WRITE", ft) EXCEPT !.page = i, !.data = d]
  <2>2. r.ft = ft /\ r.at = "check"
    OBVIOUS
  <2>3. QED
    BY <2>1, <2>2, StartLocks
<1>6. QED
  BY <1>1, <1>2, <1>3, <1>4, <1>5

\* Every other step of a request ends it or keeps its operation and File:Tag.
LEMMA StepKinds ==
  ASSUME IInv, NEW w \in Workers,
         Create(w) \/ Truncate(w) \/ Tag(w) \/ Commit(w) \/ Write(w) \/ Delete(w) \/ Rebuild(w)
  PROVE  Finish(w) \/ Keeps
<1>0. th \in [Workers -> Thread]
  BY DEF IInv, ThreadsOK
<1> USE <1>0 DEF Goto, Keeps, Refuse, At, Thread
<1>1. CASE Create(w)
  <2>1. CASE CreateCheck(w)
    BY <2>1 DEF CreateCheck
  <2>2. CASE CreateDirectory(w)
    BY <2>2 DEF CreateDirectory
  <2>3. QED
    BY <1>1, <2>1, <2>2 DEF Create
<1>2. CASE Truncate(w)
  <2>1. CASE TruncateCheck(w)
    BY <2>1 DEF TruncateCheck
  <2>2. CASE TruncateGrow(w)
    BY <2>2 DEF TruncateGrow
  <2>3. CASE TruncateShrink(w)
    BY <2>3 DEF TruncateShrink
  <2>4. CASE TruncateRelease(w)
    BY <2>4 DEF TruncateRelease
  <2>5. CASE TruncateMetadata(w)
    BY <2>5 DEF TruncateMetadata
  <2>6. QED
    BY <1>2, <2>1, <2>2, <2>3, <2>4, <2>5 DEF Truncate
<1>3. CASE Tag(w)
  <2>1. CASE TagCheck(w)
    BY <2>1 DEF TagCheck
  <2>2. CASE TagSkip(w)
    BY <2>2 DEF TagSkip
  <2>3. CASE TagCopyMetadata(w)
    BY <2>3 DEF TagCopyMetadata
  <2>4. CASE TagLink(w)
    BY <2>4 DEF TagLink
  <2>5. CASE TagFails(w)
    BY <2>5 DEF TagFails
  <2>6. CASE TagMetadata(w)
    BY <2>6 DEF TagMetadata
  <2>7. QED
    BY <1>3, <2>1, <2>2, <2>3, <2>4, <2>5, <2>6 DEF Tag
<1>4. CASE Commit(w)
  <2>1. CASE CommitCheck(w)
    BY <2>1 DEF CommitCheck
  <2>2. CASE CommitHash(w)
    BY <2>2 DEF CommitHash
  <2>3. CASE CommitLookup(w)
    BY <2>3 DEF CommitLookup
  <2>4. CASE CommitRelease(w)
    BY <2>4 DEF CommitRelease
  <2>5. CASE CommitMetadata(w)
    BY <2>5 DEF CommitMetadata
  <2>6. QED
    BY <1>4, <2>1, <2>2, <2>3, <2>4, <2>5 DEF Commit
<1>5. CASE Write(w)
  <2>1. CASE WriteCheck(w)
    BY <2>1 DEF WriteCheck
  <2>2. CASE WriteReserve(w)
    <3> DEFINE b == th[w].md.blocks[th[w].page]
    <3>1. CASE th' = [th EXCEPT ![w].target = b, ![w].at = "open"] /\ lock' = lock
      BY <3>1
    <3>2. CASE (\E free \in FirstFree : th' = [th EXCEPT ![w].target = free, ![w].at = "copy"])
                 /\ lock' = lock
      <4>1. PICK free \in FirstFree : th' = [th EXCEPT ![w].target = free, ![w].at = "copy"]
        BY <3>2
      <4>2. QED
        BY <3>2, <4>1
    <3>3. CASE Finish(w)
      BY <3>3
    <3>4. QED
      BY <2>2, <3>1, <3>2, <3>3 DEF WriteReserve
  <2>3. CASE WriteCopy(w)
    BY <2>3 DEF WriteCopy
  <2>4. CASE WriteUnlink(w)
    BY <2>4 DEF WriteUnlink
  <2>5. CASE WriteLink(w)
    BY <2>5 DEF WriteLink
  <2>6. CASE WriteMetadata(w)
    BY <2>6 DEF WriteMetadata
  <2>7. CASE WriteOpen(w)
    BY <2>7 DEF WriteOpen
  <2>8. CASE WriteData(w)
    BY <2>8 DEF WriteData
  <2>9. QED
    BY <1>5, <2>1, <2>2, <2>3, <2>4, <2>5, <2>6, <2>7, <2>8 DEF Write
<1>6. CASE Delete(w)
  <2>1. CASE DeleteCheck(w)
    BY <2>1 DEF DeleteCheck
  <2>2. CASE DeleteUnlink(w)
    BY <2>2 DEF DeleteUnlink
  <2>3. CASE DeleteRelease(w)
    BY <2>3 DEF DeleteRelease
  <2>4. CASE DeleteDirectory(w)
    BY <2>4 DEF DeleteDirectory
  <2>5. QED
    BY <1>6, <2>1, <2>2, <2>3, <2>4 DEF Delete
<1>7. CASE Rebuild(w)
  BY <1>7 DEF Rebuild
<1>8. QED
  BY <1>1, <1>2, <1>3, <1>4, <1>5, <1>6, <1>7

\* No request ever ends holding the lock of its File:Tag: every early return of
\* TRUNCATE, TAG, COMMIT and DELETE releases it.
THEOREM NoLockIsKept == Spec => []HeldWhileServed
<1>1. Init => LInv
  BY DistinctAssumption DEF Init, create_bitmap, create_hash_index, create_initial_file, LInv, HeldWhileServed, RestHoldsNone
<1>2. IInv /\ LInv /\ [Next]_vars => LInv'
  <2> SUFFICES ASSUME IInv, LInv, [Next]_vars PROVE LInv'
    OBVIOUS
  <2>1. CASE \E w \in Workers : Receive(w)
    BY <2>1, ReceiveLocks
  <2>2. CASE \E w \in Workers : Create(w) \/ Truncate(w) \/ Tag(w) \/ Commit(w) \/ Write(w)
                                 \/ Delete(w) \/ Rebuild(w)
    BY <2>2, StepKinds, FinishReleases, KeepsLocks
  <2>3. CASE (\E w \in Workers : Flush(w)) \/ UNCHANGED vars
    BY <2>3 DEF Flush, vars, LInv, HeldWhileServed, RestHoldsNone
  <2>4. CASE Restart
    BY <2>4, DistinctAssumption DEF Restart, LInv, HeldWhileServed, RestHoldsNone
  <2>5. QED
    BY <2>1, <2>2, <2>3, <2>4 DEF Next
<1>3. LInv => HeldWhileServed
  BY DEF LInv
<1>4. QED
  BY <1>1, <1>2, <1>3, Inductive, PTL DEF Spec

-----------------------------------------------------------------------------
(***************************************************************************)
(* Requests one at a time.  Serial(r) describes the file system in the     *)
(* middle of request r when nobody else serves one: only the File:Tag that *)
(* r is changing disagrees with its metadata or its expected contents, and *)
(* Midway says how far r got with it.                                      *)
(***************************************************************************)
LinkOf(md, i) == IF i < md.tam THEN md.blocks[i] ELSE NoBlock
Shown(ft, i) == IF link[ft][i] = NoBlock THEN NoData ELSE content[link[ft][i]]

Agrees(ft) ==
  /\ ft \in dirs <=> meta[ft] # NoMeta
  /\ \A i \in Pages : link[ft][i] = IF meta[ft] # NoMeta THEN LinkOf(meta[ft], i) ELSE NoBlock
Shows(ft) == \A i \in Pages : expect[ft][i] = Shown(ft, i)

\* r is between its first change of ft and its last.
Changing(r, ft) ==
  \/ /\ r.op \in {"TRUNCATE", "COMMIT", "DELETE"}
     /\ r.at \in {"resize", "release", "hash", "lookup", "unlink"}
     /\ ft = r.ft
  \/ r.op = "WRITE" /\ r.at \in {"link", "metadata", "open", "data"} /\ ft = r.ft
  \/ r.op = "TAG" /\ r.at = "copy" /\ ft = r.dst

\* The links follow the metadata in memory; a page that is new shows block 0.
MidTruncate(r) ==
  /\ r.ft \in dirs
  /\ \A i \in Pages : link[r.ft][i] = LinkOf(r.md, i)
  /\ \A i \in Pages : i < r.md.tam =>
       Shown(r.ft, i) = IF expect[r.ft][i] = NoData THEN Initial ELSE expect[r.ft][i]
  /\ r.md.tam < r.size => \A i \in Pages : i >= r.md.tam => expect[r.ft][i] = NoData

MidCommit(r) ==
  /\ r.ft \in dirs
  /\ \A i \in Pages : link[r.ft][i] = LinkOf(r.md, i)

\* What was not reached yet is not in the copy.
MidTag(r) ==
  /\ r.ft # r.dst /\ r.ft \in dirs /\ r.dst \in dirs
  /\ \A i \in Pages : link[r.dst][i] = IF i \in r.todo THEN NoBlock ELSE link[r.ft][i]
  /\ meta[r.dst] = IF MetadataConfig \in r.todo THEN NoMeta ELSE meta[r.ft]

\* The block that will be written is marked and nothing else links to it.
Reserved(r) ==
  /\ r.target \in bitmap
  /\ \A ft \in FileTags, i \in Pages : link[ft][i] = r.target =>
       r.at \in {"metadata", "open", "data"} /\ ft = r.ft /\ i = r.page

BeforeUnlink(r) == r.ft \in dirs /\ meta[r.ft] = r.md
MidWrite(r) ==
  /\ r.ft \in dirs /\ meta[r.ft] # NoMeta /\ meta[r.ft].tam = r.md.tam
  /\ \A i \in Pages \ {r.page} :
       /\ meta[r.ft].blocks[i] = r.md.blocks[i]
       /\ link[r.ft][i] = LinkOf(r.md, i)
       /\ expect[r.ft][i] = Shown(r.ft, i)
  /\ link[r.ft][r.page] = IF r.at = "link" THEN NoBlock ELSE r.target
  /\ r.at \in {"open", "data"} => meta[r.ft].blocks[r.page] = r.target

Midway(r) ==
  /\ r.op = "CREATE" /\ r.at = "directory" => r.ft \notin dirs
  /\ r.op = "TRUNCATE" /\ r.at \in {"resize", "release"} => MidTruncate(r)
  /\ r.op = "COMMIT" /\ r.at \in {"hash", "lookup", "release"} => MidCommit(r)
  /\ r.op = "TAG" /\ r.at = "copy" => MidTag(r)
  /\ r.op = "WRITE" /\ r.at \in {"stat", "copy", "unlink"} => BeforeUnlink(r)
  /\ r.op = "WRITE" /\ r.at \in {"copy", "unlink", "link", "metadata", "open", "data"} =>
       Reserved(r)
  /\ r.op = "WRITE" /\ r.at \in {"link", "metadata", "open", "data"} => MidWrite(r)

\* COMMIT may link to a block the index names and the bitmap has free, until
\* the bitmap is rebuilt.
LinksUsed == \A ft \in FileTags, i \in Pages : link[ft][i] # NoBlock => link[ft][i] \in bitmap

Serial(r) ==
  /\ \A ft \in FileTags : ~Changing(r, ft) => Agrees(ft) /\ Shows(ft)
  /\ Midway(r)
  /\ r.op # "COMMIT" \/ r.at = "check" => LinksUsed

Alone(w) == \A v \in Workers \ {w} : th[v].at = "rest"
SerialInv ==
  ~disturbed =>
    /\ \A w \in Workers : th[w].at # "rest" => Alone(w) /\ Serial(th[w])
    /\ (\A w \in Workers : th[w].at = "rest") => Serial(Rest)

-----------------------------------------------------------------------------
\* A File:Tag that a step leaves alone, and whose blocks it does not write.
LEMMA KeptFileTag ==
  ASSUME NEW ft \in FileTags, Agrees(ft), Shows(ft),
         ft \in dirs' <=> ft \in dirs, meta'[ft] = meta[ft], link'[ft] = link[ft],
         expect'[ft] = expect[ft],
         \A i \in Pages : link[ft][i] # NoBlock => content'[link[ft][i]] = content[link[ft][i]]
  PROVE  Agrees(ft)' /\ Shows(ft)'
<1>1. Agrees(ft)'
  BY DEF Agrees, LinkOf
<1>2. Shows(ft)'
  BY DEF Shows, Shown
<1>3. QED
  BY <1>1, <1>2

SameFiles == UNCHANGED <<fsVars, bitmap, expect>>

\* A step that only moves the thread on, to where Midway holds.
LEMMA OnlyMoves ==
  ASSUME NEW w \in Workers, Serial(th[w]), SameFiles, Midway(th[w])',
         \A ft \in FileTags : Changing(th[w], ft) => Changing(th[w], ft)',
         \/ th'[w].op = "COMMIT" /\ th'[w].at # "check"
         \/ th[w].op # "COMMIT"
         \/ th[w].at = "check"
  PROVE  Serial(th[w])'
<1>1. ASSUME NEW ft \in FileTags, ~Changing(th[w], ft)'
      PROVE  Agrees(ft)' /\ Shows(ft)'
  <2>1. Agrees(ft) /\ Shows(ft)
    BY <1>1 DEF Serial
  <2>2. QED
    BY <2>1, KeptFileTag DEF SameFiles, fsVars
<1>2. (th[w].op # "COMMIT" \/ th[w].at = "check" => LinksUsed)'
  BY DEF Serial, LinksUsed, SameFiles, fsVars
<1>3. QED
  BY <1>1, <1>2 DEF Serial

LEMMA RestIsSerial == ASSUME Serial(Rest) PROVE \A ft \in FileTags : Agrees(ft) /\ Shows(ft)
BY DEF Serial, Rest, Changing

\* What a thread that finishes leaves behind.
LEMMA Finished ==
  ASSUME IInv, NEW w \in Workers, Finish(w),
         \A ft \in FileTags : Agrees(ft)' /\ Shows(ft)', LinksUsed'
  PROVE  Serial(Rest)' /\ th'[w] = Rest
<1>1. th'[w] = Rest
  BY DEF Finish, IInv, ThreadsOK
<1>2. Midway(Rest)'
  BY DEF Rest, Midway
<1>3. QED
  BY <1>1, <1>2 DEF Serial

\* A request refused at its check.
LEMMA Refused ==
  ASSUME IInv, NEW w \in Workers, Serial(th[w]), th[w].at = "check", Refuse(w)
  PROVE  Serial(Rest)' /\ th'[w] = Rest
<1>1. SameFiles
  BY DEF Refuse, SameFiles
<1>2. ASSUME NEW ft \in FileTags PROVE Agrees(ft)' /\ Shows(ft)'
  <2>1. Agrees(ft) /\ Shows(ft)
    BY DEF Serial, Changing
  <2>2. QED
    BY <1>1, <2>1, KeptFileTag DEF SameFiles, fsVars
<1>3. LinksUsed'
  BY <1>1 DEF Serial, LinksUsed, SameFiles, fsVars
<1>4. QED
  BY <1>2, <1>3, Finished DEF Refuse

\* Midway in the middle of a TRUNCATE, in terms of what a step made of it.
LEMMA TruncateGoesOn ==
  ASSUME NEW w \in Workers, NEW f \in FileTags, NEW md, NEW size,
         th'[w].op = "TRUNCATE", th'[w].ft = f, th'[w].md = md, th'[w].size = size,
         f \in dirs',
         \A i \in Pages : link'[f][i] = LinkOf(md, i),
         \A i \in Pages : i < md.tam =>
           Shown(f, i)' = IF expect'[f][i] = NoData THEN Initial ELSE expect'[f][i],
         md.tam < size => \A i \in Pages : i >= md.tam => expect'[f][i] = NoData
  PROVE  Midway(th[w])'
<1>1. th'[w].ft \in dirs' /\ \A i \in Pages : link'[th'[w].ft][i] = LinkOf(th'[w].md, i)
  BY DEF LinkOf
<1>2. \A i \in Pages : i < th'[w].md.tam =>
        Shown(th[w].ft, i)' = IF expect'[th'[w].ft][i] = NoData THEN Initial ELSE expect'[th'[w].ft][i]
  BY DEF Shown
<1>3. th'[w].md.tam < th'[w].size =>
        \A i \in Pages : i >= th'[w].md.tam => expect'[th'[w].ft][i] = NoData
  OBVIOUS
<1>4. MidTruncate(th[w])'
  BY <1>1, <1>2, <1>3 DEF MidTruncate
<1>5. QED
  BY <1>4 DEF Midway

LEMMA CommitGoesOn ==
  ASSUME NEW w \in Workers, NEW f \in FileTags, NEW md,
         th'[w].op = "COMMIT", th'[w].ft = f, th'[w].md = md, f \in dirs',
         \A i \in Pages : link'[f][i] = LinkOf(md, i)
  PROVE  Midway(th[w])'
<1>1. th'[w].ft \in dirs' /\ \A i \in Pages : link'[th'[w].ft][i] = LinkOf(th'[w].md, i)
  BY DEF LinkOf
<1>2. MidCommit(th[w])'
  BY <1>1 DEF MidCommit
<1>3. QED
  BY <1>2 DEF Midway

LEMMA TagGoesOn ==
  ASSUME NEW w \in Workers, NEW f \in FileTags, NEW d \in FileTags, NEW todo,
         th'[w].op = "TAG", th'[w].ft = f, th'[w].dst = d, th'[w].todo = todo,
         f # d, f \in dirs', d \in dirs',
         \A i \in Pages : link'[d][i] = IF i \in todo THEN NoBlock ELSE link'[f][i],
         meta'[d] = IF MetadataConfig \in todo THEN NoMeta ELSE meta'[f]
  PROVE  Midway(th[w])'
<1>1. MidTag(th[w])'
  BY DEF MidTag
<1>2. QED
  BY <1>1 DEF Midway

LEMMA WriteGoesOn ==
  ASSUME NEW w \in Workers, NEW f \in FileTags, NEW p \in Pages, NEW md, NEW b, NEW at,
         th'[w].op = "WRITE", th'[w].at = at, at \in {"link", "metadata", "open", "data"},
         th'[w].ft = f, th'[w].page = p, th'[w].md = md, th'[w].target = b,
         f \in dirs', meta'[f] # NoMeta, meta'[f].tam = md.tam,
         \A i \in Pages \ {p} : /\ meta'[f].blocks[i] = md.blocks[i]
                                /\ link'[f][i] = LinkOf(md, i)
                                /\ expect'[f][i] = Shown(f, i)',
         link'[f][p] = IF at = "link" THEN NoBlock ELSE b,
         at \in {"open", "data"} => meta'[f].blocks[p] = b,
         b \in bitmap',
         \A ft \in FileTags, i \in Pages : link'[ft][i] = b => at # "link" /\ ft = f /\ i = p
  PROVE  Midway(th[w])'
<1>1. \A i \in Pages \ {p} : link'[th'[w].ft][i] = LinkOf(th'[w].md, i)
  BY DEF LinkOf
<1>2. \A i \in Pages \ {p} : expect'[th'[w].ft][i] = Shown(th[w].ft, i)'
  BY DEF Shown
<1>3. MidWrite(th[w])'
  <2>1. th'[w].ft \in dirs' /\ meta'[th'[w].ft] # NoMeta /\ meta'[th'[w].ft].tam = th'[w].md.tam
    OBVIOUS
  <2>2. \A i \in Pages \ {p} : meta'[th'[w].ft].blocks[i] = th'[w].md.blocks[i]
    OBVIOUS
  <2>3. th'[w].at \in {"open", "data"} => meta'[th'[w].ft].blocks[th'[w].page] = th'[w].target
    OBVIOUS
  <2>4. link'[th'[w].ft][th'[w].page] = IF th'[w].at = "link" THEN NoBlock ELSE th'[w].target
    OBVIOUS
  <2>5. QED
    BY <1>1, <1>2, <2>1, <2>2, <2>3, <2>4 DEF MidWrite
<1>4. Reserved(th[w])'
  BY DEF Reserved
<1>5. QED
  BY <1>3, <1>4 DEF Midway

LEMMA WriteBegins ==
  ASSUME NEW w \in Workers, NEW f \in FileTags, NEW at, NEW b,
         th'[w].op = "WRITE", th'[w].at = at, at \in {"stat", "copy", "unlink"},
         th'[w].ft = f, th'[w].target = b, f \in dirs', meta'[f] = th'[w].md,
         at # "stat" => b \in bitmap',
         at # "stat" => \A ft \in FileTags, i \in Pages : link'[ft][i] # b
  PROVE  Midway(th[w])'
<1>1. BeforeUnlink(th[w])'
  BY DEF BeforeUnlink
<1>2. th'[w].at # "stat" => Reserved(th[w])'
  BY DEF Reserved
<1>3. QED
  BY <1>1, <1>2 DEF Midway

\* What a step of the only thread that serves a request comes to.
Goes(w) ==
  \/ th'[w].at # "rest" /\ Serial(th[w])'
  \/ th'[w] = Rest /\ Serial(Rest)'

-----------------------------------------------------------------------------
(* CREATE *)

LEMMA CreateSerial == ASSUME IInv, NEW w \in Workers, Serial(th[w]), Create(w) PROVE Goes(w)
<1>0. th \in [Workers -> Thread] /\ th[w].ft \in FileTags
  BY MayStep DEF IInv, ThreadsOK
<1>1. CASE CreateCheck(w)
  <2>1. CASE Refuse(w)
    BY <1>1, <2>1, Refused DEF CreateCheck, At, Goes
  <2>2. CASE /\ th[w].ft \notin files /\ Goto(w, "directory")
             /\ UNCHANGED <<fsVars, bitmap, indexVars, lock, history, expect>>
    <3>1. th'[w] = [th[w] EXCEPT !.at = "directory"] /\ th[w].op = "CREATE"
      BY <1>0, <1>1, <2>2 DEF Goto, CreateCheck, At
    <3>2. th'[w].op = "CREATE" /\ th'[w].at = "directory" /\ th'[w].ft = th[w].ft
      BY <1>0, <3>1 DEF Thread
    <3>3. th[w].ft \notin dirs'
      BY <2>2 DEF IInv, FilesOK, fsVars
    <3>4. Midway(th[w])'
      BY <3>2, <3>3 DEF Midway
    <3>5. SameFiles
      BY <2>2 DEF SameFiles
    <3>6. \A ft \in FileTags : ~Changing(th[w], ft)
      BY <3>1 DEF Changing
    <3>7. Serial(th[w])'
      BY <3>1, <3>4, <3>5, <3>6, OnlyMoves
    <3>8. QED
      BY <3>2, <3>7 DEF Goes
  <2>3. QED
    BY <1>1, <2>1, <2>2 DEF CreateCheck
<1>2. CASE CreateDirectory(w)
  <2> PICK f \in FileTags : f = th[w].ft
    BY <1>0
  <2>1. f \notin dirs /\ \A ft \in FileTags : Agrees(ft) /\ Shows(ft)
    BY <1>2 DEF CreateDirectory, At, Serial, Midway, Changing
  <2>2. LinksUsed
    BY <1>2 DEF CreateDirectory, At, Serial
  <2>3. UNCHANGED <<link, content, bitmap, expect>>
    BY <1>2 DEF CreateDirectory
  <2>4. ASSUME NEW ft \in FileTags, ft # f PROVE Agrees(ft)' /\ Shows(ft)'
    <3>1. meta'[ft] = meta[ft] /\ (ft \in dirs' <=> ft \in dirs)
      BY <1>2, <2>4 DEF CreateDirectory, IInv, FilesOK
    <3>2. QED
      BY <2>1, <2>3, <3>1, KeptFileTag
  <2>5. meta'[f] = Empty /\ Empty # NoMeta /\ f \in dirs'
    BY <1>0, <1>2, EmptyOK, DistinctAssumption DEF CreateDirectory, IInv, FilesOK
  <2>6. Agrees(f)'
    <3>1. \A i \in Pages : link'[f][i] = NoBlock
      BY <1>0, <2>1, <2>3 DEF Agrees
    <3>2. \A i \in Pages : LinkOf(Empty, i) = NoBlock
      BY SizesAssumption DEF LinkOf, Empty, Pages
    <3>3. QED
      BY <2>5, <3>1, <3>2 DEF Agrees
  <2>7. Shows(f)'
    BY <1>0, <2>1, <2>3 DEF Shows, Shown
  <2>8. LinksUsed'
    BY <2>2, <2>3 DEF LinksUsed
  <2>9. \A ft \in FileTags : Agrees(ft)' /\ Shows(ft)'
    BY <2>4, <2>6, <2>7
  <2>10. QED
    BY <1>2, <2>8, <2>9, Finished DEF CreateDirectory, Goes
<1>3. QED
  BY <1>1, <1>2 DEF Create

-----------------------------------------------------------------------------
(* TRUNCATE *)

\* While w changes only its own File:Tag, the others stay as they are.
LEMMA OthersKeep ==
  ASSUME IInv, NEW w \in Workers, Serial(th[w]), NEW f \in FileTags,
         Changing(th[w], f) \/ \A g \in FileTags : ~Changing(th[w], g),
         \A ft \in FileTags \ {f} :
           /\ ft \in dirs' <=> ft \in dirs
           /\ meta'[ft] = meta[ft] /\ link'[ft] = link[ft] /\ expect'[ft] = expect[ft]
         ,
         content' = content
  PROVE  \A ft \in FileTags \ {f} : Agrees(ft)' /\ Shows(ft)'
<1>1. \A ft \in FileTags \ {f} : ~Changing(th[w], ft)
  BY DEF Changing
<1>2. QED
  BY <1>1, KeptFileTag DEF Serial

\* A step in the middle of changing f: the others are as they were.
LEMMA StillChanging ==
  ASSUME NEW w \in Workers, NEW f \in FileTags, Changing(th[w], f)', Midway(th[w])',
         \A ft \in FileTags \ {f} : Agrees(ft)' /\ Shows(ft)',
         LinksUsed' \/ (th'[w].op = "COMMIT" /\ th'[w].at # "check")
  PROVE  Serial(th[w])'
BY DEF Serial

\* A block that is freed has no link.
LEMMA ReleaseKeepsLinks ==
  ASSUME LinksUsed, NEW b, bitmap' = Released(b), link' = link PROVE LinksUsed'
BY DEF LinksUsed, Released, Linked

LEMMA TruncateSerial ==
  ASSUME IInv, NEW w \in Workers, Serial(th[w]), Truncate(w) PROVE Goes(w)
<1> PICK f \in FileTags : f = th[w].ft
  BY MayStep
<1> PICK size \in 0 .. MaxPages : size = th[w].size
  BY MayStep
<1>0. /\ th \in [Workers -> Thread] /\ th[w] \in Thread /\ th[w].md \in Metadata
      /\ WellFormed(th[w].md)
      /\ link \in [FileTags -> [Pages -> Blocks \union {NoBlock}]]
      /\ meta \in [FileTags -> Metadata \union {NoMeta}]
      /\ expect \in [FileTags -> [Pages -> Contents \union {NoData}]]
  BY MayStep DEF IInv, ThreadsOK, LinkOK, FilesOK, HistoryOK
<1>a. content[0] = Initial /\ 0 \in bitmap /\ 0 \in Blocks /\ 0 # NoBlock
  BY ZeroIsThere, DistinctAssumption DEF IInv, BlockZeroIntact
<1>b. th[w].op = "TRUNCATE" /\ LinksUsed
  BY DEF Truncate, TruncateCheck, TruncateGrow, TruncateShrink, TruncateRelease, TruncateMetadata,
         At, Serial
<1>c. \A b \in Blocks : content[b] # NoData /\ b # NoBlock
  BY DistinctAssumption DEF IInv, ContentOK
<1>1. CASE TruncateCheck(w)
  <2>1. CASE Refuse(w)
    BY <1>1, <2>1, Refused DEF TruncateCheck, At, Goes
  <2>2. CASE /\ f \in dirs /\ Writable(f)
             /\ th' = [th EXCEPT ![w].md = meta[f], ![w].at = "resize"]
             /\ UNCHANGED <<fsVars, bitmap, indexVars, lock, history, expect>>
    <3>1. /\ th'[w].op = "TRUNCATE" /\ th'[w].at = "resize" /\ th'[w].ft = f
          /\ th'[w].md = meta[f] /\ th'[w].size = size
      BY <1>0, <1>b, <2>2 DEF Thread
    <3>2. \A ft \in FileTags : ~Changing(th[w], ft)
      BY <1>1 DEF TruncateCheck, At, Changing
    <3>3. Agrees(f) /\ Shows(f) /\ meta[f] # NoMeta
      BY <1>0, <2>2, <3>2 DEF Serial, Writable
    <3>4. UNCHANGED <<dirs, meta, link, content, bitmap, expect>>
      BY <2>2 DEF fsVars
    <3>5. meta[f] \in Metadata /\ WellFormed(meta[f])
      BY <1>0, <3>3 DEF IInv, FilesOK
    <3>6. \A i \in Pages : link'[f][i] = LinkOf(meta[f], i)
      BY <3>3, <3>4 DEF Agrees
    <3>7. ASSUME NEW i \in Pages, i < meta[f].tam
          PROVE  Shown(f, i)' = IF expect'[f][i] = NoData THEN Initial ELSE expect'[f][i]
      <4>1. link[f][i] \in Blocks
        BY <3>5, <3>6, <3>4, <3>7 DEF WellFormed, LinkOf
      <4>2. expect[f][i] = content[link[f][i]]
        BY <1>c, <3>3, <4>1 DEF Shows, Shown
      <4>3. QED
        BY <1>c, <3>4, <4>1, <4>2 DEF Shown
    <3>8. \A i \in Pages : i >= meta[f].tam => expect'[f][i] = NoData
      BY <1>0, <3>3, <3>4, <3>5, <3>6 DEF Shows, Shown, LinkOf, Pages, Metadata
    <3>9. Midway(th[w])'
      BY <2>2, <3>1, <3>4, <3>6, <3>7, <3>8, TruncateGoesOn
    <3>10. SameFiles
      BY <2>2 DEF SameFiles
    <3>11. Serial(th[w])'
      BY <1>1, <3>2, <3>9, <3>10, OnlyMoves DEF TruncateCheck, At
    <3>12. QED
      BY <3>1, <3>11 DEF Goes
  <2>3. QED
    BY <1>1, <2>1, <2>2 DEF TruncateCheck
<1>2. CASE TruncateGrow(w)
  <2>0. th[w].at = "resize" /\ th[w].md.tam < size /\ th[w].md.tam \in 0 .. MaxPages
    BY <1>0, <1>2 DEF TruncateGrow, At, Metadata
  <2> PICK n \in Pages : n = th[w].md.tam
    BY <2>0, SizesAssumption DEF Pages
  <2> PICK md : md = Entered(th[w].md, n + 1, n, 0)
    OBVIOUS
  <2>1. Changing(th[w], f) /\ MidTruncate(th[w])
    BY <1>b, <2>0 DEF Changing, Serial, Midway
  <2>2. UNCHANGED <<dirs, meta, content, bitmap, expect>> /\ link' = [link EXCEPT ![f][n] = 0]
    BY <1>2 DEF TruncateGrow
  <2>3. /\ th'[w].op = "TRUNCATE" /\ th'[w].at = "resize" /\ th'[w].ft = f
        /\ th'[w].md = md /\ th'[w].size = size
    BY <1>0, <1>2, <1>b DEF TruncateGrow, At, Thread
  <2>4. md.tam = n + 1 /\ \A i \in Pages : md.blocks[i] = IF i = n THEN 0 ELSE th[w].md.blocks[i]
    BY <1>0 DEF Entered, Metadata
  <2>5. \A ft \in FileTags, i \in Pages : link'[ft][i] =
          IF ft = f /\ i = n THEN 0 ELSE link[ft][i]
    BY <1>0, <2>2
  <2>6. /\ f \in dirs /\ \A i \in Pages : link[f][i] = LinkOf(th[w].md, i)
        /\ \A i \in Pages : i >= n => expect[f][i] = NoData
        /\ \A i \in Pages : i < n =>
             Shown(f, i) = IF expect[f][i] = NoData THEN Initial ELSE expect[f][i]
    BY <2>0, <2>1 DEF MidTruncate
  <2>7. \A i \in Pages : link'[f][i] = LinkOf(md, i)
    BY <2>4, <2>5, <2>6 DEF LinkOf, Pages
  <2>8. Shown(f, n)' = Initial /\ expect'[f][n] = NoData
    BY <1>a, <2>2, <2>5, <2>6 DEF Shown, Pages
  <2>9. ASSUME NEW i \in Pages, i < n
        PROVE  Shown(f, i)' = IF expect'[f][i] = NoData THEN Initial ELSE expect'[f][i]
    <3>1. link'[f][i] = link[f][i]
      BY <2>5, <2>9 DEF Pages
    <3>2. QED
      BY <2>2, <2>6, <2>9, <3>1 DEF Shown
  <2>10. \A i \in Pages : i < md.tam => i < n \/ i = n
    BY <2>4 DEF Pages
  <2>11. \A i \in Pages : i >= md.tam => expect'[f][i] = NoData
    BY <2>2, <2>4, <2>6 DEF Pages
  <2>12. Midway(th[w])'
    BY <2>2, <2>3, <2>6, <2>7, <2>8, <2>9, <2>10, <2>11, TruncateGoesOn
  <2>13. \A ft \in FileTags \ {f} : link'[ft] = link[ft]
    BY <1>0, <2>2
  <2>14. \A ft \in FileTags \ {f} : Agrees(ft)' /\ Shows(ft)'
    BY <2>1, <2>2, <2>13, OthersKeep
  <2>15. LinksUsed'
    BY <1>a, <1>b, <2>2, <2>5 DEF LinksUsed
  <2>16. Changing(th[w], f)'
    BY <2>3 DEF Changing
  <2>17. QED
    BY <2>3, <2>12, <2>14, <2>15, <2>16, StillChanging DEF Goes
<1>3. CASE TruncateShrink(w)
  <2>0. /\ th[w].at = "resize" /\ th[w].md.tam - 1 >= size /\ th[w].md.tam \in 0 .. MaxPages
    BY <1>0, <1>3 DEF TruncateShrink, At, Metadata
  <2> PICK n \in Pages : n = th[w].md.tam - 1
    BY <2>0, SizesAssumption DEF Pages
  <2> PICK md : md = Entered(th[w].md, n, n, NoBlock)
    OBVIOUS
  <2>1. Changing(th[w], f) /\ MidTruncate(th[w])
    BY <1>b, <2>0 DEF Changing, Serial, Midway
  <2>2. /\ UNCHANGED <<dirs, meta, content, bitmap, expect>>
        /\ link' = [link EXCEPT ![f][n] = NoBlock]
    BY <1>3 DEF TruncateShrink
  <2>3. /\ th'[w].op = "TRUNCATE" /\ th'[w].at = "release" /\ th'[w].ft = f
        /\ th'[w].md = md /\ th'[w].size = size
    BY <1>0, <1>3, <1>b DEF TruncateShrink, At, Thread
  <2>4. md.tam = n /\ \A i \in Pages : i < n => md.blocks[i] = th[w].md.blocks[i]
    BY <1>0 DEF Entered, Metadata, Pages
  <2>5. \A ft \in FileTags, i \in Pages : link'[ft][i] =
          IF ft = f /\ i = n THEN NoBlock ELSE link[ft][i]
    BY <1>0, <2>2
  <2>6. /\ f \in dirs /\ \A i \in Pages : link[f][i] = LinkOf(th[w].md, i)
        /\ \A i \in Pages : i < n + 1 =>
             Shown(f, i) = IF expect[f][i] = NoData THEN Initial ELSE expect[f][i]
    BY <2>0, <2>1 DEF MidTruncate, Pages
  <2>7. \A i \in Pages : link'[f][i] = LinkOf(md, i)
    BY <2>0, <2>4, <2>5, <2>6 DEF LinkOf, Pages
  <2>8. ASSUME NEW i \in Pages, i < md.tam
        PROVE  Shown(f, i)' = IF expect'[f][i] = NoData THEN Initial ELSE expect'[f][i]
    <3>1. link'[f][i] = link[f][i] /\ i < n + 1
      BY <2>4, <2>5, <2>8 DEF Pages
    <3>2. QED
      BY <2>2, <2>6, <2>8, <3>1 DEF Shown
  <2>9. ~(md.tam < size)
    BY <2>0, <2>4 DEF Pages
  <2>10. Midway(th[w])'
    BY <2>2, <2>3, <2>6, <2>7, <2>8, <2>9, TruncateGoesOn
  <2>11. \A ft \in FileTags \ {f} : link'[ft] = link[ft]
    BY <1>0, <2>2
  <2>12. \A ft \in FileTags \ {f} : Agrees(ft)' /\ Shows(ft)'
    BY <2>1, <2>2, <2>11, OthersKeep
  <2>13. LinksUsed'
    BY <1>b, <2>2, <2>5 DEF LinksUsed
  <2>14. Changing(th[w], f)'
    BY <2>3 DEF Changing
  <2>15. QED
    BY <2>3, <2>10, <2>12, <2>13, <2>14, StillChanging DEF Goes
<1>4. CASE TruncateRelease(w)
  <2>1. UNCHANGED <<dirs, meta, link, content, expect>> /\ th[w].at = "release"
    BY <1>4 DEF TruncateRelease, At, fsVars
  <2>2. Changing(th[w], f) /\ MidTruncate(th[w])
    BY <1>b, <2>1 DEF Changing, Serial, Midway
  <2>3. /\ th'[w].op = "TRUNCATE" /\ th'[w].at = "resize" /\ th'[w].ft = f
        /\ th'[w].md = th[w].md /\ th'[w].size = size
    BY <1>0, <1>4, <1>b DEF TruncateRelease, Goto, Thread
  <2>4. MidTruncate(th[w])'
    BY <2>1, <2>2, <2>3 DEF MidTruncate, Shown, LinkOf
  <2>5. Midway(th[w])'
    BY <2>3, <2>4 DEF Midway
  <2>6. \A ft \in FileTags \ {f} : Agrees(ft)' /\ Shows(ft)'
    BY <2>1, <2>2, OthersKeep
  <2>7. LinksUsed'
    BY <1>4, <1>b, <2>1, ReleaseKeepsLinks DEF TruncateRelease
  <2>8. Changing(th[w], f)'
    BY <2>3 DEF Changing
  <2>9. QED
    BY <2>3, <2>5, <2>6, <2>7, <2>8, StillChanging DEF Goes
<1>5. CASE TruncateMetadata(w)
  <2>1. /\ UNCHANGED <<dirs, link, content, bitmap>> /\ th[w].at = "resize"
        /\ th[w].md.tam = size
    BY <1>5 DEF TruncateMetadata, At
  <2>2. Changing(th[w], f) /\ MidTruncate(th[w])
    BY <1>b, <2>1 DEF Changing, Serial, Midway
  <2>3. f \in dirs
    BY <2>2 DEF MidTruncate
  <2>4. /\ meta' = [meta EXCEPT ![f] = th[w].md]
        /\ expect' = [expect EXCEPT ![f] = [i \in Pages |->
                        IF i >= size THEN NoData
                        ELSE IF expect[f][i] = NoData THEN Initial ELSE expect[f][i]]]
    BY <1>5, <2>3 DEF TruncateMetadata
  <2>5. th'[w].op = "TRUNCATE" /\ th'[w].at = "rebuild"
    BY <1>0, <1>5, <1>b DEF TruncateMetadata, Goto, Thread
  <2>6. \A ft \in FileTags \ {f} : Agrees(ft)' /\ Shows(ft)'
    BY <1>0, <2>1, <2>2, <2>4, OthersKeep
  <2>7. Agrees(f)'
    <3>1. meta'[f] = th[w].md /\ th[w].md # NoMeta
      BY <1>0, <2>4, DistinctAssumption
    <3>2. QED
      BY <2>1, <2>2, <2>3, <3>1 DEF Agrees, MidTruncate, LinkOf
  <2>8. Shows(f)'
    <3>1. ASSUME NEW i \in Pages, i < size PROVE expect'[f][i] = Shown(f, i)'
      <4>1. Shown(f, i) = IF expect[f][i] = NoData THEN Initial ELSE expect[f][i]
        BY <2>1, <2>2, <3>1 DEF MidTruncate
      <4>2. Shown(f, i)' = Shown(f, i)
        BY <2>1 DEF Shown
      <4>3. QED
        BY <1>0, <2>4, <3>1, <4>1, <4>2 DEF Pages
    <3>2. ASSUME NEW i \in Pages, i >= size PROVE expect'[f][i] = Shown(f, i)'
      <4>1. link[f][i] = NoBlock
        BY <2>1, <2>2, <3>2 DEF MidTruncate, LinkOf, Pages
      <4>2. QED
        BY <1>0, <2>1, <2>4, <3>2, <4>1 DEF Shown
    <3>3. QED
      BY <3>1, <3>2 DEF Shows, Pages
  <2>9. LinksUsed'
    BY <1>b, <2>1 DEF LinksUsed
  <2>10. Midway(th[w])'
    BY <2>5 DEF Midway
  <2>11. QED
    BY <2>5, <2>6, <2>7, <2>8, <2>9, <2>10 DEF Serial, Goes
<1>6. QED
  BY <1>1, <1>2, <1>3, <1>4, <1>5 DEF Truncate

-----------------------------------------------------------------------------
(* TAG *)

LEMMA TagSerial ==
  ASSUME IInv, NEW w \in Workers, Serial(th[w]), Tag(w) PROVE Goes(w)
<1> PICK f \in FileTags : f = th[w].ft
  BY MayStep
<1> PICK d \in FileTags : d = th[w].dst
  BY MayStep
<1> PICK todo \in SUBSET Entries : todo = th[w].todo
  BY MayStep
<1>0. /\ th \in [Workers -> Thread] /\ th[w] \in Thread
      /\ link \in [FileTags -> [Pages -> Blocks \union {NoBlock}]]
      /\ meta \in [FileTags -> Metadata \union {NoMeta}]
      /\ expect \in [FileTags -> [Pages -> Contents \union {NoData}]]
  BY MayStep DEF IInv, ThreadsOK, LinkOK, FilesOK, HistoryOK
<1>b. th[w].op = "TAG" /\ LinksUsed
  BY DEF Tag, TagCheck, TagSkip, TagCopyMetadata, TagLink, TagFails, TagMetadata, At, Serial
<1>c. MetadataConfig \notin Pages
  BY SizesAssumption DEF MetadataConfig, Pages
\* In the middle of the copy the origin is whole.
<1>d. ASSUME th[w].at = "copy"
      PROVE  /\ Changing(th[w], d) /\ f # d /\ f \in dirs /\ d \in dirs
             /\ \A i \in Pages : link[d][i] = IF i \in todo THEN NoBlock ELSE link[f][i]
             /\ meta[d] = IF MetadataConfig \in todo THEN NoMeta ELSE meta[f]
             /\ Agrees(f) /\ Shows(f) /\ meta[f] # NoMeta
  <2>1. Changing(th[w], d) /\ MidTag(th[w])
    BY <1>b, <1>d DEF Changing, Serial, Midway
  <2>2. f # d /\ f \in dirs /\ d \in dirs
    BY <2>1 DEF MidTag
  <2>3. ~Changing(th[w], f)
    BY <1>b, <2>2 DEF Changing
  <2>4. Agrees(f) /\ Shows(f)
    BY <2>3 DEF Serial
  <2>5. QED
    BY <2>1, <2>2, <2>4 DEF MidTag, Agrees
<1>1. CASE TagCheck(w)
  <2>1. CASE Refuse(w)
    BY <1>1, <2>1, Refused DEF TagCheck, At, Goes
  <2>2. CASE /\ f \in dirs /\ d \notin dirs
             /\ files' = files \union {d}
             /\ dirs' = dirs \union {d}
             /\ th' = [th EXCEPT ![w].todo = Entries, ![w].at = "copy"]
             /\ UNCHANGED <<meta, link, content, bitmap, indexVars, lock, history, expect>>
    <3>1. /\ th'[w].op = "TAG" /\ th'[w].at = "copy" /\ th'[w].ft = f /\ th'[w].dst = d
          /\ th'[w].todo = Entries
      BY <1>0, <1>b, <2>2 DEF Thread
    <3>2. \A ft \in FileTags : ~Changing(th[w], ft)
      BY <1>1 DEF TagCheck, At, Changing
    <3>3. Agrees(d)
      BY <3>2 DEF Serial
    <3>4. meta'[d] = NoMeta /\ \A i \in Pages : link'[d][i] = NoBlock
      BY <2>2, <3>3 DEF Agrees
    <3>5. Pages \subseteq Entries /\ MetadataConfig \in Entries
      BY DEF Entries
    <3>6. f # d /\ f \in dirs' /\ d \in dirs'
      BY <2>2
    <3>7. Midway(th[w])'
      BY <3>1, <3>4, <3>5, <3>6, TagGoesOn
    <3>8. \A ft \in FileTags \ {d} : Agrees(ft)' /\ Shows(ft)'
      BY <2>2, <3>2, OthersKeep
    <3>9. LinksUsed'
      BY <1>b, <2>2 DEF LinksUsed
    <3>10. Changing(th[w], d)'
      BY <3>1 DEF Changing
    <3>11. QED
      BY <3>1, <3>7, <3>8, <3>9, <3>10, StillChanging DEF Goes
  <2>3. QED
    BY <1>1, <2>1, <2>2 DEF TagCheck
<1>2. CASE TagSkip(w)
  <2>1. PICK e \in todo :
          /\ IF e = MetadataConfig THEN meta[f] = NoMeta ELSE link[f][e] = NoBlock
          /\ th' = [th EXCEPT ![w].todo = todo \ {e}]
    BY <1>2 DEF TagSkip
  <2>2. UNCHANGED <<dirs, meta, link, content, bitmap, expect>> /\ th[w].at = "copy"
    BY <1>2 DEF TagSkip, At, fsVars
  <2>3. /\ th'[w].op = "TAG" /\ th'[w].at = "copy" /\ th'[w].ft = f /\ th'[w].dst = d
        /\ th'[w].todo = todo \ {e}
    BY <1>0, <1>b, <2>1, <2>2 DEF Thread
  <2>4. e # MetadataConfig /\ link[f][e] = NoBlock
    BY <1>d, <2>1, <2>2
  <2>5. \A i \in Pages : link'[d][i] = IF i \in todo \ {e} THEN NoBlock ELSE link'[f][i]
    BY <1>d, <2>2, <2>4
  <2>6. meta'[d] = IF MetadataConfig \in todo \ {e} THEN NoMeta ELSE meta'[f]
    BY <1>d, <2>2, <2>4
  <2>7. Midway(th[w])'
    BY <1>d, <2>2, <2>3, <2>5, <2>6, TagGoesOn
  <2>8. \A ft \in FileTags \ {d} : Agrees(ft)' /\ Shows(ft)'
    BY <1>d, <2>2, OthersKeep
  <2>9. LinksUsed'
    BY <1>b, <2>2 DEF LinksUsed
  <2>10. Changing(th[w], d)'
    BY <2>3 DEF Changing
  <2>11. QED
    BY <2>3, <2>7, <2>8, <2>9, <2>10, StillChanging DEF Goes
<1>3. CASE TagCopyMetadata(w)
  <2>1. /\ UNCHANGED <<dirs, link, content, bitmap, expect>> /\ th[w].at = "copy"
        /\ meta' = [meta EXCEPT ![d] = meta[f]] /\ MetadataConfig \in todo
        /\ th' = [th EXCEPT ![w].todo = todo \ {MetadataConfig}]
    BY <1>3 DEF TagCopyMetadata, At
  <2>2. /\ th'[w].op = "TAG" /\ th'[w].at = "copy" /\ th'[w].ft = f /\ th'[w].dst = d
        /\ th'[w].todo = todo \ {MetadataConfig}
    BY <1>0, <1>b, <2>1 DEF Thread
  <2>3. meta'[d] = meta[f] /\ \A ft \in FileTags \ {d} : meta'[ft] = meta[ft]
    BY <1>0, <2>1
  <2>4. \A i \in Pages : link'[d][i] =
          IF i \in todo \ {MetadataConfig} THEN NoBlock ELSE link'[f][i]
    BY <1>c, <1>d, <2>1
  <2>5. meta'[d] = IF MetadataConfig \in todo \ {MetadataConfig} THEN NoMeta ELSE meta'[f]
    BY <1>d, <2>1, <2>3
  <2>6. Midway(th[w])'
    <3>1. f # d /\ f \in dirs' /\ d \in dirs'
      BY <1>d, <2>1
    <3>2. QED
      BY <2>2, <2>4, <2>5, <3>1, TagGoesOn
  <2>7. \A ft \in FileTags \ {d} : Agrees(ft)' /\ Shows(ft)'
    BY <1>d, <2>1, <2>3, OthersKeep
  <2>8. LinksUsed'
    BY <1>b, <2>1 DEF LinksUsed
  <2>9. Changing(th[w], d)'
    BY <2>2 DEF Changing
  <2>10. QED
    BY <2>2, <2>6, <2>7, <2>8, <2>9, StillChanging DEF Goes
<1>4. CASE TagLink(w)
  <2>1. PICK e \in todo \ {MetadataConfig} :
          /\ link[f][e] # NoBlock /\ link' = [link EXCEPT ![d][e] = link[f][e]]
          /\ th' = [th EXCEPT ![w].todo = todo \ {e}]
    BY <1>4 DEF TagLink
  <2>2. UNCHANGED <<dirs, meta, content, bitmap, expect>> /\ th[w].at = "copy"
    BY <1>4 DEF TagLink, At
  <2>3. /\ th'[w].op = "TAG" /\ th'[w].at = "copy" /\ th'[w].ft = f /\ th'[w].dst = d
        /\ th'[w].todo = todo \ {e}
    BY <1>0, <1>b, <2>1, <2>2 DEF Thread
  <2>4. e \in Pages
    BY <2>1 DEF Entries
  <2>5. \A ft \in FileTags, i \in Pages : link'[ft][i] =
          IF ft = d /\ i = e THEN link[f][e] ELSE link[ft][i]
    BY <1>0, <2>1, <2>4
  <2>6. \A i \in Pages : link'[d][i] = IF i \in todo \ {e} THEN NoBlock ELSE link'[f][i]
    BY <1>d, <2>2, <2>4, <2>5
  <2>7. meta'[d] = IF MetadataConfig \in todo \ {e} THEN NoMeta ELSE meta'[f]
    BY <1>d, <2>1, <2>2
  <2>8. Midway(th[w])'
    BY <1>d, <2>2, <2>3, <2>6, <2>7, TagGoesOn
  <2>9. \A ft \in FileTags \ {d} : link'[ft] = link[ft]
    BY <1>0, <2>1
  <2>10. \A ft \in FileTags \ {d} : Agrees(ft)' /\ Shows(ft)'
    BY <1>d, <2>2, <2>9, OthersKeep
  <2>11. LinksUsed'
    BY <1>b, <2>1, <2>2, <2>4, <2>5 DEF LinksUsed
  <2>12. Changing(th[w], d)'
    BY <2>3 DEF Changing
  <2>13. QED
    BY <2>3, <2>8, <2>10, <2>11, <2>12, StillChanging DEF Goes
<1>5. CASE TagFails(w)
  <2>1. th[w].at = "copy"
    BY <1>5 DEF TagFails, At
  <2>2. CASE todo # {} /\ d \notin dirs
    BY <1>d, <2>1, <2>2
  <2>3. CASE \E i \in todo \ {MetadataConfig} : link[f][i] # NoBlock /\ link[d][i] # NoBlock
    BY <1>d, <2>1, <2>3 DEF Entries
  <2>4. QED
    BY <1>5, <2>2, <2>3 DEF TagFails
<1>6. CASE TagMetadata(w)
  <2>1. /\ UNCHANGED <<dirs, link, content, bitmap>> /\ th[w].at = "copy" /\ todo = {}
        /\ expect' = [expect EXCEPT ![d] = expect[f]]
    BY <1>6 DEF TagMetadata, At
  <2>2. meta[d] = meta[f] /\ meta[d] # NoMeta /\ meta[d] \in Metadata
    BY <1>0, <1>d, <2>1
  <2>3. meta' = [meta EXCEPT ![d].estado = "WORK_IN_PROGRESS"]
    BY <1>6, <2>2 DEF TagMetadata
  <2>4. /\ meta'[d] \in Metadata /\ meta'[d].tam = meta[f].tam
        /\ meta'[d].blocks = meta[f].blocks
        /\ \A ft \in FileTags \ {d} : meta'[ft] = meta[ft]
    BY <1>0, <2>2, <2>3 DEF Metadata
  <2>5. th'[w].op = "TAG" /\ th'[w].at = "rebuild"
    BY <1>0, <1>6, <1>b DEF TagMetadata, Goto, Thread
  <2>6. \A ft \in FileTags \ {d} : Agrees(ft)' /\ Shows(ft)'
    BY <1>0, <1>d, <2>1, <2>4, OthersKeep
  <2>7. Agrees(d)'
    <3>1. meta'[d] # NoMeta
      BY <2>4, DistinctAssumption
    <3>2. \A i \in Pages : link'[d][i] = LinkOf(meta[f], i)
      BY <1>d, <2>1 DEF Agrees
    <3>3. QED
      BY <1>d, <2>1, <2>4, <3>1, <3>2 DEF Agrees, LinkOf
  <2>8. Shows(d)'
    BY <1>0, <1>d, <2>1 DEF Shows, Shown
  <2>9. LinksUsed'
    BY <1>b, <2>1 DEF LinksUsed
  <2>10. Midway(th[w])'
    BY <2>5 DEF Midway
  <2>11. QED
    BY <2>5, <2>6, <2>7, <2>8, <2>9, <2>10 DEF Serial, Goes
<1>7. QED
  BY <1>1, <1>2, <1>3, <1>4, <1>5, <1>6 DEF Tag

-----------------------------------------------------------------------------
(* COMMIT *)

LEMMA CommitSerial ==
  ASSUME IInv, NEW w \in Workers, Serial(th[w]), Commit(w) PROVE Goes(w)
<1> PICK f \in FileTags : f = th[w].ft
  BY MayStep
<1> PICK md : md = th[w].md
  OBVIOUS
<1>0. /\ th \in [Workers -> Thread] /\ th[w] \in Thread /\ md \in Metadata
      /\ link \in [FileTags -> [Pages -> Blocks \union {NoBlock}]]
      /\ meta \in [FileTags -> Metadata \union {NoMeta}]
      /\ expect \in [FileTags -> [Pages -> Contents \union {NoData}]]
  BY MayStep DEF IInv, ThreadsOK, LinkOK, FilesOK, HistoryOK
<1>b. th[w].op = "COMMIT"
  BY DEF Commit, CommitCheck, CommitHash, CommitLookup, CommitRelease, CommitMetadata, At
<1>d. ASSUME th[w].at \in {"hash", "lookup", "release"}
      PROVE  Changing(th[w], f) /\ f \in dirs /\ \A i \in Pages : link[f][i] = LinkOf(md, i)
  BY <1>b, <1>d DEF Changing, Serial, Midway, MidCommit
\* A step that only moves the COMMIT on.
<1>e. ASSUME th[w].at \in {"hash", "lookup", "release"}, th'[w].at \in {"hash", "lookup"},
             th'[w].op = "COMMIT", th'[w].ft = f, th'[w].md = md, SameFiles
      PROVE  Goes(w)
  <2>1. UNCHANGED <<dirs, link>>
    BY <1>e DEF SameFiles, fsVars
  <2>2. Midway(th[w])'
    BY <1>d, <1>e, <2>1, CommitGoesOn
  <2>3. \A ft \in FileTags : Changing(th[w], ft) => Changing(th[w], ft)'
    BY <1>b, <1>e DEF Changing
  <2>4. QED
    BY <1>e, <2>2, <2>3, OnlyMoves DEF Goes
<1>1. CASE CommitCheck(w)
  <2>1. CASE Refuse(w)
    BY <1>1, <2>1, Refused DEF CommitCheck, At, Goes
  <2>2. CASE /\ Writable(f)
             /\ th' = [th EXCEPT ![w].md = meta[f], ![w].at = "hash"]
             /\ UNCHANGED <<fsVars, bitmap, indexVars, lock, history, expect>>
    <3>1. /\ th'[w].op = "COMMIT" /\ th'[w].at = "hash" /\ th'[w].ft = f
          /\ th'[w].md = meta[f]
      BY <1>0, <1>b, <2>2 DEF Thread
    <3>2. \A ft \in FileTags : ~Changing(th[w], ft)
      BY <1>1 DEF CommitCheck, At, Changing
    <3>3. Agrees(f) /\ meta[f] # NoMeta
      BY <2>2, <3>2 DEF Serial, Writable
    <3>4. UNCHANGED <<dirs, link>>
      BY <2>2 DEF fsVars
    <3>5. f \in dirs' /\ \A i \in Pages : link'[f][i] = LinkOf(meta[f], i)
      BY <3>3, <3>4 DEF Agrees
    <3>6. Midway(th[w])'
      BY <3>1, <3>5, CommitGoesOn
    <3>7. SameFiles
      BY <2>2 DEF SameFiles
    <3>8. Serial(th[w])'
      BY <3>1, <3>2, <3>6, <3>7, OnlyMoves
    <3>9. QED
      BY <3>1, <3>8 DEF Goes
  <2>3. QED
    BY <1>1, <2>1, <2>2 DEF CommitCheck
<1>2. CASE CommitHash(w)
  <2>1. th[w].at = "hash" /\ SameFiles
    BY <1>2 DEF CommitHash, At, SameFiles
  <2>2. \E c \in Contents : th' = [th EXCEPT ![w].data = c, ![w].at = "lookup"]
    BY <1>2 DEF CommitHash
  <2>3. th'[w].op = "COMMIT" /\ th'[w].at = "lookup" /\ th'[w].ft = f /\ th'[w].md = md
    BY <1>0, <1>b, <2>2 DEF Thread
  <2>4. QED
    BY <1>e, <2>1, <2>3
<1>3. CASE CommitLookup(w)
  <2>0. th[w].at = "lookup" /\ th[w].page < md.tam /\ th[w].page \in Nat
    BY <1>3, MayStep DEF CommitLookup, At, AimsRight
  <2> PICK n \in Pages : n = th[w].page
    BY <1>0, <2>0, SizesAssumption DEF Pages, Metadata
  <2> PICK found : found = hash_index_find_block(th[w].data)
    OBVIOUS
  <2>1. CASE /\ link' = [link EXCEPT ![f][n] = found]
             /\ th' = [th EXCEPT ![w].page = n + 1, ![w].md = Entered(@, @.tam, n, found),
                                 ![w].target = md.blocks[n], ![w].at = "release"]
    <3> PICK new : new = Entered(md, md.tam, n, found)
      OBVIOUS
    <3>1. th'[w].op = "COMMIT" /\ th'[w].at = "release" /\ th'[w].ft = f /\ th'[w].md = new
      BY <1>0, <1>b, <2>1 DEF Thread
    <3>2. UNCHANGED <<dirs, meta, content, bitmap, expect>>
      BY <1>3 DEF CommitLookup
    <3>3. new.tam = md.tam /\ \A i \in Pages : new.blocks[i] = IF i = n THEN found ELSE md.blocks[i]
      BY <1>0 DEF Entered, Metadata
    <3>4. \A i \in Pages : link'[f][i] = IF i = n THEN found ELSE link[f][i]
      BY <1>0, <2>1
    <3>5. \A i \in Pages : link'[f][i] = LinkOf(new, i)
      BY <1>d, <2>0, <3>3, <3>4 DEF LinkOf
    <3>6. Midway(th[w])'
      BY <1>d, <2>0, <3>1, <3>2, <3>5, CommitGoesOn
    <3>7. \A ft \in FileTags \ {f} : link'[ft] = link[ft]
      BY <1>0, <2>1
    <3>8. \A ft \in FileTags \ {f} : Agrees(ft)' /\ Shows(ft)'
      BY <1>d, <2>0, <3>2, <3>7, OthersKeep
    <3>9. Changing(th[w], f)'
      BY <3>1 DEF Changing
    <3>10. QED
      BY <3>1, <3>6, <3>8, <3>9, StillChanging DEF Goes
  <2>2. CASE link' = link /\ th' = [th EXCEPT ![w].page = n + 1, ![w].at = "hash"]
    <3>1. th'[w].op = "COMMIT" /\ th'[w].at = "hash" /\ th'[w].ft = f /\ th'[w].md = md
      BY <1>0, <1>b, <2>2 DEF Thread
    <3>2. SameFiles
      BY <1>3, <2>2 DEF CommitLookup, SameFiles, fsVars
    <3>3. QED
      BY <1>e, <2>0, <3>1, <3>2
  <2>3. QED
    BY <1>3, <2>1, <2>2 DEF CommitLookup
<1>4. CASE CommitRelease(w)
  <2>1. UNCHANGED <<dirs, meta, link, content, expect>> /\ th[w].at = "release"
    BY <1>4 DEF CommitRelease, At, fsVars
  <2>2. th'[w].op = "COMMIT" /\ th'[w].at = "hash" /\ th'[w].ft = f /\ th'[w].md = md
    BY <1>0, <1>4, <1>b DEF CommitRelease, Goto, Thread
  <2>3. Midway(th[w])'
    BY <1>d, <2>1, <2>2, CommitGoesOn
  <2>4. \A ft \in FileTags \ {f} : Agrees(ft)' /\ Shows(ft)'
    BY <1>d, <2>1, OthersKeep
  <2>5. Changing(th[w], f)'
    BY <2>2 DEF Changing
  <2>6. QED
    BY <2>2, <2>3, <2>4, <2>5, StillChanging DEF Goes
<1>5. CASE CommitMetadata(w)
  <2>1. /\ UNCHANGED <<dirs, link, content, bitmap>> /\ th[w].at = "hash"
        /\ expect' = [expect EXCEPT ![f] = [i \in Pages |->
                        IF link[f][i] = NoBlock THEN NoData ELSE content[link[f][i]]]]
    BY <1>5 DEF CommitMetadata, At
  <2>2. f \in dirs
    BY <1>d, <2>1
  <2>3. meta' = [meta EXCEPT ![f] = [md EXCEPT !.estado = "COMMITED"]]
    BY <1>5, <2>2 DEF CommitMetadata
  <2>4. /\ meta'[f] \in Metadata /\ meta'[f].tam = md.tam /\ meta'[f].blocks = md.blocks
        /\ \A ft \in FileTags \ {f} : meta'[ft] = meta[ft]
    BY <1>0, <2>3 DEF Metadata
  <2>5. th'[w].op = "COMMIT" /\ th'[w].at = "rebuild"
    BY <1>0, <1>5, <1>b DEF CommitMetadata, Goto, Thread
  <2>6. \A ft \in FileTags \ {f} : Agrees(ft)' /\ Shows(ft)'
    BY <1>0, <1>d, <2>1, <2>4, OthersKeep
  <2>7. Agrees(f)'
    <3>1. meta'[f] # NoMeta
      BY <2>4, DistinctAssumption
    <3>2. \A i \in Pages : link'[f][i] = LinkOf(md, i)
      BY <1>d, <2>1
    <3>3. QED
      BY <2>1, <2>2, <2>4, <3>1, <3>2 DEF Agrees, LinkOf
  <2>8. Shows(f)'
    BY <1>0, <2>1 DEF Shows, Shown
  <2>9. Midway(th[w])'
    BY <2>5 DEF Midway
  <2>10. QED
    BY <2>5, <2>6, <2>7, <2>8, <2>9 DEF Serial, Goes
<1>6. QED
  BY <1>1, <1>2, <1>3, <1>4, <1>5 DEF Commit

-----------------------------------------------------------------------------
(* WRITE *)

\* A step before the WRITE changes its File:Tag.
LEMMA NotYetChanging ==
  ASSUME NEW w \in Workers, \A ft \in FileTags : Agrees(ft) /\ Shows(ft),
         UNCHANGED <<dirs, meta, link, expect>>,
         \A ft \in FileTags, i \in Pages :
           link[ft][i] # NoBlock => content'[link[ft][i]] = content[link[ft][i]],
         LinksUsed', Midway(th[w])'
  PROVE  Serial(th[w])'
<1>1. \A ft \in FileTags : Agrees(ft)' /\ Shows(ft)'
  BY KeptFileTag
<1>2. QED
  BY <1>1 DEF Serial

LEMMA WriteSerial ==
  ASSUME IInv, NEW w \in Workers, Serial(th[w]), Write(w) PROVE Goes(w)
<1> PICK f \in FileTags : f = th[w].ft
  BY MayStep
<1> PICK md : md = th[w].md
  OBVIOUS
<1> PICK t : t = th[w].target
  OBVIOUS
<1>0. /\ th \in [Workers -> Thread] /\ th[w] \in Thread /\ md \in Metadata /\ WellFormed(md)
      /\ link \in [FileTags -> [Pages -> Blocks \union {NoBlock}]]
      /\ content \in [Blocks -> Contents]
      /\ meta \in [FileTags -> Metadata \union {NoMeta}]
      /\ expect \in [FileTags -> [Pages -> Contents \union {NoData}]]
  BY MayStep DEF IInv, ThreadsOK, LinkOK, FilesOK, HistoryOK, ContentOK
<1>b. th[w].op = "WRITE" /\ LinksUsed
  BY DEF Write, WriteCheck, WriteReserve, WriteCopy, WriteUnlink, WriteLink, WriteMetadata,
         WriteOpen, WriteData, At, Serial
<1>1. CASE WriteCheck(w)
  <2>1. CASE Refuse(w)
    BY <1>1, <2>1, Refused DEF WriteCheck, At, Goes
  <2>2. CASE /\ Writable(f)
             /\ th' = [th EXCEPT ![w].md = meta[f], ![w].at = "stat"]
             /\ UNCHANGED <<fsVars, bitmap, indexVars, lock, history, expect>>
    <3>1. /\ th'[w].op = "WRITE" /\ th'[w].at = "stat" /\ th'[w].ft = f
          /\ th'[w].md = meta[f] /\ th'[w].target = t
      BY <1>0, <1>b, <2>2 DEF Thread
    <3>2. \A ft \in FileTags : ~Changing(th[w], ft)
      BY <1>1 DEF WriteCheck, At, Changing
    <3>3. Agrees(f) /\ meta[f] # NoMeta
      BY <2>2, <3>2 DEF Serial, Writable
    <3>4. f \in dirs' /\ meta'[f] = th'[w].md
      BY <2>2, <3>1, <3>3 DEF Agrees, fsVars
    <3>5. Midway(th[w])'
      BY <3>1, <3>4, WriteBegins
    <3>6. SameFiles
      BY <2>2 DEF SameFiles
    <3>7. Serial(th[w])'
      BY <1>b, <3>2, <3>5, <3>6, OnlyMoves
    <3>8. QED
      BY <3>1, <3>7 DEF Goes
  <2>3. QED
    BY <1>1, <2>1, <2>2 DEF WriteCheck
<1>a. ASSUME th[w].at \in Targeted \union {"stat"}
      PROVE  th[w].page < md.tam /\ th[w].page \in Pages
  <2>1. th[w].page < md.tam /\ th[w].page \in Nat
    BY <1>a, <1>b, MayStep DEF AimsRight
  <2>2. QED
    BY <1>0, <2>1, SizesAssumption DEF Pages, Metadata
\* Until the unlink everything agrees, and the block is linked.
<1>e. ASSUME th[w].at \in {"stat", "copy", "unlink"}
      PROVE  /\ f \in dirs /\ meta[f] = md
             /\ \A ft \in FileTags : Agrees(ft) /\ Shows(ft)
             /\ \A i \in Pages : link[f][i] = LinkOf(md, i)
  <2>1. \A ft \in FileTags : ~Changing(th[w], ft)
    BY <1>b, <1>e DEF Changing
  <2>2. \A ft \in FileTags : Agrees(ft) /\ Shows(ft)
    BY <2>1 DEF Serial
  <2>3. f \in dirs /\ meta[f] = md
    BY <1>b, <1>e DEF Serial, Midway, BeforeUnlink
  <2>4. QED
    BY <2>2, <2>3 DEF Agrees
<1>t. ASSUME th[w].at \in Targeted
      PROVE  /\ t \in bitmap /\ t \in Blocks
             /\ \A ft \in FileTags, i \in Pages : link[ft][i] = t =>
                  th[w].at \in {"metadata", "open", "data"} /\ ft = f /\ i = th[w].page
  BY <1>b, <1>t, MayStep DEF Targeted, Serial, Midway, Reserved, AimsRight
<1>d. ASSUME th[w].at \in {"link", "metadata", "open", "data"}
      PROVE  /\ Changing(th[w], f)
             /\ f \in dirs /\ meta[f] # NoMeta /\ meta[f].tam = md.tam
             /\ \A i \in Pages \ {th[w].page} :
                  /\ meta[f].blocks[i] = md.blocks[i] /\ link[f][i] = LinkOf(md, i)
                  /\ expect[f][i] = Shown(f, i)
             /\ link[f][th[w].page] = IF th[w].at = "link" THEN NoBlock ELSE t
             /\ th[w].at \in {"open", "data"} => meta[f].blocks[th[w].page] = t
  BY <1>b, <1>d DEF Changing, Serial, Midway, MidWrite
<1>c. \A b \in Blocks : content[b] # NoData /\ b # NoBlock
  BY <1>0, DistinctAssumption
<1>2. CASE WriteReserve(w)
  <2>0. th[w].at = "stat"
    BY <1>2 DEF WriteReserve, At
  <2>1. Linked(md.blocks[th[w].page])
    BY <1>a, <1>e, <2>0 DEF Linked, LinkOf
  <2>2. CASE FreeBlocks = {} /\ Finish(w) /\ bitmap' = bitmap
    <3>1. UNCHANGED <<dirs, meta, link, content, bitmap, expect>>
      BY <1>2, <2>2 DEF WriteReserve, fsVars
    <3>2. \A ft \in FileTags : Agrees(ft)' /\ Shows(ft)'
      BY <1>e, <2>0, <3>1, KeptFileTag
    <3>3. LinksUsed'
      BY <1>b, <3>1 DEF LinksUsed
    <3>4. QED
      BY <2>2, <3>2, <3>3, Finished DEF Goes
  <2>3. CASE \E free \in FirstFree :
               /\ bitmap' = bitmap \union {free}
               /\ th' = [th EXCEPT ![w].target = free, ![w].at = "copy"]
    <3>1. PICK free \in FirstFree :
            /\ bitmap' = bitmap \union {free}
            /\ th' = [th EXCEPT ![w].target = free, ![w].at = "copy"]
      BY <2>3
    <3>2. /\ th'[w].op = "WRITE" /\ th'[w].at = "copy" /\ th'[w].ft = f
          /\ th'[w].md = md /\ th'[w].target = free
      BY <1>0, <1>b, <3>1 DEF Thread
    <3>3. UNCHANGED <<dirs, meta, link, content, expect>>
      BY <1>2 DEF WriteReserve, fsVars
    <3>4. free \in Blocks /\ free \notin bitmap
      BY DEF FirstFree, FreeBlocks
    <3>5. \A ft \in FileTags, i \in Pages : link'[ft][i] # free
      BY <1>b, <1>c, <3>3, <3>4 DEF LinksUsed
    <3>6. f \in dirs' /\ meta'[f] = th'[w].md /\ free \in bitmap'
      BY <1>e, <2>0, <3>1, <3>2, <3>3
    <3>7. Midway(th[w])'
      BY <3>2, <3>5, <3>6, WriteBegins
    <3>8. LinksUsed'
      BY <1>b, <3>1, <3>3 DEF LinksUsed
    <3>9. Serial(th[w])'
      BY <1>e, <2>0, <3>3, <3>7, <3>8, NotYetChanging
    <3>10. QED
      BY <3>2, <3>9 DEF Goes
  <2>4. QED
    BY <1>2, <2>1, <2>2, <2>3 DEF WriteReserve
<1>3. CASE WriteCopy(w)
  <2>1. /\ th[w].at = "copy" /\ UNCHANGED <<dirs, meta, link, bitmap, expect>>
        /\ content' = [content EXCEPT ![t] = content[md.blocks[th[w].page]]]
    BY <1>3 DEF WriteCopy, At
  <2>2. /\ th'[w].op = "WRITE" /\ th'[w].at = "unlink" /\ th'[w].ft = f
        /\ th'[w].md = md /\ th'[w].target = t
    BY <1>0, <1>3, <1>b DEF WriteCopy, Goto, Thread
  <2>3. t \in bitmap /\ t \in Blocks /\ \A ft \in FileTags, i \in Pages : link[ft][i] # t
    BY <1>t, <2>1 DEF Targeted
  <2>4. \A ft \in FileTags, i \in Pages :
          link[ft][i] # NoBlock => content'[link[ft][i]] = content[link[ft][i]]
    BY <1>0, <2>1, <2>3
  <2>5. f \in dirs' /\ meta'[f] = th'[w].md
    BY <1>e, <2>1, <2>2
  <2>6. Midway(th[w])'
    BY <2>1, <2>2, <2>3, <2>5, WriteBegins
  <2>7. LinksUsed'
    BY <1>b, <2>1 DEF LinksUsed
  <2>8. Serial(th[w])'
    BY <1>e, <2>1, <2>4, <2>6, <2>7, NotYetChanging
  <2>9. QED
    BY <2>2, <2>8 DEF Goes
<1>4. CASE WriteUnlink(w)
  <2>1. /\ th[w].at = "unlink" /\ UNCHANGED <<dirs, meta, content, bitmap, expect>>
        /\ link' = [link EXCEPT ![f][th[w].page] = NoBlock]
    BY <1>4 DEF WriteUnlink, At
  <2> PICK p \in Pages : p = th[w].page
    BY <1>a, <2>1 DEF Targeted
  <2>2. /\ th'[w].op = "WRITE" /\ th'[w].at = "link" /\ th'[w].ft = f /\ th'[w].page = p
        /\ th'[w].md = md /\ th'[w].target = t
    BY <1>0, <1>4, <1>b DEF WriteUnlink, Goto, Thread
  <2>3. t \in bitmap /\ t \in Blocks /\ \A ft \in FileTags, i \in Pages : link[ft][i] # t
    BY <1>t, <2>1 DEF Targeted
  <2>4. \A ft \in FileTags, i \in Pages : link'[ft][i] =
          IF ft = f /\ i = p THEN NoBlock ELSE link[ft][i]
    BY <1>0, <2>1
  <2>5. meta'[f] = md /\ f \in dirs' /\ md # NoMeta
    BY <1>0, <1>e, <2>1, DistinctAssumption
  <2>6. ASSUME NEW i \in Pages \ {p}
        PROVE  link'[f][i] = LinkOf(md, i) /\ expect'[f][i] = Shown(f, i)'
    <3>1. link[f][i] = LinkOf(md, i) /\ expect[f][i] = Shown(f, i)
      BY <1>e, <2>1 DEF Shows
    <3>2. link'[f][i] = link[f][i]
      BY <2>4
    <3>3. Shown(f, i)' = Shown(f, i)
      BY <2>1, <3>2 DEF Shown
    <3>4. QED
      BY <2>1, <3>1, <3>2, <3>3
  <2>7. link'[f][p] = NoBlock /\ \A ft \in FileTags, i \in Pages : link'[ft][i] # t
    BY <1>c, <2>3, <2>4
  <2>8. Midway(th[w])'
    <3>1. \A i \in Pages \ {p} : /\ meta'[f].blocks[i] = md.blocks[i]
                                 /\ link'[f][i] = LinkOf(md, i)
                                 /\ expect'[f][i] = Shown(f, i)'
      BY <2>5, <2>6
    <3>2. t \in bitmap'
      BY <2>1, <2>3
    <3>3. QED
      BY <2>2, <2>5, <2>7, <3>1, <3>2, WriteGoesOn
  <2>9. \A ft \in FileTags : ~Changing(th[w], ft)
    BY <1>b, <2>1 DEF Changing
  <2>10. \A ft \in FileTags \ {f} : link'[ft] = link[ft]
    BY <1>0, <2>1
  <2>11. \A ft \in FileTags \ {f} : Agrees(ft)' /\ Shows(ft)'
    BY <2>1, <2>9, <2>10, OthersKeep
  <2>12. LinksUsed'
    BY <1>b, <2>1, <2>4 DEF LinksUsed
  <2>13. Changing(th[w], f)'
    BY <2>2 DEF Changing
  <2>14. QED
    BY <2>2, <2>8, <2>11, <2>12, <2>13, StillChanging DEF Goes
<1>5. CASE WriteLink(w)
  <2>1. th[w].at = "link" /\ UNCHANGED <<dirs, meta, content, expect>>
    BY <1>5 DEF WriteLink, At
  <2> PICK p \in Pages : p = th[w].page
    BY <1>a, <2>1 DEF Targeted
  <2>2. /\ link' = [link EXCEPT ![f][p] = t] /\ Goto(w, "metadata") /\ bitmap' = bitmap
    BY <1>5, <1>d, <2>1 DEF WriteLink
  <2>3. /\ th'[w].op = "WRITE" /\ th'[w].at = "metadata" /\ th'[w].ft = f /\ th'[w].page = p
        /\ th'[w].md = md /\ th'[w].target = t
    BY <1>0, <2>2, <1>b DEF Goto, Thread
  <2>4. t \in bitmap /\ t \in Blocks /\ \A ft \in FileTags, i \in Pages : link[ft][i] # t
    BY <1>t, <2>1 DEF Targeted
  <2>5. \A ft \in FileTags, i \in Pages : link'[ft][i] =
          IF ft = f /\ i = p THEN t ELSE link[ft][i]
    BY <1>0, <2>2
  <2>6. /\ f \in dirs' /\ meta'[f] # NoMeta /\ meta'[f].tam = md.tam
        /\ t \in bitmap' /\ link'[f][p] = t
    BY <1>d, <2>1, <2>2, <2>4, <2>5
  <2>7. ASSUME NEW i \in Pages \ {p}
        PROVE  /\ meta'[f].blocks[i] = md.blocks[i] /\ link'[f][i] = LinkOf(md, i)
               /\ expect'[f][i] = Shown(f, i)'
    <3>1. /\ meta[f].blocks[i] = md.blocks[i] /\ link[f][i] = LinkOf(md, i)
          /\ expect[f][i] = Shown(f, i)
      BY <1>d, <2>1
    <3>2. link'[f][i] = link[f][i]
      BY <2>5
    <3>3. Shown(f, i)' = Shown(f, i)
      BY <2>1, <3>2 DEF Shown
    <3>4. QED
      BY <2>1, <3>1, <3>2, <3>3
  <2>8. \A ft \in FileTags, i \in Pages : link'[ft][i] = t => ft = f /\ i = p
    BY <2>4, <2>5
  <2>9. Midway(th[w])'
    BY <2>3, <2>6, <2>7, <2>8, WriteGoesOn
  <2>10. \A ft \in FileTags \ {f} : link'[ft] = link[ft]
    BY <1>0, <2>2
  <2>11. \A ft \in FileTags \ {f} : Agrees(ft)' /\ Shows(ft)'
    BY <1>d, <2>1, <2>10, OthersKeep
  <2>12. LinksUsed'
    BY <1>b, <2>2, <2>4, <2>5 DEF LinksUsed
  <2>13. Changing(th[w], f)'
    BY <2>3 DEF Changing
  <2>14. QED
    BY <2>3, <2>9, <2>11, <2>12, <2>13, StillChanging DEF Goes
<1>6. CASE WriteMetadata(w)
  <2>1. th[w].at = "metadata" /\ UNCHANGED <<dirs, link, content, bitmap, expect>>
    BY <1>6 DEF WriteMetadata, At
  <2> PICK p \in Pages : p = th[w].page
    BY <1>a, <2>1 DEF Targeted
  <2> PICK new : new = Entered(md, md.tam, p, t)
    OBVIOUS
  <2>2. meta' = [meta EXCEPT ![f] = new] /\ Goto(w, "open")
    BY <1>6, <1>d, <2>1 DEF WriteMetadata
  <2>3. /\ th'[w].op = "WRITE" /\ th'[w].at = "open" /\ th'[w].ft = f /\ th'[w].page = p
        /\ th'[w].md = md /\ th'[w].target = t
    BY <1>0, <2>2, <1>b DEF Goto, Thread
  <2>4. /\ t \in bitmap /\ t \in Blocks
        /\ \A ft \in FileTags, i \in Pages : link[ft][i] = t => ft = f /\ i = p
    BY <1>t, <2>1 DEF Targeted
  <2>5. /\ new \in Metadata /\ new # NoMeta /\ new.tam = md.tam
        /\ \A i \in Pages : new.blocks[i] = IF i = p THEN t ELSE md.blocks[i]
    <3>1. new.tam = md.tam /\ new.blocks = [md.blocks EXCEPT ![p] = t] /\ new.estado = md.estado
      BY <1>0 DEF Entered, Metadata
    <3>2. new \in Metadata
      BY <1>0, <2>4 DEF Entered, Metadata
    <3>3. QED
      BY <1>0, <3>1, <3>2, DistinctAssumption DEF Metadata
  <2>6. meta'[f] = new /\ \A ft \in FileTags \ {f} : meta'[ft] = meta[ft]
    BY <1>0, <2>2
  <2>7. ASSUME NEW i \in Pages \ {p}
        PROVE  /\ meta'[f].blocks[i] = md.blocks[i] /\ link'[f][i] = LinkOf(md, i)
               /\ expect'[f][i] = Shown(f, i)'
    <3>1. link[f][i] = LinkOf(md, i) /\ expect[f][i] = Shown(f, i)
      BY <1>d, <2>1
    <3>2. Shown(f, i)' = Shown(f, i)
      BY <2>1 DEF Shown
    <3>3. QED
      BY <2>1, <2>5, <2>6, <3>1, <3>2
  <2>8. /\ f \in dirs' /\ meta'[f] # NoMeta /\ meta'[f].tam = md.tam
        /\ t \in bitmap' /\ link'[f][p] = t /\ meta'[f].blocks[p] = t
    BY <1>d, <2>1, <2>4, <2>5, <2>6
  <2>9. \A ft \in FileTags, i \in Pages : link'[ft][i] = t => ft = f /\ i = p
    BY <2>1, <2>4
  <2>10. Midway(th[w])'
    BY <2>3, <2>7, <2>8, <2>9, WriteGoesOn
  <2>11. \A ft \in FileTags \ {f} : Agrees(ft)' /\ Shows(ft)'
    BY <1>d, <2>1, <2>6, OthersKeep
  <2>12. LinksUsed'
    BY <1>b, <2>1 DEF LinksUsed
  <2>13. Changing(th[w], f)'
    BY <2>3 DEF Changing
  <2>14. QED
    BY <2>3, <2>10, <2>11, <2>12, <2>13, StillChanging DEF Goes
\* Only logical block p of f shows the block that is written.
<1>w. ASSUME th[w].at \in {"open", "data"}, NEW c, content' = [content EXCEPT ![t] = c],
             UNCHANGED <<dirs, meta, link>>,
             \A ft \in FileTags \ {f} : expect'[ft] = expect[ft],
             \A i \in Pages \ {th[w].page} : expect'[f][i] = expect[f][i]
      PROVE  /\ \A ft \in FileTags \ {f} : Agrees(ft)' /\ Shows(ft)'
             /\ \A i \in Pages \ {th[w].page} : expect'[f][i] = Shown(f, i)'
  <2>1. t \in Blocks /\ \A ft \in FileTags, i \in Pages : link[ft][i] = t => ft = f /\ i = th[w].page
    BY <1>t, <1>w DEF Targeted
  <2>2. \A b \in Blocks : b # t => content'[b] = content[b]
    BY <1>0, <1>w
  <2>3. ASSUME NEW ft \in FileTags \ {f} PROVE Agrees(ft)' /\ Shows(ft)'
    <3>1. Agrees(ft) /\ Shows(ft)
      BY <1>b, <1>w DEF Changing, Serial
    <3>2. \A i \in Pages : link[ft][i] # NoBlock => content'[link[ft][i]] = content[link[ft][i]]
      BY <1>0, <2>1, <2>2
    <3>3. QED
      BY <1>w, <3>1, <3>2, KeptFileTag
  <2>4. ASSUME NEW i \in Pages \ {th[w].page} PROVE expect'[f][i] = Shown(f, i)'
    <3>1. expect[f][i] = Shown(f, i)
      BY <1>d, <1>w
    <3>2. link[f][i] # NoBlock => content'[link[f][i]] = content[link[f][i]]
      BY <1>0, <2>1, <2>2
    <3>3. QED
      BY <1>w, <3>1, <3>2 DEF Shown
  <2>5. QED
    BY <2>3, <2>4
<1>7. CASE WriteOpen(w)
  <2>1. /\ th[w].at = "open" /\ UNCHANGED <<dirs, meta, link, bitmap, expect>>
        /\ content' = [content EXCEPT ![t] = Torn]
    BY <1>7 DEF WriteOpen, At
  <2> PICK p \in Pages : p = th[w].page
    BY <1>a, <2>1 DEF Targeted
  <2>2. /\ th'[w].op = "WRITE" /\ th'[w].at = "data" /\ th'[w].ft = f /\ th'[w].page = p
        /\ th'[w].md = md /\ th'[w].target = t
    BY <1>0, <1>7, <1>b DEF WriteOpen, Goto, Thread
  <2>3. /\ \A ft \in FileTags \ {f} : Agrees(ft)' /\ Shows(ft)'
        /\ \A i \in Pages \ {p} : expect'[f][i] = Shown(f, i)'
    BY <1>w, <2>1
  <2>4. /\ f \in dirs' /\ meta'[f] # NoMeta /\ meta'[f].tam = md.tam
        /\ link'[f][p] = t /\ meta'[f].blocks[p] = t
        /\ \A i \in Pages \ {p} : meta'[f].blocks[i] = md.blocks[i] /\ link'[f][i] = LinkOf(md, i)
    BY <1>d, <2>1
  <2>5. t \in bitmap' /\ \A ft \in FileTags, i \in Pages : link'[ft][i] = t => ft = f /\ i = p
    BY <1>t, <2>1 DEF Targeted
  <2>6. Midway(th[w])'
    BY <2>2, <2>3, <2>4, <2>5, WriteGoesOn
  <2>7. LinksUsed'
    BY <1>b, <2>1 DEF LinksUsed
  <2>8. Changing(th[w], f)'
    BY <2>2 DEF Changing
  <2>9. QED
    BY <2>2, <2>3, <2>6, <2>7, <2>8, StillChanging DEF Goes
<1>8. CASE WriteData(w)
  <2>1. /\ th[w].at = "data" /\ UNCHANGED <<dirs, meta, link, bitmap>> /\ Finish(w)
        /\ content' = [content EXCEPT ![t] = th[w].data]
        /\ expect' = [expect EXCEPT ![f][th[w].page] = th[w].data]
    BY <1>8 DEF WriteData, At
  <2> PICK p \in Pages : p = th[w].page
    BY <1>a, <2>1 DEF Targeted
  <2> PICK c : c = th[w].data
    OBVIOUS
  <2>2. /\ \A ft \in FileTags \ {f} : expect'[ft] = expect[ft]
        /\ \A i \in Pages \ {p} : expect'[f][i] = expect[f][i]
        /\ expect'[f][p] = c
    BY <1>0, <2>1
  <2>3. /\ \A ft \in FileTags \ {f} : Agrees(ft)' /\ Shows(ft)'
        /\ \A i \in Pages \ {p} : expect'[f][i] = Shown(f, i)'
    BY <1>w, <2>1, <2>2
  <2>4. t \in Blocks /\ link[f][p] = t /\ meta[f].blocks[p] = t
    BY <1>d, <1>t, <2>1 DEF Targeted
  <2>5. expect'[f][p] = Shown(f, p)'
    BY <1>0, <1>c, <2>1, <2>2, <2>4 DEF Shown
  <2>6. Shows(f)'
    BY <2>3, <2>5 DEF Shows, Shown
  <2>7. Agrees(f)'
    <3>1. f \in dirs /\ meta[f] # NoMeta
      BY <1>d, <2>1
    <3>2. \A i \in Pages : link[f][i] = LinkOf(meta[f], i)
      BY <1>a, <1>d, <2>1, <2>4 DEF Targeted, LinkOf
    <3>3. QED
      BY <2>1, <3>1, <3>2 DEF Agrees, LinkOf
  <2>8. \A ft \in FileTags : Agrees(ft)' /\ Shows(ft)'
    BY <2>3, <2>6, <2>7
  <2>9. LinksUsed'
    BY <1>b, <2>1 DEF LinksUsed
  <2>10. QED
    BY <2>1, <2>8, <2>9, Finished DEF Goes
<1>9. QED
  BY <1>1, <1>2, <1>3, <1>4, <1>5, <1>6, <1>7, <1>8 DEF Write

-----------------------------------------------------------------------------
(* DELETE, and the rebuilding of the bitmap *)

LEMMA DeleteSerial ==
  ASSUME IInv, NEW w \in Workers, Serial(th[w]), Delete(w) PROVE Goes(w)
<1> PICK f \in FileTags : f = th[w].ft
  BY MayStep
<1>0. /\ th \in [Workers -> Thread] /\ th[w] \in Thread
      /\ link \in [FileTags -> [Pages -> Blocks \union {NoBlock}]]
      /\ meta \in [FileTags -> Metadata \union {NoMeta}]
      /\ expect \in [FileTags -> [Pages -> Contents \union {NoData}]]
  BY MayStep DEF IInv, ThreadsOK, LinkOK, FilesOK, HistoryOK
<1>b. th[w].op = "DELETE" /\ LinksUsed
  BY DEF Delete, DeleteCheck, DeleteUnlink, DeleteRelease, DeleteDirectory, At, Serial
\* While the links go, only f is changing.
<1>e. ASSUME th[w].at \in {"unlink", "release"}, th'[w].at \in {"unlink", "release"},
             th'[w].op = "DELETE", th'[w].ft = f,
             UNCHANGED <<dirs, meta, content, expect>>,
             \A ft \in FileTags \ {f} : link'[ft] = link[ft], LinksUsed'
      PROVE  Goes(w)
  <2>1. Changing(th[w], f) /\ Changing(th[w], f)'
    BY <1>b, <1>e DEF Changing
  <2>2. \A ft \in FileTags \ {f} : Agrees(ft)' /\ Shows(ft)'
    BY <1>e, <2>1, OthersKeep
  <2>3. Midway(th[w])'
    BY <1>e DEF Midway
  <2>4. QED
    BY <1>e, <2>1, <2>2, <2>3, StillChanging DEF Goes
<1>1. CASE DeleteCheck(w)
  <2>1. CASE Refuse(w)
    BY <1>1, <2>1, Refused DEF DeleteCheck, At, Goes
  <2>2. CASE /\ th' = [th EXCEPT ![w].md = meta[f], ![w].at = "unlink"]
             /\ UNCHANGED <<fsVars, bitmap, indexVars, lock, history, expect>>
    <3>1. th'[w].op = "DELETE" /\ th'[w].at = "unlink"
      BY <1>0, <1>b, <2>2 DEF Thread
    <3>2. \A ft \in FileTags : ~Changing(th[w], ft)
      BY <1>1 DEF DeleteCheck, At, Changing
    <3>3. Midway(th[w])'
      BY <3>1 DEF Midway
    <3>4. SameFiles
      BY <2>2 DEF SameFiles
    <3>5. Serial(th[w])'
      BY <1>b, <3>2, <3>3, <3>4, OnlyMoves
    <3>6. QED
      BY <3>1, <3>5 DEF Goes
  <2>3. QED
    BY <1>1, <2>1, <2>2 DEF DeleteCheck
<1>2. CASE DeleteUnlink(w)
  <2>1. /\ th[w].at = "unlink" /\ UNCHANGED <<dirs, meta, content, bitmap, expect>>
        /\ link' = [link EXCEPT ![f][th[w].page] = NoBlock]
    BY <1>2 DEF DeleteUnlink, At
  <2>2. th'[w].op = "DELETE" /\ th'[w].at = "release" /\ th'[w].ft = f
    BY <1>0, <1>2, <1>b DEF DeleteUnlink, Thread
  <2>3. \A ft \in FileTags, i \in Pages : link'[ft][i] # NoBlock => link'[ft][i] = link[ft][i]
    BY <1>0, <2>1
  <2>4. LinksUsed'
    BY <1>b, <2>1, <2>3 DEF LinksUsed
  <2>5. \A ft \in FileTags \ {f} : link'[ft] = link[ft]
    BY <1>0, <2>1
  <2>6. QED
    BY <1>e, <2>1, <2>2, <2>4, <2>5
<1>3. CASE DeleteRelease(w)
  <2>1. th[w].at = "release" /\ UNCHANGED <<dirs, meta, link, content, expect>>
    BY <1>3 DEF DeleteRelease, At, fsVars
  <2>2. th'[w].op = "DELETE" /\ th'[w].at = "unlink" /\ th'[w].ft = f
    BY <1>0, <1>3, <1>b DEF DeleteRelease, Goto, Thread
  <2>3. LinksUsed'
    BY <1>3, <1>b, <2>1, ReleaseKeepsLinks DEF DeleteRelease
  <2>4. QED
    BY <1>e, <2>1, <2>2, <2>3
<1>4. CASE DeleteDirectory(w)
  <2>1. /\ th[w].at = "unlink" /\ UNCHANGED <<content, bitmap>>
        /\ dirs' = dirs \ {f} /\ meta' = [meta EXCEPT ![f] = NoMeta]
        /\ link' = [link EXCEPT ![f] = NoLinks]
        /\ expect' = [expect EXCEPT ![f] = [i \in Pages |-> NoData]]
    BY <1>4 DEF DeleteDirectory, At
  <2>2. th'[w].op = "DELETE" /\ th'[w].at = "rebuild"
    BY <1>0, <1>4, <1>b DEF DeleteDirectory, Goto, Thread
  <2>3. Changing(th[w], f)
    BY <1>b, <2>1 DEF Changing
  <2>4. \A ft \in FileTags \ {f} : Agrees(ft)' /\ Shows(ft)'
    BY <1>0, <2>1, <2>3, OthersKeep
  <2>5. Agrees(f)'
    BY <1>0, <2>1 DEF Agrees, NoLinks
  <2>6. Shows(f)'
    BY <1>0, <2>1 DEF Shows, Shown, NoLinks
  <2>7. LinksUsed'
    BY <1>0, <1>b, <2>1 DEF LinksUsed, NoLinks
  <2>8. Midway(th[w])'
    BY <2>2 DEF Midway
  <2>9. QED
    BY <2>2, <2>4, <2>5, <2>6, <2>7, <2>8 DEF Serial, Goes
<1>5. QED
  BY <1>1, <1>2, <1>3, <1>4 DEF Delete

\* Whatever the bitmap was, it has the linked blocks now.
LEMMA RebuildSerial ==
  ASSUME IInv, NEW w \in Workers, Serial(th[w]), Rebuild(w) PROVE Goes(w)
<1>1. /\ th[w].at = "rebuild" /\ UNCHANGED <<dirs, meta, link, content, expect>>
      /\ bitmap' = {b \in Blocks : Linked(b)} /\ Finish(w)
  BY DEF Rebuild, fsVars
<1>2. \A ft \in FileTags : Agrees(ft) /\ Shows(ft)
  BY <1>1 DEF Serial, Changing
<1>3. \A ft \in FileTags : Agrees(ft)' /\ Shows(ft)'
  BY <1>1, <1>2, KeptFileTag
<1>4. LinksUsed'
  BY <1>1 DEF LinksUsed, Linked, IInv, LinkOK
<1>5. QED
  BY <1>1, <1>3, <1>4, Finished DEF Goes

-----------------------------------------------------------------------------
(* The steps together *)

LEMMA InitSerial == ASSUME Init PROVE SerialInv
<1> USE DEF create_bitmap, create_hash_index, create_physical_blocks, create_initial_file
<1>1. IInv
  BY InitOK
<1>2. \A w \in Workers : th[w].at = "rest"
  BY DEF Init, Rest
<1> PICK base : base = [tam |-> 1, blocks |-> [NoLinks EXCEPT ![0] = 0], estado |-> "COMMITED"]
  OBVIOUS
<1>3. /\ meta = [ft \in FileTags |-> IF ft = BASE THEN base ELSE NoMeta]
      /\ base.tam = 1 /\ base.blocks = [NoLinks EXCEPT ![0] = 0]
      /\ link = [ft \in FileTags |-> IF ft = BASE THEN base.blocks ELSE NoLinks]
  BY DEF Init
<1>4. base # NoMeta
  BY <1>1, <1>3, BaseAssumption DEF IInv, BlockZeroIntact
<1>5. \A i \in Pages : base.blocks[i] = IF i = 0 THEN 0 ELSE NoBlock
  BY <1>3 DEF NoLinks
<1>6. ASSUME NEW ft \in FileTags PROVE Agrees(ft) /\ Shows(ft)
  <2>1. meta[ft] # NoMeta <=> ft = BASE
    BY <1>3, <1>4
  <2>2. ft \in dirs <=> ft = BASE
    BY DEF Init
  <2>3. \A i \in Pages : LinkOf(base, i) = IF i = 0 THEN 0 ELSE NoBlock
    BY <1>3, <1>5 DEF LinkOf, Pages
  <2>4. \A i \in Pages : link[ft][i] = IF ft = BASE /\ i = 0 THEN 0 ELSE NoBlock
    BY <1>3, <1>5 DEF NoLinks
  <2>5. Agrees(ft)
    BY <1>3, <2>1, <2>2, <2>3, <2>4 DEF Agrees
  <2>6. \A i \in Pages : expect[ft][i] = IF ft = BASE /\ i = 0 THEN Initial ELSE NoData
    BY DEF Init
  <2>7. content[0] = Initial /\ 0 # NoBlock
    BY <1>1, ZeroIsThere, DistinctAssumption DEF IInv, BlockZeroIntact
  <2>8. Shows(ft)
    BY <2>4, <2>6, <2>7 DEF Shows, Shown
  <2>9. QED
    BY <2>5, <2>8
<1>7. LinksUsed
  BY <1>3, <1>5 DEF Init, LinksUsed, NoLinks
<1>8. Midway(Rest)
  BY DEF Rest, Midway
<1>9. Serial(Rest)
  BY <1>6, <1>7, <1>8 DEF Serial
<1>10. QED
  BY <1>2, <1>9 DEF SerialInv

\* A request's own steps move only its thread, and disturb nothing.
Works(w) ==
  Create(w) \/ Truncate(w) \/ Tag(w) \/ Commit(w) \/ Write(w) \/ Delete(w) \/ Rebuild(w)

LEMMA WorksAlone ==
  ASSUME IInv, NEW w \in Workers, Works(w)
  PROVE  /\ th[w].at # "rest" /\ disturbed' = disturbed
         /\ \A v \in Workers \ {w} : th'[v] = th[v]
<1> USE DEF At, Goto, Refuse, Finish, history
<1>0. th \in [Workers -> Thread]
  BY DEF IInv, ThreadsOK
<1>1. CASE Create(w)
  BY <1>0, <1>1 DEF Create, CreateCheck, CreateDirectory
<1>2. CASE Truncate(w)
  BY <1>0, <1>2 DEF Truncate, TruncateCheck, TruncateGrow, TruncateShrink, TruncateRelease,
                    TruncateMetadata
<1>3. CASE Tag(w)
  BY <1>0, <1>3 DEF Tag, TagCheck, TagSkip, TagCopyMetadata, TagLink, TagFails, TagMetadata
<1>4. CASE Commit(w)
  BY <1>0, <1>4 DEF Commit, CommitCheck, CommitHash, CommitLookup, CommitRelease, CommitMetadata
<1>5. CASE Write(w)
  BY <1>0, <1>5 DEF Write, WriteCheck, WriteReserve, WriteCopy, WriteUnlink, WriteLink,
                    WriteMetadata, WriteOpen, WriteData
<1>6. CASE Delete(w)
  BY <1>0, <1>6 DEF Delete, DeleteCheck, DeleteUnlink, DeleteRelease, DeleteDirectory
<1>7. CASE Rebuild(w)
  BY <1>0, <1>7 DEF Rebuild
<1>8. QED
  BY <1>1, <1>2, <1>3, <1>4, <1>5, <1>6, <1>7 DEF Works

LEMMA WorksSerial ==
  ASSUME IInv, SerialInv, NEW w \in Workers, Works(w) PROVE SerialInv'
<1>1. SUFFICES ASSUME ~disturbed' PROVE SerialInv'
  BY DEF SerialInv
<1>2. ~disturbed /\ th[w].at # "rest" /\ \A v \in Workers \ {w} : th'[v] = th[v]
  BY <1>1, WorksAlone
<1>3. Alone(w) /\ Serial(th[w])
  BY <1>2 DEF SerialInv
<1>4. Goes(w)
  BY <1>3, CreateSerial, TruncateSerial, TagSerial, CommitSerial, WriteSerial, DeleteSerial,
     RebuildSerial DEF Works
<1>5. \A v \in Workers \ {w} : th'[v].at = "rest"
  BY <1>2, <1>3 DEF Alone
<1>6. Rest.at = "rest"
  BY DEF Rest
<1>7. CASE th'[w].at # "rest" /\ Serial(th[w])'
  BY <1>5, <1>7 DEF SerialInv, Alone
<1>8. CASE th'[w] = Rest /\ Serial(Rest)'
  BY <1>5, <1>6, <1>8 DEF SerialInv
<1>9. QED
  BY <1>4, <1>7, <1>8 DEF Goes

\* A request begins: what held between requests holds at its check.
LEMMA ReceiveSerial ==
  ASSUME IInv, SerialInv, NEW w \in Workers, Receive(w) PROVE SerialInv'
<1>1. PICK r : Start(w, r) /\ r.at = "check"
  <2>1. PICK ft \in FileTags :
          \/ \E op \in {"CREATE", "COMMIT", "DELETE"} : Start(w, Request(op, ft))
          \/ \E size \in 0 .. MaxPages : Start(w, [Request("TRUNCATE", ft) EXCEPT !.size = size])
          \/ \E dst \in FileTags : Start(w, [Request("TAG", ft) EXCEPT !.dst = dst])
          \/ \E i \in Pages, d \in Data :
               Start(w, [Request("WRITE", ft) EXCEPT !.page = i, !.data = d])
    BY DEF Receive
  <2>2. \A op : Request(op, ft).at = "check"
    BY DEF Request, Rest
  <2>3. \A size : [Request("TRUNCATE", ft) EXCEPT !.size = size].at = "check"
    BY DEF Request, Rest
  <2>4. \A dst : [Request("TAG", ft) EXCEPT !.dst = dst].at = "check"
    BY DEF Request, Rest
  <2>5. \A i, d : [Request("WRITE", ft) EXCEPT !.page = i, !.data = d].at = "check"
    BY DEF Request, Rest
  <2>6. CASE \E op \in {"CREATE", "COMMIT", "DELETE"} : Start(w, Request(op, ft))
    BY <2>2, <2>6
  <2>7. CASE \E size \in 0 .. MaxPages : Start(w, [Request("TRUNCATE", ft) EXCEPT !.size = size])
    BY <2>3, <2>7
  <2>8. CASE \E dst \in FileTags : Start(w, [Request("TAG", ft) EXCEPT !.dst = dst])
    BY <2>4, <2>8
  <2>9. CASE \E i \in Pages, d \in Data :
               Start(w, [Request("WRITE", ft) EXCEPT !.page = i, !.data = d])
    BY <2>5, <2>9
  <2>10. QED
    BY <2>1, <2>6, <2>7, <2>8, <2>9
<1>2. SUFFICES ASSUME ~disturbed' PROVE SerialInv'
  BY DEF SerialInv
<1>3. /\ ~disturbed /\ \A v \in Workers : th[v].at = "rest"
      /\ th' = [th EXCEPT ![w] = r]
      /\ UNCHANGED <<dirs, meta, link, content, bitmap, expect>>
  BY <1>1, <1>2 DEF Start, fsVars
<1>4. Serial(Rest)
  BY <1>3 DEF SerialInv
<1>5. th'[w] = r /\ \A v \in Workers \ {w} : th'[v].at = "rest"
  BY <1>3 DEF IInv, ThreadsOK
<1>6. LinksUsed /\ \A ft \in FileTags : Agrees(ft) /\ Shows(ft)
  BY <1>4, RestIsSerial DEF Serial, Rest
<1>7. LinksUsed'
  BY <1>3, <1>6 DEF LinksUsed
<1>8. Midway(th[w])'
  BY <1>1, <1>5 DEF Midway
<1>9. Serial(th[w])'
  BY <1>3, <1>6, <1>7, <1>8, NotYetChanging
<1>10. QED
  BY <1>1, <1>5, <1>9 DEF SerialInv, Alone

LEMMA RestartSerial == ASSUME IInv, SerialInv, Restart PROVE SerialInv'
<1>1. SUFFICES ASSUME ~disturbed' PROVE SerialInv'
  BY DEF SerialInv
<1>2. /\ ~disturbed /\ \A v \in Workers : th[v].at = "rest"
      /\ th' = [v \in Workers |-> Rest]
      /\ UNCHANGED <<dirs, meta, link, content, bitmap, expect>>
  BY <1>1 DEF Restart, fsVars
<1>3. Serial(Rest)
  BY <1>2 DEF SerialInv
<1>4. LinksUsed /\ \A ft \in FileTags : Agrees(ft) /\ Shows(ft)
  BY <1>3, RestIsSerial DEF Serial, Rest
<1>5. LinksUsed'
  BY <1>2, <1>4 DEF LinksUsed
<1>6. \A ft \in FileTags : Agrees(ft)' /\ Shows(ft)'
  BY <1>2, <1>4, KeptFileTag
<1>7. Midway(Rest)'
  BY DEF Rest, Midway
<1>8. Serial(Rest)'
  BY <1>5, <1>6, <1>7 DEF Serial
<1>9. \A v \in Workers : th'[v].at = "rest"
  BY <1>2 DEF Rest
<1>10. QED
  BY <1>8, <1>9 DEF SerialInv

\* A step that is of no request, or a stuttering one.
LEMMA IdleSerial ==
  ASSUME SerialInv, UNCHANGED <<fsVars, bitmap, expect, th, disturbed>> PROVE SerialInv'
BY DEF SerialInv, Serial, Alone, Agrees, Shows, Shown, Changing, Midway, MidTruncate, MidCommit,
       MidTag, Reserved, BeforeUnlink, MidWrite, LinksUsed, LinkOf, fsVars

LEMMA StepSerial == ASSUME IInv, SerialInv, [Next]_vars PROVE SerialInv'
<1>1. CASE \E w \in Workers : Works(w)
  BY <1>1, WorksSerial
<1>2. CASE \E w \in Workers : Receive(w)
  BY <1>2, ReceiveSerial
<1>3. CASE \E w \in Workers : Flush(w)
  BY <1>3, IdleSerial DEF Flush, history
<1>4. CASE Restart
  BY <1>4, RestartSerial
<1>5. CASE UNCHANGED vars
  BY <1>5, IdleSerial DEF vars, history
<1>6. QED
  BY <1>1, <1>2, <1>3, <1>4, <1>5 DEF Next, Works

LEMMA SerialAlways == Spec => []SerialInv
<1>1. Init => SerialInv
  BY InitSerial
<1>2. IInv /\ SerialInv /\ [Next]_vars => SerialInv'
  BY StepSerial
<1>3. QED
  BY <1>1, <1>2, Inductive, PTL DEF Spec

LEMMA QuietIsSerial ==
  ASSUME SerialInv, Quiet PROVE LinksUsed /\ \A ft \in FileTags : Agrees(ft) /\ Shows(ft)
BY RestIsSerial DEF SerialInv, Quiet, Serial, Rest

\* While requests come one at a time, between two of them metadata.config and
\* the hard links of every File:Tag say the same, in every behaviour of Storage.
THEOREM SerialMetadataMatchesLinks == Spec => []MetadataMatchesLinks
<1>1. SerialInv => MetadataMatchesLinks
  BY QuietIsSerial DEF MetadataMatchesLinks, Agrees, LinkOf
<1>2. QED
  BY <1>1, SerialAlways, PTL

\* While requests come one at a time, no linked block is free for a WRITE.
THEOREM SerialLinkedBlocksAreUsed == Spec => []LinkedBlocksAreUsed
<1>1. SerialInv => LinkedBlocksAreUsed
  <2>1. ASSUME SerialInv, Quiet, NEW b \in Blocks, Linked(b) PROVE b \in bitmap
    BY <2>1, QuietIsSerial, DistinctAssumption DEF Linked, LinksUsed
  <2>2. QED
    BY <2>1 DEF LinkedBlocksAreUsed
<1>2. QED
  BY <1>1, SerialAlways, PTL

\* While requests come one at a time, a logical block reads what was last
\* written to it, or what its File:Tag was tagged or committed with.
THEOREM SerialContentsAsRequested == Spec => []ContentsAsRequested
<1>1. SerialInv => ContentsAsRequested
  BY QuietIsSerial DEF ContentsAsRequested, Shows, Shown
<1>2. QED
  BY <1>1, SerialAlways, PTL
=============================================================================
