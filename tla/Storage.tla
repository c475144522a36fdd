------------------------------ MODULE Storage -------------------------------
(***************************************************************************)
(* Storage (storage/src/): the file system of File:Tags whose logical      *)
(* blocks are hard links to physical blocks, its bitmap and its hash       *)
(* index, and the requests that one thread per Worker serves, split at     *)
(* every access to the file system another thread can come between.        *)
(*                                                                         *)
(* READ and FLUSH's sync change nothing here.  A request's answer is not   *)
(* kept; metadata.config is written and read in one step; a File has one   *)
(* Tag, so file and File:Tag share a name; sizes are whole blocks.         *)
(***************************************************************************)
EXTENDS Integers, FiniteSets

CONSTANTS
  Workers,         \* the Workers connected, a thread each
  FileTags,
  BASE,            \* initial_file/BASE, created by fs_format
  MaxPages,        \* logical blocks a File:Tag may have
  NumBlocks,       \* physical blocks: FS_SIZE / BLOCK_SIZE
  Data,            \* what a WRITE may write
  Initial,         \* block 0: BLOCK_SIZE characters '0'
  Blank,           \* a physical block as create_physical_blocks left it
  Torn,            \* a block between fopen("wb") and the write: empty
  MaxOps,          \* bound: requests in a behaviour
  NoWorker, NoBlock, NoMeta, NoData

Pages == 0 .. MaxPages - 1
Blocks == 0 .. NumBlocks - 1
MetadataConfig == MaxPages
Entries == Pages \union {MetadataConfig}   \* what a File:Tag's directory holds
Contents == Data \union {Initial, Blank, Torn}

Metadata == [tam : 0 .. MaxPages, blocks : [Pages -> Blocks \union {NoBlock}],
             estado : {"WORK_IN_PROGRESS", "COMMITED"}]

ASSUME SizesAssumption == MaxPages \in Nat \ {0} /\ NumBlocks \in Nat \ {0} /\ MaxOps \in Nat
ASSUME BaseAssumption == BASE \in FileTags
ASSUME DistinctAssumption ==
  /\ NoWorker \notin Workers
  /\ NoBlock \notin Blocks
  /\ NoData \notin Contents
  /\ NoMeta \notin Metadata

VARIABLES
  files,       \* directories files/<file>: never removed
  dirs,        \* directories files/<file>/<tag>
  meta,        \* metadata.config of every File:Tag
  link,        \* hard link of every logical block
  content,     \* physical_blocks/
  bitmap,      \* blocks whose bit is 1, in memory and in bitmap.bin
  index,       \* hash_to_block: the hash of a content -> block
  saved,       \* blocks_hash_index.config, as last synchronised
  lock,        \* file_tag_locks
  th,          \* the request each thread serves and where it is
  ops,
  disturbed,   \* history: two requests overlapped, or Storage stopped in one
  expect       \* history: the content each logical block should have

fsVars == <<files, dirs, meta, link, content>>
indexVars == <<index, saved>>
history == <<ops, disturbed>>
vars == <<fsVars, bitmap, indexVars, lock, th, history, expect>>

NoLinks == [i \in Pages |-> NoBlock]
Empty == [tam |-> 0, blocks |-> NoLinks, estado |-> "WORK_IN_PROGRESS"]
Rest == [op |-> "none", at |-> "rest", ft |-> BASE, dst |-> BASE, page |-> 0,
         size |-> 0, data |-> Initial, md |-> Empty, target |-> 0, todo |-> {}]

create_bitmap == bitmap = {0}
create_physical_blocks == content = [b \in Blocks |-> IF b = 0 THEN Initial ELSE Blank]
\* Empty, then entered the hash of block 0.
create_hash_index ==
  /\ index = [c \in Contents |-> IF c = Initial THEN 0 ELSE NoBlock]
  /\ saved = index
create_initial_file ==
  /\ files = {BASE} /\ dirs = {BASE}
  /\ meta = [ft \in FileTags |->
               IF ft = BASE
               THEN [tam |-> 1, blocks |-> [NoLinks EXCEPT ![0] = 0], estado |-> "COMMITED"]
               ELSE NoMeta]
  /\ link = [ft \in FileTags |->
               IF ft = BASE THEN [NoLinks EXCEPT ![0] = 0] ELSE NoLinks]

\* fs_format, then storage_context_init.
Init ==
  /\ create_bitmap /\ create_hash_index /\ create_physical_blocks /\ create_initial_file
  /\ lock = [ft \in FileTags |-> NoWorker]
  /\ th = [w \in Workers |-> Rest]
  /\ ops = 0 /\ disturbed = FALSE
  /\ expect = [ft \in FileTags |->
                 [i \in Pages |-> IF ft = BASE /\ i = 0 THEN Initial ELSE NoData]]

----------------------------------------------------------------------------
(* Blocks *)

\* st_nlink > 1
Linked(b) == \E ft \in FileTags : \E i \in Pages : link[ft][i] = b
FreeBlocks == Blocks \ bitmap
FirstFree == {b \in FreeBlocks : \A c \in FreeBlocks : b <= c}

At(w, op, at) == th[w].op = op /\ th[w].at = at
Goto(w, at) == th' = [th EXCEPT ![w].at = at]
Unlock(w) == lock' = [ft \in FileTags |-> IF lock[ft] = w THEN NoWorker ELSE lock[ft]]

\* The request ends here, by an early return or at its end.
Finish(w) == th' = [th EXCEPT ![w] = Rest] /\ Unlock(w)
Refuse(w) == Finish(w) /\ UNCHANGED <<fsVars, bitmap, indexVars, history, expect>>

Locking == {"TRUNCATE", "TAG", "COMMIT", "DELETE"}

\* md with tam blocks, block b at page i.
Entered(md, tam, i, b) == [md EXCEPT !.tam = tam, !.blocks[i] = b]

\* A request r arrives; TRUNCATE, TAG, COMMIT and DELETE start by taking the
\* lock of their File:Tag (TAG, of its origin), which CREATE and WRITE do not.
Start(w, r) ==
  /\ th[w].at = "rest" /\ ops < MaxOps
  /\ th' = [th EXCEPT ![w] = r]
  /\ IF r.op \in Locking
     THEN lock[r.ft] = NoWorker /\ lock' = [lock EXCEPT ![r.ft] = w]
     ELSE lock' = lock
  /\ ops' = ops + 1
  /\ disturbed' = (disturbed \/ \E v \in Workers \ {w} : th[v].at # "rest")
  /\ UNCHANGED <<fsVars, bitmap, indexVars, expect>>

Request(op, ft) == [Rest EXCEPT !.op = op, !.at = "check", !.ft = ft]

Receive(w) ==
  \E ft \in FileTags :
    \/ \E op \in {"CREATE", "COMMIT", "DELETE"} : Start(w, Request(op, ft))
    \/ \E size \in 0 .. MaxPages : Start(w, [Request("TRUNCATE", ft) EXCEPT !.size = size])
    \/ \E dst \in FileTags : Start(w, [Request("TAG", ft) EXCEPT !.dst = dst])
    \/ \E i \in Pages, d \in Data :
         Start(w, [Request("WRITE", ft) EXCEPT !.page = i, !.data = d])

\* read_metadata finds the File:Tag and it is not COMMITED.
Writable(ft) == meta[ft] # NoMeta /\ meta[ft].estado # "COMMITED"

\* stat and liberar_bloque: a block left with no logical link is free.
Released(b) == IF Linked(b) THEN bitmap ELSE bitmap \ {b}

----------------------------------------------------------------------------
(* CREATE *)

CreateCheck(w) ==
  /\ At(w, "CREATE", "check")
  /\ \/ th[w].ft \in files /\ Refuse(w)
     \/ /\ th[w].ft \notin files
        /\ Goto(w, "directory")
        /\ UNCHANGED <<fsVars, bitmap, indexVars, lock, history, expect>>

\* create_tag_directory; metadata.config is overwritten if it appeared since.
CreateDirectory(w) ==
  /\ At(w, "CREATE", "directory")
  /\ files' = files \union {th[w].ft}
  /\ dirs' = dirs \union {th[w].ft}
  /\ meta' = [meta EXCEPT ![th[w].ft] = Empty]
  /\ Finish(w)
  /\ UNCHANGED <<link, content, bitmap, indexVars, history, expect>>

----------------------------------------------------------------------------
(* TRUNCATE: md is the metadata being changed in memory *)

TruncateCheck(w) ==
  LET ft == th[w].ft IN
  /\ At(w, "TRUNCATE", "check")
  /\ \/ ~(ft \in dirs /\ Writable(ft)) /\ Refuse(w)
     \/ /\ ft \in dirs /\ Writable(ft)
        /\ th' = [th EXCEPT ![w].md = meta[ft], ![w].at = "resize"]
        /\ UNCHANGED <<fsVars, bitmap, indexVars, lock, history, expect>>

\* Variant: one block too many.
TruncateGrowOneMore(w) ==
  LET ft == th[w].ft  n == th[w].md.tam IN
  /\ At(w, "TRUNCATE", "resize") /\ n <= th[w].size
  /\ link' = [link EXCEPT ![ft][n] = 0]
  /\ th' = [th EXCEPT ![w].md = Entered(@, n + 1, n, 0)]
  /\ UNCHANGED <<files, dirs, meta, content, bitmap, indexVars, lock, history, expect>>

\* A new logical block is a link to block 0.
TruncateGrow(w) ==
  LET ft == th[w].ft  n == th[w].md.tam IN
  /\ At(w, "TRUNCATE", "resize") /\ n < th[w].size
  /\ link' = [link EXCEPT ![ft][n] = 0]
  /\ th' = [th EXCEPT ![w].md = Entered(@, n + 1, n, 0)]
  /\ UNCHANGED <<files, dirs, meta, content, bitmap, indexVars, lock, history, expect>>

TruncateShrink(w) ==
  LET ft == th[w].ft  n == th[w].md.tam - 1 IN
  /\ At(w, "TRUNCATE", "resize") /\ n >= th[w].size
  /\ link' = [link EXCEPT ![ft][n] = NoBlock]
  /\ th' = [th EXCEPT ![w].md = Entered(@, n, n, NoBlock),
                      ![w].target = th[w].md.blocks[n], ![w].at = "release"]
  /\ UNCHANGED <<files, dirs, meta, content, bitmap, indexVars, lock, history, expect>>

TruncateRelease(w) ==
  /\ At(w, "TRUNCATE", "release")
  /\ bitmap' = Released(th[w].target)
  /\ Goto(w, "resize")
  /\ UNCHANGED <<fsVars, indexVars, lock, history, expect>>

\* write_metadata, whose failure is not looked at.
TruncateMetadata(w) ==
  LET ft == th[w].ft  old == expect[ft] IN
  /\ At(w, "TRUNCATE", "resize") /\ th[w].md.tam = th[w].size
  /\ meta' = IF ft \in dirs THEN [meta EXCEPT ![ft] = th[w].md] ELSE meta
  /\ expect' = [expect EXCEPT ![ft] = [i \in Pages |->
                  IF i >= th[w].size THEN NoData
                  ELSE IF old[i] = NoData THEN Initial ELSE old[i]]]
  /\ Goto(w, "rebuild")
  /\ UNCHANGED <<files, dirs, link, content, bitmap, indexVars, lock, history>>

----------------------------------------------------------------------------
(* TAG: ft is the origin, dst the destination, which is not locked *)

TagCheck(w) ==
  LET ft == th[w].ft  dst == th[w].dst IN
  /\ At(w, "TAG", "check")
  /\ \/ (ft \notin dirs \/ dst \in dirs) /\ Refuse(w)
     \/ /\ ft \in dirs /\ dst \notin dirs
        /\ files' = files \union {dst}
        /\ dirs' = dirs \union {dst}
        /\ th' = [th EXCEPT ![w].todo = Entries, ![w].at = "copy"]
        /\ UNCHANGED <<meta, link, content, bitmap, indexVars, lock, history, expect>>

\* copy_directory_recursive, entry by entry in readdir's order: logical
\* blocks are hard-linked, metadata.config is copied, what is not there when
\* its turn comes is skipped.
TagSkip(w) ==
  /\ At(w, "TAG", "copy")
  /\ \E e \in th[w].todo :
       /\ IF e = MetadataConfig THEN meta[th[w].ft] = NoMeta ELSE link[th[w].ft][e] = NoBlock
       /\ th' = [th EXCEPT ![w].todo = @ \ {e}]
  /\ UNCHANGED <<fsVars, bitmap, indexVars, lock, history, expect>>

TagCopyMetadata(w) ==
  LET ft == th[w].ft  dst == th[w].dst IN
  /\ At(w, "TAG", "copy") /\ MetadataConfig \in th[w].todo
  /\ meta[ft] # NoMeta /\ dst \in dirs
  /\ meta' = [meta EXCEPT ![dst] = meta[ft]]
  /\ th' = [th EXCEPT ![w].todo = @ \ {MetadataConfig}]
  /\ UNCHANGED <<files, dirs, link, content, bitmap, indexVars, lock, history, expect>>

TagLink(w) ==
  LET ft == th[w].ft  dst == th[w].dst IN
  /\ At(w, "TAG", "copy")
  /\ \E i \in th[w].todo \ {MetadataConfig} :
       /\ link[ft][i] # NoBlock /\ dst \in dirs /\ link[dst][i] = NoBlock
       /\ link' = [link EXCEPT ![dst][i] = link[ft][i]]
       /\ th' = [th EXCEPT ![w].todo = @ \ {i}]
  /\ UNCHANGED <<files, dirs, meta, content, bitmap, indexVars, lock, history, expect>>

\* The destination was deleted meanwhile, or a WRITE put a link there first.
TagFails(w) ==
  LET ft == th[w].ft  dst == th[w].dst IN
  /\ At(w, "TAG", "copy")
  /\ \/ th[w].todo # {} /\ dst \notin dirs
     \/ \E i \in th[w].todo \ {MetadataConfig} :
          link[ft][i] # NoBlock /\ link[dst][i] # NoBlock
  /\ Refuse(w)

\* The copy is WORK_IN_PROGRESS whatever the origin was.
TagMetadata(w) ==
  LET ft == th[w].ft  dst == th[w].dst IN
  /\ At(w, "TAG", "copy") /\ th[w].todo = {}
  /\ meta' = IF meta[dst] # NoMeta
             THEN [meta EXCEPT ![dst].estado = "WORK_IN_PROGRESS"] ELSE meta
  /\ expect' = [expect EXCEPT ![dst] = expect[ft]]
  /\ Goto(w, "rebuild")
  /\ UNCHANGED <<files, dirs, link, content, bitmap, indexVars, lock, history>>

----------------------------------------------------------------------------
(* The hash index, in memory and in its file *)

hash_index_find_block(c) == index[c]
hash_index_add_entry(c, b) == index' = [index EXCEPT ![c] = b]
hash_index_sync_to_disk == saved' = index
hash_index_init == index' = saved

----------------------------------------------------------------------------
(* COMMIT: block by block, the content is hashed, then looked up *)

\* Variant: the early return of a COMMITED File:Tag keeps the lock.
CommitCheckKeepsLock(w) ==
  LET ft == th[w].ft IN
  /\ At(w, "COMMIT", "check")
  /\ \/ /\ ~Writable(ft)
        /\ th' = [th EXCEPT ![w] = Rest]
        /\ UNCHANGED <<fsVars, bitmap, indexVars, lock, history, expect>>
     \/ /\ Writable(ft)
        /\ th' = [th EXCEPT ![w].md = meta[ft], ![w].at = "hash"]
        /\ UNCHANGED <<fsVars, bitmap, indexVars, lock, history, expect>>

CommitCheck(w) ==
  LET ft == th[w].ft IN
  /\ At(w, "COMMIT", "check")
  /\ \/ ~Writable(ft) /\ Refuse(w)
     \/ /\ Writable(ft)
        /\ th' = [th EXCEPT ![w].md = meta[ft], ![w].at = "hash"]
        /\ UNCHANGED <<fsVars, bitmap, indexVars, lock, history, expect>>

\* Reading an empty file leaves block_data as malloc returned it.
CommitHash(w) ==
  LET b == th[w].md.blocks[th[w].page] IN
  /\ At(w, "COMMIT", "hash") /\ th[w].page < th[w].md.tam
  /\ \E c \in Contents :
       /\ content[b] \in {c, Torn}
       /\ th' = [th EXCEPT ![w].data = c, ![w].at = "lookup"]
  /\ UNCHANGED <<fsVars, bitmap, indexVars, lock, history, expect>>

\* One critical section of the hash index: another block with this hash takes
\* over the logical block; an unknown hash is entered.
CommitLookup(w) ==
  LET ft == th[w].ft  i == th[w].page
      b == th[w].md.blocks[i]  found == hash_index_find_block(th[w].data) IN
  /\ At(w, "COMMIT", "lookup")
  /\ \/ /\ found \notin {NoBlock, b}
        /\ link' = [link EXCEPT ![ft][i] = found]
        /\ th' = [th EXCEPT ![w].page = i + 1, ![w].md = Entered(@, @.tam, i, found),
                            ![w].target = b, ![w].at = "release"]
        /\ index' = index
     \/ /\ found = NoBlock
        /\ hash_index_add_entry(th[w].data, b)
        /\ th' = [th EXCEPT ![w].page = i + 1, ![w].at = "hash"]
        /\ link' = link
     \/ /\ found = b
        /\ index' = index
        /\ th' = [th EXCEPT ![w].page = i + 1, ![w].at = "hash"]
        /\ link' = link
  /\ UNCHANGED <<files, dirs, meta, content, bitmap, saved, lock, history, expect>>

CommitRelease(w) ==
  /\ At(w, "COMMIT", "release")
  /\ bitmap' = Released(th[w].target)
  /\ Goto(w, "hash")
  /\ UNCHANGED <<fsVars, indexVars, lock, history, expect>>

\* What the deduplication made of the content is what it is from now on.
CommitMetadata(w) ==
  LET ft == th[w].ft IN
  /\ At(w, "COMMIT", "hash") /\ th[w].page >= th[w].md.tam
  /\ meta' = IF ft \in dirs
             THEN [meta EXCEPT ![ft] = [th[w].md EXCEPT !.estado = "COMMITED"]] ELSE meta
  /\ hash_index_sync_to_disk
  /\ expect' = [expect EXCEPT ![ft] = [i \in Pages |->
                  IF link[ft][i] = NoBlock THEN NoData ELSE content[link[ft][i]]]]
  /\ Goto(w, "rebuild")
  /\ UNCHANGED <<files, dirs, link, content, bitmap, index, lock, history>>

----------------------------------------------------------------------------
(* WRITE, which takes no lock; target is the physical block it will write *)

WriteCheck(w) ==
  LET ft == th[w].ft IN
  /\ At(w, "WRITE", "check")
  /\ \/ ~(Writable(ft) /\ th[w].page < meta[ft].tam) /\ Refuse(w)
     \/ /\ Writable(ft) /\ th[w].page < meta[ft].tam
        /\ th' = [th EXCEPT ![w].md = meta[ft], ![w].at = "stat"]
        /\ UNCHANGED <<fsVars, bitmap, indexVars, lock, history, expect>>

\* Variant: only block 0 is copied before it is written.
WriteReserveOnlyForZero(w) ==
  LET b == th[w].md.blocks[th[w].page] IN
  /\ At(w, "WRITE", "stat")
  /\ \/ /\ b # 0
        /\ th' = [th EXCEPT ![w].target = b, ![w].at = "open"]
        /\ UNCHANGED <<bitmap, lock>>
     \/ /\ b = 0
        /\ \E free \in FirstFree :
             /\ bitmap' = bitmap \union {free}
             /\ th' = [th EXCEPT ![w].target = free, ![w].at = "copy"]
        /\ lock' = lock
     \/ b = 0 /\ FreeBlocks = {} /\ Finish(w) /\ bitmap' = bitmap
  /\ UNCHANGED <<fsVars, indexVars, history, expect>>

\* Copy-on-Write when st_nlink > 1 or the block is block 0: a free block is
\* reserved, or there is none.
WriteReserve(w) ==
  LET b == th[w].md.blocks[th[w].page]  shared == Linked(b) \/ b = 0 IN
  /\ At(w, "WRITE", "stat")
  /\ \/ /\ ~shared
        /\ th' = [th EXCEPT ![w].target = b, ![w].at = "open"]
        /\ UNCHANGED <<bitmap, lock>>
     \/ /\ shared
        /\ \E free \in FirstFree :
             /\ bitmap' = bitmap \union {free}
             /\ th' = [th EXCEPT ![w].target = free, ![w].at = "copy"]
        /\ lock' = lock
     \/ shared /\ FreeBlocks = {} /\ Finish(w) /\ bitmap' = bitmap
  /\ UNCHANGED <<fsVars, indexVars, history, expect>>

WriteCopy(w) ==
  /\ At(w, "WRITE", "copy")
  /\ content' = [content EXCEPT ![th[w].target] = content[th[w].md.blocks[th[w].page]]]
  /\ Goto(w, "unlink")
  /\ UNCHANGED <<files, dirs, meta, link, bitmap, indexVars, lock, history, expect>>

WriteUnlink(w) ==
  /\ At(w, "WRITE", "unlink")
  /\ link' = [link EXCEPT ![th[w].ft][th[w].page] = NoBlock]
  /\ Goto(w, "link")
  /\ UNCHANGED <<files, dirs, meta, content, bitmap, indexVars, lock, history, expect>>

\* link() fails when the File:Tag was deleted meanwhile.
WriteLink(w) ==
  LET ft == th[w].ft IN
  /\ At(w, "WRITE", "link")
  /\ \/ /\ ft \in dirs
        /\ link' = [link EXCEPT ![ft][th[w].page] = th[w].target]
        /\ Goto(w, "metadata")
        /\ UNCHANGED <<bitmap, lock>>
     \/ /\ ft \notin dirs
        /\ bitmap' = bitmap \ {th[w].target}
        /\ Finish(w)
        /\ link' = link
  /\ UNCHANGED <<files, dirs, meta, content, indexVars, history, expect>>

\* Variant: the new block is not entered in the metadata.
WriteMetadataAsRead(w) ==
  LET ft == th[w].ft IN
  /\ At(w, "WRITE", "metadata")
  /\ \/ /\ ft \in dirs
        /\ meta' = [meta EXCEPT ![ft] = th[w].md]
        /\ Goto(w, "open")
        /\ lock' = lock
     \/ ft \notin dirs /\ Finish(w) /\ meta' = meta
  /\ UNCHANGED <<files, dirs, link, content, bitmap, indexVars, history, expect>>

\* The metadata written is the one read at the start, but for this block.
WriteMetadata(w) ==
  LET ft == th[w].ft IN
  /\ At(w, "WRITE", "metadata")
  /\ \/ /\ ft \in dirs
        /\ meta' = [meta EXCEPT ![ft] =
                      Entered(th[w].md, th[w].md.tam, th[w].page, th[w].target)]
        /\ Goto(w, "open")
        /\ lock' = lock
     \/ ft \notin dirs /\ Finish(w) /\ meta' = meta
  /\ UNCHANGED <<files, dirs, link, content, bitmap, indexVars, history, expect>>

WriteOpen(w) ==
  /\ At(w, "WRITE", "open")
  /\ content' = [content EXCEPT ![th[w].target] = Torn]
  /\ Goto(w, "data")
  /\ UNCHANGED <<files, dirs, meta, link, bitmap, indexVars, lock, history, expect>>

WriteData(w) ==
  /\ At(w, "WRITE", "data")
  /\ content' = [content EXCEPT ![th[w].target] = th[w].data]
  /\ expect' = [expect EXCEPT ![th[w].ft][th[w].page] = th[w].data]
  /\ Finish(w)
  /\ UNCHANGED <<files, dirs, meta, link, bitmap, indexVars, history>>

----------------------------------------------------------------------------
(* DELETE *)

\* Variant: initial_file/BASE is like any other.
DeleteCheckUnprotected(w) ==
  LET ft == th[w].ft IN
  /\ At(w, "DELETE", "check")
  /\ \/ (ft \notin dirs \/ meta[ft] = NoMeta) /\ Refuse(w)
     \/ /\ ft \in dirs /\ meta[ft] # NoMeta
        /\ th' = [th EXCEPT ![w].md = meta[ft], ![w].at = "unlink"]
        /\ UNCHANGED <<fsVars, bitmap, indexVars, lock, history, expect>>

DeleteCheck(w) ==
  LET ft == th[w].ft  refused == ft = BASE \/ ft \notin dirs \/ meta[ft] = NoMeta IN
  /\ At(w, "DELETE", "check")
  /\ \/ refused /\ Refuse(w)
     \/ /\ ~refused
        /\ th' = [th EXCEPT ![w].md = meta[ft], ![w].at = "unlink"]
        /\ UNCHANGED <<fsVars, bitmap, indexVars, lock, history, expect>>

DeleteUnlink(w) ==
  LET i == th[w].page IN
  /\ At(w, "DELETE", "unlink") /\ i < th[w].md.tam
  /\ link' = [link EXCEPT ![th[w].ft][i] = NoBlock]
  /\ th' = [th EXCEPT ![w].page = i + 1, ![w].target = th[w].md.blocks[i],
                      ![w].at = "release"]
  /\ UNCHANGED <<files, dirs, meta, content, bitmap, indexVars, lock, history, expect>>

DeleteRelease(w) ==
  /\ At(w, "DELETE", "release")
  /\ bitmap' = Released(th[w].target)
  /\ Goto(w, "unlink")
  /\ UNCHANGED <<fsVars, indexVars, lock, history, expect>>

\* rm -rf of the Tag's directory; the File's stays.
DeleteDirectory(w) ==
  LET ft == th[w].ft IN
  /\ At(w, "DELETE", "unlink") /\ th[w].page >= th[w].md.tam
  /\ dirs' = dirs \ {ft}
  /\ meta' = [meta EXCEPT ![ft] = NoMeta]
  /\ link' = [link EXCEPT ![ft] = NoLinks]
  /\ expect' = [expect EXCEPT ![ft] = [i \in Pages |-> NoData]]
  /\ Goto(w, "rebuild")
  /\ UNCHANGED <<files, content, bitmap, indexVars, lock, history>>

----------------------------------------------------------------------------

\* Variant: a block counts from two logical blocks on.
RebuildOffByOne(w) ==
  /\ th[w].at = "rebuild"
  /\ bitmap' = {b \in Blocks : \E k, j \in FileTags \X Pages :
                  k # j /\ link[k[1]][k[2]] = b /\ link[j[1]][j[2]] = b}
  /\ Finish(w)
  /\ UNCHANGED <<fsVars, indexVars, history, expect>>

\* bitmap_rebuild_from_physical_blocks, the last step of TRUNCATE, TAG,
\* COMMIT and DELETE.
Rebuild(w) ==
  /\ th[w].at = "rebuild"
  /\ bitmap' = {b \in Blocks : Linked(b)}
  /\ Finish(w)
  /\ UNCHANGED <<fsVars, indexVars, history, expect>>

\* FLUSH
Flush(w) ==
  /\ th[w].at = "rest"
  /\ hash_index_sync_to_disk
  /\ UNCHANGED <<fsVars, bitmap, index, lock, th, history, expect>>

\* The process stops and starts again with FRESH_START=FALSE: every request is
\* lost where it was, the bitmap and the index are those on disk.
Restart ==
  /\ ops < MaxOps
  /\ ops' = ops + 1
  /\ th' = [w \in Workers |-> Rest]
  /\ lock' = [ft \in FileTags |-> NoWorker]
  /\ hash_index_init
  /\ disturbed' = (disturbed \/ \E w \in Workers : th[w].at # "rest")
  /\ UNCHANGED <<fsVars, bitmap, saved, expect>>

Create(w) == CreateCheck(w) \/ CreateDirectory(w)
Truncate(w) == TruncateCheck(w) \/ TruncateGrow(w) \/ TruncateShrink(w)
                 \/ TruncateRelease(w) \/ TruncateMetadata(w)
Tag(w) == TagCheck(w) \/ TagSkip(w) \/ TagCopyMetadata(w) \/ TagLink(w)
            \/ TagFails(w) \/ TagMetadata(w)
Commit(w) == CommitCheck(w) \/ CommitHash(w) \/ CommitLookup(w)
               \/ CommitRelease(w) \/ CommitMetadata(w)
Write(w) == WriteCheck(w) \/ WriteReserve(w) \/ WriteCopy(w) \/ WriteUnlink(w)
              \/ WriteLink(w) \/ WriteMetadata(w) \/ WriteOpen(w) \/ WriteData(w)
Delete(w) == DeleteCheck(w) \/ DeleteUnlink(w) \/ DeleteRelease(w) \/ DeleteDirectory(w)

Next ==
  \/ \E w \in Workers : \/ Receive(w) \/ Create(w) \/ Truncate(w) \/ Tag(w)
                        \/ Commit(w) \/ Write(w) \/ Delete(w) \/ Rebuild(w) \/ Flush(w)
  \/ Restart

Spec == Init /\ [][Next]_vars

----------------------------------------------------------------------------
Thread == [op : Locking \union {"none", "CREATE", "WRITE"},
           at : {"rest", "check", "directory", "resize", "release", "copy", "hash",
                 "lookup", "stat", "unlink", "link", "metadata", "open", "data", "rebuild"},
           ft : FileTags, dst : FileTags, page : 0 .. MaxPages, size : 0 .. MaxPages,
           data : Contents, md : Metadata, target : Blocks \union {NoBlock},
           todo : SUBSET Entries]

\* Every variable keeps its type; a metadata never has more blocks than its
\* File:Tag was given (operations/storage_operations.c, the loops over blocks).
TypeOK ==
  /\ files \in SUBSET FileTags
  /\ dirs \in SUBSET files
  /\ meta \in [FileTags -> Metadata \union {NoMeta}]
  /\ link \in [FileTags -> [Pages -> Blocks \union {NoBlock}]]
  /\ content \in [Blocks -> Contents]
  /\ bitmap \in SUBSET Blocks
  /\ index \in [Contents -> Blocks \union {NoBlock}]
  /\ saved \in [Contents -> Blocks \union {NoBlock}]
  /\ lock \in [FileTags -> Workers \union {NoWorker}]
  /\ th \in [Workers -> Thread]
  /\ ops \in 0 .. MaxOps
  /\ disturbed \in BOOLEAN
  /\ expect \in [FileTags -> [Pages -> Contents \union {NoData}]]

\* However requests interleave and wherever Storage stops, block 0 keeps the
\* initial content, is never given to a WRITE, and initial_file/BASE stays
\* COMMITED on it: every page never written and every new File:Tag shows it.
BlockZeroIntact ==
  /\ content[0] = Initial /\ 0 \in bitmap
  /\ BASE \in dirs /\ link[BASE][0] = 0
  /\ meta[BASE] # NoMeta /\ meta[BASE].estado = "COMMITED"

\* A File:Tag is locked only by a thread that is serving a request on it: no
\* early return keeps the mutex, which would block that File:Tag for good.
HeldWhileServed ==
  \A ft \in FileTags : lock[ft] # NoWorker =>
    th[lock[ft]].op \in Locking /\ th[lock[ft]].ft = ft

\* While requests come one at a time, between two of them metadata.config and
\* the hard links of a File:Tag say the same.
Quiet == ~disturbed /\ \A w \in Workers : th[w].at = "rest"
MetadataMatchesLinks ==
  Quiet => \A ft \in FileTags :
    /\ ft \in dirs <=> meta[ft] # NoMeta
    /\ \A i \in Pages : link[ft][i] =
         IF meta[ft] # NoMeta /\ i < meta[ft].tam THEN meta[ft].blocks[i] ELSE NoBlock

\* While requests come one at a time, a block some logical block links is
\* never free for a WRITE to take.
LinkedBlocksAreUsed == Quiet => \A b \in Blocks : Linked(b) => b \in bitmap

\* While requests come one at a time, a logical block reads what was last
\* written to it, or what its File:Tag was tagged or committed with: no
\* request on another File:Tag that shares its physical block changes it.
ContentsAsRequested ==
  Quiet => \A ft \in FileTags, i \in Pages :
    expect[ft][i] = IF link[ft][i] = NoBlock THEN NoData ELSE content[link[ft][i]]

\* Even while requests come one at a time: COMMIT gives a logical block to
\* another physical block only if that one has the same content
\* (storage_operations.c:398, "si existe un bloque con el mismo hash").
DeduplicatesEqualBlocks ==
  [][\A w \in Workers : At(w, "COMMIT", "lookup") /\ th'[w].at = "release" /\ ~disturbed =>
       LET ft == th[w].ft  i == th[w].page IN
       content[link'[ft][i]] = content[th[w].md.blocks[i]]]_vars
=============================================================================
