------------------------------- MODULE FsBlocks -------------------------------
(***************************************************************************)
(* Blocks and files of the file server: fs/fs.c, driven by the requests of *)
(* fs/serv.c.                                                              *)
(*                                                                         *)
(* The block numbers of a file are 32-bit words: f_direct, f_indirect, and *)
(* the words of the indirect block.  file_block_walk returns a u64 pointer *)
(* to one of them, so that what is read or written through it is that word *)
(* and the one after it, which after the last word of f_direct is          *)
(* f_indirect.  words[f] holds them in this order.                         *)
(*                                                                         *)
(* The server is one environment and serves one request at a time; op is   *)
(* the request under way, one step for each allocation and for each turn   *)
(* of a loop.  Sizes are counted in blocks.  The copy on the disk is left  *)
(* out, and so are the contents of data blocks, except that a block that   *)
(* was one and becomes an indirect or directory block still holds them     *)
(* when its page is in memory: alloc_block clears no page.                 *)
(***************************************************************************)
EXTENDS Integers, FiniteSets

CONSTANTS
  NBLOCK,    \* super->s_nblocks
  Reserved,  \* boot block, super block, bitmap, and the block fs_test keeps
  NDIRECT,
  MaxSize,   \* bound: blocks of a file (NINDIRECT)
  FILE2BLK,  \* File structures in a block of a directory
  MaxDir,    \* bound: blocks of the root directory
  ROOT,      \* the root directory
  Name,      \* file names
  words0, size0, name0, free0,  \* the disk at the start
  Olds,      \* bound: what old pages hold, read as a File structure or as words
  NULL

Blk   == 0 .. NBLOCK - 1
Bno   == 0 .. MaxSize - 1
Entry == 0 .. MaxDir * FILE2BLK - 1    \* the File structures of the root directory
File  == Entry \union {ROOT}
Word  == 0 .. MaxSize + 1
Num   == 0 .. NBLOCK                   \* NBLOCK: any number that is no block of the disk

(* The word of the b-th block of a file; word NDIRECT is f_indirect. *)
WordOf(b) == IF b < NDIRECT THEN b ELSE b + 1

(***************************************************************************)
(* The disk fsformat has written: no block has two owners or is marked     *)
(* free, there is nothing beyond an indirect block or a directory block    *)
(* that does not exist.                                                    *)
(***************************************************************************)
ASSUME FsAssumption ==
  /\ NBLOCK \in Nat \ {0} /\ NDIRECT \in Nat /\ MaxSize \in Nat /\ NDIRECT < MaxSize
  /\ FILE2BLK \in Nat \ {0} /\ MaxDir \in Nat /\ MaxDir <= MaxSize
  /\ Reserved \subseteq Blk /\ 0 \in Reserved
  /\ ROOT \notin Entry /\ NULL \notin Name /\ NULL \notin File
  /\ words0 \in [File -> [Word -> Blk]]
  /\ size0 \in [File -> 0 .. MaxSize]
  /\ name0 \in [Entry -> Name \union {NULL}]
  /\ free0 \subseteq Blk \ Reserved
  /\ \A f \in File, x \in Word : words0[f][x] # 0 => words0[f][x] \notin free0 \union Reserved
  /\ \A f, g \in File, x, y \in Word :
       words0[f][x] # 0 /\ words0[f][x] = words0[g][y] => f = g /\ x = y
  /\ \A f \in File, x \in Word :
       x > NDIRECT /\ words0[f][NDIRECT] = 0 => words0[f][x] = 0
  /\ \A e \in Entry : e \div FILE2BLK >= size0[ROOT] =>
       name0[e] = NULL /\ size0[e] = 0 /\ \A x \in Word : words0[e][x] = 0
  /\ Olds \subseteq [words : [Word -> Num], size : 0 .. MaxSize, name : Name \union {NULL}]

VARIABLES
  free,    \* bitmap: the blocks marked free
  cached,  \* the blocks that have a page in memory
  words,   \* the block numbers of a file
  size,    \* f_size, in blocks
  name,    \* f_name
  op,      \* the request under way, and what it does then
  stale    \* history: a page in memory has become an indirect or directory block

fsVars == <<free, cached, words, size, name, stale>>
vars   == <<fsVars, op>>

Stage == {"idle", "walk", "slot", "again", "trunc", "panic_clear", "panic_read"}
Op    == [stage : Stage, file : File \union {NULL}, bno : 0 .. MaxSize, to : 0 .. MaxSize,
          name : Name \union {NULL}, then : {"reply", "grow", "create", "remove"}]
Idle  == [stage |-> "idle", file |-> NULL, bno |-> 0, to |-> 0, name |-> NULL,
          then |-> "reply"]

TypeOK ==
  /\ free \subseteq Blk
  /\ cached \subseteq Blk
  /\ words \in [File -> [Word -> Num]]
  /\ size \in [File -> 0 .. MaxSize]
  /\ name \in [Entry -> Name \union {NULL}]
  /\ op \in Op
  /\ stale \in BOOLEAN

(* fs_init and fs_test are over: they have read the first blocks. *)
Init ==
  /\ free = free0
  /\ cached = Reserved \union {words0[ROOT][x] : x \in Word}
  /\ words = words0
  /\ size = size0
  /\ name = name0
  /\ op = Idle
  /\ stale = FALSE

Stop(stage) == op' = [Idle EXCEPT !.stage = stage]
Reply == op' = Idle

-----------------------------------------------------------------------------
(* Blocks *)

(* alloc_block_num: the first free block, from block 3 on. *)
FirstFree(b) == b \in free /\ b >= 3 /\ \A c \in free : c >= 3 => b <= c

(***************************************************************************)
(* alloc_block.  A page that is still in memory is used as it is, whatever *)
(* it holds; a new page is zero, or cannot be had (E_NO_MEM).              *)
(***************************************************************************)
alloc_block(b) ==
  /\ FirstFree(b)
  /\ free' = free \ {b}
  /\ cached' = cached \union {b}

alloc_block_fails ==
  /\ \A b \in free : FirstFree(b) => b \notin cached
  /\ UNCHANGED <<free, cached>>

(* read_block: a free block, or one that is not on the disk, is a panic. *)
Unreadable == free \union {NBLOCK}

read_block(b, Then) ==
  IF b \in Unreadable THEN Stop("panic_read") /\ UNCHANGED cached
                      ELSE Then /\ cached' = cached \union {b}

-----------------------------------------------------------------------------
(* The words of a file *)

(* The u64 at word x. *)
IsZero(f, x) == words[f][x] = 0 /\ words[f][x + 1] = 0

(* Without an indirect block its words are gone. *)
Reachable(ws) == [x \in Word |-> IF x > NDIRECT /\ ws[NDIRECT] = 0 THEN 0 ELSE ws[x]]

(* Mutant: only the second half is written. *)
StoreNext(f, x, b) == [words EXCEPT ![f] = Reachable([@ EXCEPT ![x + 1] = 0])]

Store(f, x, b) == [words EXCEPT ![f] = Reachable([@ EXCEPT ![x] = b, ![x + 1] = 0])]

(* The words of a file when page o becomes its indirect block, block d. *)
Indirect(f, d, o) ==
  [x \in Word |-> IF x > NDIRECT THEN o.words[x] ELSE IF x = NDIRECT THEN d ELSE words[f][x]]

(***************************************************************************)
(* The File structures dir_lookup sees: those of the blocks before the     *)
(* first one that file_get_block has to allocate or cannot read.           *)
(***************************************************************************)
DirStop ==
  {b \in 0 .. size[ROOT] - 1 :
     \/ IsZero(ROOT, WordOf(b)) \/ words[ROOT][WordOf(b)] \in Unreadable
     \/ b >= NDIRECT /\ words[ROOT][NDIRECT] \in Unreadable}

Seen(e) == /\ e \div FILE2BLK < size[ROOT]
           /\ \A b \in DirStop : e \div FILE2BLK < b

(* serve_open has no other effect here than to let clients name a file by  *)
(* an id, which outlives the file's name: any File structure can be open.  *)
Opened == {e \in Entry : Seen(e)} \union {ROOT}

(* file_get_block goes through BlockWalk and MapBlock. *)
file_get_block(f, b) ==
  /\ op' = [Idle EXCEPT !.stage = "walk", !.file = f, !.bno = b]
  /\ UNCHANGED fsVars

(* serve_map and serve_dirty, for any block that a client may take to be   *)
(* part of the file.                                                       *)
ServeMap(f, b) ==
  /\ op.stage = "idle"
  /\ f \in Opened
  /\ f = ROOT => b < size[f]
  /\ file_get_block(f, b)

(***************************************************************************)
(* file_flush with alloc clear: it reads the indirect block, and diskaddr  *)
(* panics at a number that is no block.                                    *)
(***************************************************************************)
file_flush(fs, Then) ==
  LET inds == {words[f][NDIRECT] : f \in {g \in fs : size[g] > NDIRECT}} \ {0} IN
  IF \/ inds \intersect Unreadable # {}
     \/ \E f \in fs, b \in Bno : b < size[f] /\ words[f][WordOf(b)] = NBLOCK
    THEN Stop("panic_read") /\ UNCHANGED cached
    ELSE Then /\ cached' = cached \union inds

(* f_dir is set when the file has been looked up. *)
ServeClose(f) ==
  /\ op.stage = "idle"
  /\ f \in Opened
  /\ \E fs \in {{f}, {f, ROOT}} : file_flush(fs, Reply)
  /\ UNCHANGED <<free, words, size, name, stale>>

(* file_block_walk with alloc set. *)
BlockWalk ==
  /\ op.stage = "walk"
  /\ LET f == op.file
         i == words[f][NDIRECT]
         Found == op' = [op EXCEPT !.stage = "slot"]
     IN  \/ op.bno < NDIRECT /\ Found /\ UNCHANGED <<free, cached, words, stale>>
         \/ op.bno >= NDIRECT /\ i # 0 /\ read_block(i, Found) /\ UNCHANGED <<free, words, stale>>
         \/ /\ op.bno >= NDIRECT /\ i = 0
            /\ \E d \in Blk :
                 /\ alloc_block(d)
                 /\ \/ /\ d \notin cached
                       /\ words' = [words EXCEPT ![f][NDIRECT] = d]
                       /\ UNCHANGED stale
                    \/ /\ d \in cached
                       /\ \E o \in Olds : words' = [words EXCEPT ![f] = Indirect(f, d, o)]
                       /\ stale' = TRUE
            /\ Found
         \/ /\ op.bno >= NDIRECT /\ i = 0
            /\ alloc_block_fails
            /\ Reply
            /\ UNCHANGED <<words, stale>>
  /\ UNCHANGED <<size, name>>

(***************************************************************************)
(* The rest of the request, with the names of the directory: a lookup that *)
(* has run into a hole goes on, dir_alloc_file takes the first File        *)
(* structure of a block it has added.                                      *)
(***************************************************************************)
GotBlock(names) ==
  IF op.then \in {"create", "remove"}
    THEN op' = [op EXCEPT !.stage = "again"] /\ name' = names
    ELSE /\ Reply
         /\ name' = [e \in Entry |-> IF op.then = "grow" /\ e = op.bno * FILE2BLK
                                      THEN op.name ELSE names[e]]

(* Mutant: the test looks at 32 bits. *)
IsZeroWord(f, x) == words[f][x] = 0

NoBlock(f, x) == IsZero(f, x)

(* The File structures of the block under way. *)
Ents == {e \in Entry : e \div FILE2BLK = op.bno}

(* A directory block, the page of which still holds the structures o. *)
OldEntries(o, ws) ==
  /\ words' = [f \in File |-> IF f \in Ents THEN Reachable(o[f].words) ELSE ws[f]]
  /\ size' = [f \in File |-> IF f \in Ents THEN o[f].size ELSE size[f]]
  /\ GotBlock([e \in Entry |-> IF e \in Ents THEN o[e].name ELSE name[e]])
  /\ stale' = TRUE

(***************************************************************************)
(* file_map_block with alloc set, and the read_block of file_get_block.    *)
(* File structures of a block that does not exist are zero, like a page    *)
(* that is new.                                                            *)
(***************************************************************************)
MapBlock ==
  /\ op.stage = "slot"
  /\ LET f == op.file
         x == WordOf(op.bno)
     IN  \/ /\ ~ NoBlock(f, x)
            /\ IF words[f][x] \in Unreadable
                 THEN Stop("panic_read") /\ UNCHANGED <<cached, name>>
                 ELSE GotBlock(name) /\ cached' = cached \union {words[f][x]}
            /\ UNCHANGED <<free, words, size, stale>>
         \/ /\ NoBlock(f, x)
            /\ \E d \in Blk :
                 /\ alloc_block(d)
                 /\ IF f = ROOT /\ d \in cached
                      THEN \E o \in [Ents -> Olds] : OldEntries(o, Store(f, x, d))
                      ELSE /\ words' = Store(f, x, d)
                           /\ GotBlock(name)
                           /\ UNCHANGED <<size, stale>>
         \/ /\ NoBlock(f, x)
            /\ alloc_block_fails
            /\ Reply
            /\ UNCHANGED <<words, size, name, stale>>

(***************************************************************************)
(* Whoever has mapped the page of an indirect block while it was a block   *)
(* of data can still write it, and so can the other owner of a block that  *)
(* has two.                                                                *)
(***************************************************************************)
OldWriter(f, o) ==
  /\ stale /\ op.stage = "idle" /\ f \in Opened
  /\ words[f][NDIRECT] # 0
  /\ words' = [words EXCEPT ![f] = Indirect(f, words[f][NDIRECT], o)]
  /\ UNCHANGED <<free, cached, size, name, op, stale>>

-----------------------------------------------------------------------------
(* Names *)

(* The first File structure with a name. *)
Named(n) == {e \in Entry : Seen(e) /\ name[e] = n /\ \A d \in 0 .. e - 1 : name[d] # n}

(* A lookup that runs into the hole a failed dir_alloc_file has left tries *)
(* to allocate that block.                                                 *)
FillHole(n, then) ==
  \E b \in DirStop :
    /\ \A c \in DirStop : b <= c
    /\ op' = [Idle EXCEPT !.stage = "walk", !.file = ROOT, !.bno = b, !.name = n, !.then = then]
    /\ UNCHANGED fsVars

(* serve_open of a name that is not found. *)
ServeOpen(n) ==
  /\ op.stage = "idle"
  /\ Named(n) = {}
  /\ FillHole(NULL, "reply")

(* dir_alloc_file takes the first File structure without a name, or adds a *)
(* block to the directory.                                                 *)
file_create(n) ==
  \/ Named(n) # {} /\ Reply /\ UNCHANGED fsVars
  \/ Named(n) = {} /\ FillHole(n, "create")
  \/ /\ Named(n) = {} /\ DirStop = {}
     /\ \E e \in Named(NULL) : name' = [name EXCEPT ![e] = n]
     /\ Reply
     /\ UNCHANGED <<free, cached, words, size, stale>>
  \/ /\ Named(n) = {} /\ DirStop = {} /\ Named(NULL) = {}
     /\ size[ROOT] < MaxDir
     /\ size' = [size EXCEPT ![ROOT] = @ + 1]
     /\ op' = [Idle EXCEPT !.stage = "walk", !.file = ROOT, !.bno = size[ROOT],
                           !.name = n, !.then = "grow"]
     /\ UNCHANGED <<free, cached, words, name, stale>>
  \/ /\ Named(n) = {} /\ DirStop = {} /\ Named(NULL) = {}
     /\ size[ROOT] >= MaxDir
     /\ Reply /\ UNCHANGED fsVars

ServeCreate(n) == op.stage = "idle" /\ file_create(n)

-----------------------------------------------------------------------------
(* Sizes *)

(* The same number of blocks can be fewer bytes. *)
file_set_size(f, n) ==
  /\ \/ /\ n <= size[f] /\ size[f] > 0
        /\ op' = [Idle EXCEPT !.stage = "trunc", !.file = f, !.bno = n, !.to = n]
        /\ UNCHANGED <<size, cached>>
     \/ /\ n >= size[f]
        /\ size' = [size EXCEPT ![f] = n]
        /\ \E fs \in {{}, {ROOT}} : file_flush(fs, Reply)
  /\ UNCHANGED <<free, words, name, stale>>

ServeSetSize(f, n) == op.stage = "idle" /\ f \in Opened \ {ROOT} /\ file_set_size(f, n)

(* file_remove truncates first. *)
file_remove(n) ==
  \/ \E e \in Named(n) :
       /\ op' = [Idle EXCEPT !.stage = "trunc", !.file = e, !.then = "remove"]
       /\ UNCHANGED fsVars
  \/ Named(n) = {} /\ FillHole(n, "remove")
  \/ Named(n) = {} /\ DirStop = {} /\ Reply /\ UNCHANGED fsVars

ServeRemove(n) == op.stage = "idle" /\ file_remove(n)

(* A request goes on once the hole is filled. *)
GoesOn ==
  /\ op.stage = "again"
  /\ IF op.then = "create" THEN file_create(op.name) ELSE file_remove(op.name)

(* Mutant: every other block. *)
NextBnoTwo(b) == b + 2

NextBno(b) == b + 1

(* A turn of the loop of file_truncate: file_clear_block. *)
ClearBlock ==
  /\ op.stage = "trunc"
  /\ op.bno < size[op.file]
  /\ LET f == op.file
         x == WordOf(op.bno)
         Turn == op' = [op EXCEPT !.bno = NextBno(@)]
         Clear == IF IsZero(f, x) THEN Turn /\ UNCHANGED <<free, words>>
                  ELSE IF words[f][x] \in {0, NBLOCK}
                    THEN Stop("panic_clear") /\ UNCHANGED <<free, words>>
                  ELSE /\ free' = free \union {words[f][x]}
                       /\ words' = Store(f, x, 0)
                       /\ Turn
     IN  \/ op.bno < NDIRECT /\ Clear /\ UNCHANGED cached
         \/ /\ op.bno >= NDIRECT /\ words[f][NDIRECT] = 0
            /\ Turn
            /\ UNCHANGED <<free, cached, words>>
         \/ /\ op.bno >= NDIRECT /\ words[f][NDIRECT] # 0
            /\ IF words[f][NDIRECT] \in Unreadable
                 THEN Stop("panic_read") /\ UNCHANGED <<free, cached, words>>
                 ELSE Clear /\ cached' = cached \union {words[f][NDIRECT]}
  /\ UNCHANGED <<size, name, stale>>

(***************************************************************************)
(* The end of file_truncate, and of file_set_size or file_remove: flushing *)
(* a directory whose blocks are no blocks of the disk panics.              *)
(***************************************************************************)
TruncEnd ==
  /\ op.stage = "trunc"
  /\ op.bno >= size[op.file]
  /\ LET f == op.file
         i == words[f][NDIRECT]
     IN  IF op.to < NDIRECT /\ i = NBLOCK
           THEN Stop("panic_clear") /\ UNCHANGED <<free, cached, words, size, name>>
           ELSE /\ IF op.to < NDIRECT /\ i # 0
                     THEN /\ free' = free \union {i}
                          /\ words' = [words EXCEPT ![f] = Reachable([@ EXCEPT ![NDIRECT] = 0])]
                     ELSE UNCHANGED <<free, words>>
                /\ size' = [size EXCEPT ![f] = op.to]
                /\ name' = IF op.then = "remove" THEN [name EXCEPT ![f] = NULL] ELSE name
                /\ \E fs \in {{}, {ROOT}} : file_flush(fs, Reply)
  /\ UNCHANGED stale

-----------------------------------------------------------------------------
(* user_panic loops for ever. *)
Halted == op.stage \in {"panic_clear", "panic_read"} /\ UNCHANGED vars

Next ==
  \/ Halted
  \/ BlockWalk \/ MapBlock \/ ClearBlock \/ TruncEnd \/ GoesOn
  \/ \E f \in File, o \in Olds : OldWriter(f, o)
  \/ \E f \in File, b \in Bno : ServeMap(f, b)
  \/ \E f \in File : ServeClose(f)
  \/ \E f \in File, n \in 0 .. MaxSize : ServeSetSize(f, n)
  \/ \E n \in Name : ServeOpen(n) \/ ServeCreate(n) \/ ServeRemove(n)

Spec == Init /\ [][Next]_vars

-----------------------------------------------------------------------------
(* Properties *)

(***************************************************************************)
(* No block has two owners, whichever allocation fails and although u64    *)
(* accesses clear a neighbour; no block of a file is marked free or is one *)
(* of the reserved blocks.                                                 *)
(***************************************************************************)
Exclusive ==
  /\ \A f \in File, x \in Word : words[f][x] # 0 => words[f][x] \notin free \union Reserved
  /\ \A f, g \in File, x, y \in Word :
       words[f][x] # 0 /\ words[f][x] = words[g][y] => f = g /\ x = y

(***************************************************************************)
(* Exclusive holds as long as alloc_block has never given out a block that *)
(* had a page in memory as an indirect or directory block: map_block does  *)
(* not clear it, and from then on old data is followed as block numbers.   *)
(***************************************************************************)
ExclusiveUnlessStale == stale \/ Exclusive

(***************************************************************************)
(* Only a truncation loses blocks: whatever else happens, failures in the  *)
(* middle of a request included, a block that a file gives up is free, as  *)
(* long as no old data is followed as block numbers.                       *)
(***************************************************************************)
Owned(b) == \E f \in File, x \in Word : words[f][x] = b

LostOnlyByTruncate ==
  [][\A b \in Blk \ {0} :
       Owned(b) /\ ~ Owned(b)' => b \in free' \/ op.stage = "trunc" \/ stale']_vars

(***************************************************************************)
(* file_clear_block: "Remove a block from file f.  If it's not there, just *)
(* silently succeed".                                                      *)
(***************************************************************************)
ClearsSilently == op.stage # "panic_clear"
=============================================================================
