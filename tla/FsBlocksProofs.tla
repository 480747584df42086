---------------------------- MODULE FsBlocksProofs ----------------------------
(***************************************************************************)
(* Theorems about FsBlocks, for every number of blocks and files and every *)
(* disk that satisfies FsAssumption.                                       *)
(***************************************************************************)
EXTENDS FsBlocks, TLAPS

(* What is marked free is none of the reserved blocks. *)
FreeOK == free \subseteq Blk \ Reserved

(* Nothing is left of an indirect block that is gone. *)
TailOK ==
  \A f \in File, x \in Word : x > NDIRECT /\ words[f][NDIRECT] = 0 => words[f][x] = 0

(* The request under way denotes a file and one of its blocks. *)
OpOK ==
  /\ op.stage \in {"walk", "slot", "trunc"} => op.file \in File
  /\ op.stage \in {"walk", "slot"} => op.bno \in Bno

(* What holds always, and the part that old data can break *)
Types    == TypeOK /\ OpOK
BlocksOK == Exclusive /\ FreeOK /\ TailOK

Inv == Types /\ (stale \/ BlocksOK)

-----------------------------------------------------------------------------
(* Constants and words *)

(* The words file_block_walk reaches, and their neighbours. *)
LEMMA WordFacts ==
  ASSUME NEW b \in Bno
  PROVE  WordOf(b) \in Word /\ WordOf(b) + 1 \in Word /\ WordOf(b) # NDIRECT
BY FsAssumption DEF Bno, Word, WordOf

(* The word of f_indirect. *)
LEMMA IndirectWord == NDIRECT \in Word /\ 0 \in Blk /\ 0 \in Num /\ Blk = Num \ {NBLOCK}
BY FsAssumption DEF Word, Blk, Num

(* The request that is no request. *)
LEMMA IdleType == 0 \in 0 .. MaxSize /\ Idle \in Op
BY FsAssumption DEF Op, Idle, Stage

(* The words left after f_indirect may have been cleared. *)
LEMMA ReachableFacts ==
  ASSUME NEW ws \in [Word -> Num]
  PROVE  /\ Reachable(ws) \in [Word -> Num]
         /\ \A x \in Word : Reachable(ws)[x] = 0 \/ Reachable(ws)[x] = ws[x]
         /\ \A x \in Word : x > NDIRECT /\ Reachable(ws)[NDIRECT] = 0 => Reachable(ws)[x] = 0
<1>1. /\ Reachable(ws) = [x \in Word |-> IF x > NDIRECT /\ ws[NDIRECT] = 0 THEN 0 ELSE ws[x]]
      /\ 0 \in Num /\ NDIRECT \in Word /\ ~ (NDIRECT > NDIRECT)
  BY IndirectWord, FsAssumption DEF Reachable
<1> QED BY <1>1

(* Giving up words keeps Exclusive as long as the others are not freed. *)
LEMMA GiveUp ==
  ASSUME Exclusive,
         \A f \in File, x \in Word : words'[f][x] = 0 \/ words'[f][x] = words[f][x],
         \A f \in File, x \in Word : words'[f][x] # 0 => words'[f][x] \notin free'
  PROVE  Exclusive'
BY DEF Exclusive

(* Block d in word x of f; the other words are as they were, or cleared. *)
Written(f, x, d) ==
  \A g \in File, y \in Word :
    \/ words'[g][y] = 0
    \/ g = f /\ y = x /\ words'[g][y] = d
    \/ ~ (g = f /\ y = x) /\ words'[g][y] = words[g][y]

(* The effect of writing a u64 through the pointer of file_block_walk. *)
LEMMA StoreWritten ==
  ASSUME words \in [File -> [Word -> Num]],
         NEW f \in File, NEW x \in Word, x + 1 \in Word, NEW b \in Num,
         words' = Store(f, x, b)
  PROVE  words' \in [File -> [Word -> Num]] /\ Written(f, x, b) /\ (TailOK => TailOK')
<1> DEFINE ws == [words[f] EXCEPT ![x] = b, ![x + 1] = 0]
<1>0. x # x + 1 /\ x \in Int
  BY DEF Word
<1>1. ws \in [Word -> Num]
  BY IndirectWord
<1>2. words' = [words EXCEPT ![f] = Reachable(ws)]
  BY DEF Store
<1>3. \A y \in Word : ws[y] = IF y = x + 1 THEN 0 ELSE IF y = x THEN b ELSE words[f][y]
  BY <1>0
<1> HIDE DEF ws
<1>4. /\ Reachable(ws) \in [Word -> Num]
      /\ \A y \in Word : Reachable(ws)[y] = 0 \/ Reachable(ws)[y] = ws[y]
      /\ \A y \in Word : y > NDIRECT /\ Reachable(ws)[NDIRECT] = 0 => Reachable(ws)[y] = 0
  BY <1>1, ReachableFacts
<1>5. /\ words' \in [File -> [Word -> Num]] /\ words'[f] = Reachable(ws)
      /\ \A g \in File : g # f => words'[g] = words[g]
  BY <1>2, <1>4
<1>6. Written(f, x, b)
  <2> SUFFICES ASSUME NEW g \in File, NEW y \in Word
               PROVE  \/ words'[g][y] = 0
                      \/ g = f /\ y = x /\ words'[g][y] = b
                      \/ ~ (g = f /\ y = x) /\ words'[g][y] = words[g][y]
    BY DEF Written
  <2>1. CASE g # f
    BY <1>5, <2>1
  <2>2. CASE g = f
    BY <1>3, <1>4, <1>5, <2>2
  <2> QED BY <2>1, <2>2
<1>7. ASSUME TailOK PROVE TailOK'
  <2> SUFFICES ASSUME NEW g \in File, NEW y \in Word, y > NDIRECT, words'[g][NDIRECT] = 0
               PROVE  words'[g][y] = 0
    BY DEF TailOK
  <2>1. CASE g # f
    BY <1>5, <1>7, <2>1 DEF TailOK
  <2>2. CASE g = f
    BY <1>4, <1>5, <2>2
  <2> QED BY <2>1, <2>2
<1> QED BY <1>5, <1>6, <1>7

(* A free block taken by one word keeps Exclusive. *)
LEMMA Take ==
  ASSUME Exclusive, FreeOK, NEW d \in free, free' = free \ {d},
         NEW f \in File, NEW x \in Word, Written(f, x, d)
  PROVE  Exclusive'
<1>1. d \notin Reserved
  BY DEF FreeOK
<1>2. \A g \in File, y \in Word : words'[g][y] # 0 => words'[g][y] \notin free' \union Reserved
  BY <1>1 DEF Exclusive, Written
<1>3. ASSUME NEW g \in File, NEW h \in File, NEW y \in Word, NEW z \in Word,
             words'[g][y] # 0, words'[g][y] = words'[h][z]
      PROVE  g = h /\ y = z
  BY <1>3 DEF Exclusive, Written
<1> QED BY <1>2, <1>3 DEF Exclusive

-----------------------------------------------------------------------------
(* Types *)

(* What a request can leave op as *)
OpNext == op' \in Op /\ OpOK'

(* The end of a request. *)
LEMMA ReplyFacts ==
  ASSUME Reply
  PROVE  OpNext
<1>1. op' = Idle /\ op'.stage = "idle"
  BY DEF Reply, Idle
<1> QED BY <1>1, IdleType DEF OpOK, OpNext

(* A panic. *)
LEMMA StopFacts ==
  ASSUME NEW s \in {"panic_clear", "panic_read"}, Stop(s)
  PROVE  OpNext
<1>1. op' \in Op /\ op'.stage = s
  BY IdleType DEF Stop, Op, Idle, Stage
<1> QED BY <1>1 DEF OpOK, OpNext

(* The next stage of a request on the same block. *)
LEMMA FoundFacts ==
  ASSUME Types, op.stage = "walk", op' = [op EXCEPT !.stage = "slot"]
  PROVE  OpNext
<1>1. op' \in Op /\ op'.stage = "slot" /\ op'.file = op.file /\ op'.bno = op.bno
  BY DEF Types, TypeOK, Op, Stage
<1> QED BY <1>1 DEF Types, OpOK, OpNext

(* A request on block b of file f begins. *)
LEMMA WalkFacts ==
  ASSUME NEW f \in File, NEW b \in Bno, NEW n \in Name \union {NULL},
         NEW t \in {"reply", "grow", "create", "remove"},
         \/ op' = [Idle EXCEPT !.stage = "walk", !.file = f, !.bno = b]
         \/ op' = [Idle EXCEPT !.stage = "walk", !.file = f, !.bno = b, !.name = n, !.then = t]
  PROVE  OpNext
<1>0. b \in 0 .. MaxSize
  BY FsAssumption DEF Bno
<1>1. op' \in Op /\ op'.stage = "walk" /\ op'.file = f /\ op'.bno = b
  BY <1>0, IdleType DEF Op, Idle, Stage
<1> QED BY <1>1 DEF OpOK, OpNext

(* A truncation begins. *)
LEMMA TruncFacts ==
  ASSUME NEW f \in File, NEW b \in 0 .. MaxSize,
         \/ op' = [Idle EXCEPT !.stage = "trunc", !.file = f, !.bno = b, !.to = b]
         \/ op' = [Idle EXCEPT !.stage = "trunc", !.file = f, !.then = "remove"]
  PROVE  OpNext
<1>1. op' \in Op /\ op'.stage = "trunc" /\ op'.file = f
  BY IdleType DEF Op, Idle, Stage
<1> QED BY <1>1 DEF OpOK, OpNext

(* What is left of a step when op is dealt with *)
FsTypes ==
  /\ free' \subseteq Blk /\ cached' \subseteq Blk
  /\ words' \in [File -> [Word -> Num]]
  /\ size' \in [File -> 0 .. MaxSize]
  /\ name' \in [Entry -> Name \union {NULL}]
  /\ stale' \in BOOLEAN

LEMMA BothTypes ==
  ASSUME OpNext, FsTypes
  PROVE  Types'
BY DEF OpNext, FsTypes, Types, TypeOK

(* A request that begins, or ends, with the files as they are. *)
LEMMA SameTypes ==
  ASSUME Types, OpNext, UNCHANGED fsVars
  PROVE  Types'
BY DEF OpNext, Types, TypeOK, fsVars

(* What can be read is on the disk. *)
LEMMA ReadType ==
  ASSUME Types, NEW f \in File, NEW x \in Word, words[f][x] \notin Unreadable
  PROVE  words[f][x] \in Blk /\ words[f][x] \notin free
BY IndirectWord DEF Types, TypeOK, Unreadable

(* A flush changes nothing but what is in memory. *)
LEMMA FlushFacts ==
  ASSUME Types, NEW fs \in SUBSET File, file_flush(fs, Reply)
  PROVE  OpNext /\ cached' \subseteq Blk
<1> DEFINE inds == {words[f][NDIRECT] : f \in {g \in fs : size[g] > NDIRECT}} \ {0}
<1>1. CASE Stop("panic_read") /\ UNCHANGED cached
  BY <1>1, StopFacts DEF Types, TypeOK
<1>2. CASE inds \intersect Unreadable = {} /\ Reply /\ cached' = cached \union inds
  <2>1. inds \subseteq Blk
    <3> SUFFICES ASSUME NEW i \in inds PROVE i \in Blk
      OBVIOUS
    <3>1. PICK f \in fs : i = words[f][NDIRECT]
      OBVIOUS
    <3> QED BY <1>2, <3>1, IndirectWord, ReadType
  <2> QED BY <1>2, <2>1, ReplyFacts DEF Types, TypeOK
<1> QED BY <1>1, <1>2 DEF file_flush

(* serve_map, serve_dirty, serve_close and a client that writes old data. *)
LEMMA ServeMapType ==
  ASSUME Types, NEW f \in File, NEW b \in Bno, ServeMap(f, b)
  PROVE  Types'
<1> QED BY WalkFacts, SameTypes DEF ServeMap, file_get_block

LEMMA ServeCloseType ==
  ASSUME Types, NEW f \in File, ServeClose(f)
  PROVE  Types'
<1>1. PICK fs \in {{f}, {f, ROOT}} : file_flush(fs, Reply)
  BY DEF ServeClose
<1>2. fs \in SUBSET File
  BY DEF File
<1>3. OpNext /\ cached' \subseteq Blk
  BY <1>1, <1>2, FlushFacts
<1> QED BY <1>3, BothTypes DEF ServeClose, FsTypes, Types, TypeOK

LEMMA IndirectType ==
  ASSUME Types, NEW f \in File, NEW d \in Num, NEW o \in Olds
  PROVE  Indirect(f, d, o) \in [Word -> Num]
BY FsAssumption DEF Types, TypeOK, Indirect

LEMMA OldWriterType ==
  ASSUME Types, NEW f \in File, NEW o \in Olds, OldWriter(f, o)
  PROVE  Types'
<1>1. Indirect(f, words[f][NDIRECT], o) \in [Word -> Num]
  BY IndirectWord, IndirectType DEF Types, TypeOK
<1>2. words' \in [File -> [Word -> Num]]
  BY <1>1 DEF OldWriter, Types, TypeOK
<1> QED BY <1>2 DEF OldWriter, Types, TypeOK, OpOK

(* file_block_walk. *)
LEMMA BlockWalkType ==
  ASSUME Types, BlockWalk
  PROVE  Types'
<1> DEFINE f == op.file
           i == words[f][NDIRECT]
           Found == op' = [op EXCEPT !.stage = "slot"]
<1>0. op.stage = "walk" /\ f \in File /\ NDIRECT \in Word /\ UNCHANGED <<size, name>>
  BY IndirectWord DEF BlockWalk, Types, OpOK
<1>1. CASE Found /\ UNCHANGED <<free, cached, words, stale>>
  BY <1>0, <1>1, FoundFacts, SameTypes DEF fsVars
<1>2. CASE read_block(i, Found) /\ UNCHANGED <<free, words, stale>>
  <2>1. CASE Stop("panic_read") /\ UNCHANGED cached
    BY <1>0, <1>2, <2>1, StopFacts, SameTypes DEF fsVars
  <2>2. CASE i \notin Unreadable /\ Found /\ cached' = cached \union {i}
    <3>1. i \in Blk
      BY <1>0, <2>2, ReadType
    <3> QED BY <1>0, <1>2, <2>2, <3>1, FoundFacts, BothTypes DEF FsTypes, Types, TypeOK
  <2> QED BY <1>2, <2>1, <2>2 DEF read_block
<1>3. ASSUME NEW d \in Blk, alloc_block(d), Found,
             \/ /\ words' = [words EXCEPT ![f][NDIRECT] = d]
                /\ UNCHANGED stale
             \/ /\ \E o \in Olds : words' = [words EXCEPT ![f] = Indirect(f, d, o)]
                /\ stale' = TRUE
      PROVE  Types'
  <2>1. d \in Num /\ free' = free \ {d} /\ cached' = cached \union {d}
    BY <1>3, IndirectWord DEF alloc_block
  <2>2. words' \in [File -> [Word -> Num]]
    <3>1. CASE words' = [words EXCEPT ![f][NDIRECT] = d]
      BY <1>0, <2>1, <3>1 DEF Types, TypeOK
    <3>2. ASSUME NEW o \in Olds, words' = [words EXCEPT ![f] = Indirect(f, d, o)]
          PROVE  words' \in [File -> [Word -> Num]]
      <4>1. Indirect(f, d, o) \in [Word -> Num]
        BY <1>0, <2>1, IndirectType
      <4> QED BY <1>0, <3>2, <4>1 DEF Types, TypeOK
    <3> QED BY <1>3, <3>1, <3>2
  <2>3. stale' \in BOOLEAN
    BY <1>3 DEF Types, TypeOK
  <2> QED BY <1>0, <1>3, <2>1, <2>2, <2>3, FoundFacts, BothTypes DEF FsTypes, Types, TypeOK
<1>4. CASE alloc_block_fails /\ Reply /\ UNCHANGED <<words, stale>>
  BY <1>0, <1>4, ReplyFacts, SameTypes DEF alloc_block_fails, fsVars
<1> QED BY <1>1, <1>2, <1>3, <1>4 DEF BlockWalk

(* The request goes on with the names of the directory. *)
LEMMA GotBlockType ==
  ASSUME Types, NEW names \in [Entry -> Name \union {NULL}], GotBlock(names)
  PROVE  OpNext /\ name' \in [Entry -> Name \union {NULL}]
<1>1. CASE op' = [op EXCEPT !.stage = "again"] /\ name' = names
  <2>1. op' \in Op /\ op'.stage = "again"
    BY <1>1 DEF Types, TypeOK, Op, Stage
  <2> QED BY <1>1, <2>1 DEF OpNext, OpOK
<1>2. CASE /\ Reply
           /\ name' = [e \in Entry |-> IF op.then = "grow" /\ e = op.bno * FILE2BLK
                                      THEN op.name ELSE names[e]]
  <2>1. op.name \in Name \union {NULL}
    BY DEF Types, TypeOK, Op
  <2> QED BY <1>2, <2>1, ReplyFacts
<1> QED BY <1>1, <1>2 DEF GotBlock

(* file_map_block and read_block. *)
LEMMA MapBlockType ==
  ASSUME Types, MapBlock
  PROVE  Types'
<1> DEFINE f == op.file
           x == WordOf(op.bno)
<1>0. f \in File /\ x \in Word /\ x + 1 \in Word
  <2>1. op.stage = "slot" /\ f \in File /\ op.bno \in Bno
    BY DEF MapBlock, Types, OpOK
  <2> QED BY <2>1, WordFacts
<1>n. name \in [Entry -> Name \union {NULL}] /\ words \in [File -> [Word -> Num]]
  BY DEF Types, TypeOK
<1>1. CASE Stop("panic_read") /\ UNCHANGED <<cached, name, free, words, size, stale>>
  BY <1>1, StopFacts, SameTypes DEF fsVars
<1>2. CASE /\ words[f][x] \notin Unreadable
           /\ GotBlock(name) /\ cached' = cached \union {words[f][x]}
           /\ UNCHANGED <<free, words, size, stale>>
  <2>1. words[f][x] \in Blk
    BY <1>0, <1>2, ReadType
  <2>2. OpNext /\ name' \in [Entry -> Name \union {NULL}]
    BY <1>2, <1>n, GotBlockType
  <2> QED BY <1>2, <2>1, <2>2, BothTypes DEF FsTypes, Types, TypeOK
<1>3. ASSUME NEW d \in Blk, alloc_block(d)
      PROVE  /\ Store(f, x, d) \in [File -> [Word -> Num]]
             /\ free' \subseteq Blk /\ cached' \subseteq Blk
  <2>1. d \in Num
    BY IndirectWord
  <2>2. Store(f, x, d) \in [File -> [Word -> Num]]
    <3> HIDE DEF f, x
    <3>1. [words[f] EXCEPT ![x] = d, ![x + 1] = 0] \in [Word -> Num]
      BY <1>0, <1>n, <2>1, IndirectWord
    <3>2. Reachable([words[f] EXCEPT ![x] = d, ![x + 1] = 0]) \in [Word -> Num]
      BY <3>1, ReachableFacts
    <3> QED BY <1>0, <1>n, <3>2 DEF Store
  <2> QED BY <1>3, <2>2 DEF alloc_block, Types, TypeOK
<1>4. ASSUME NEW d \in Blk, alloc_block(d), words' = Store(f, x, d), GotBlock(name),
             UNCHANGED <<size, stale>>
      PROVE  Types'
  <2>1. OpNext /\ name' \in [Entry -> Name \union {NULL}]
    BY <1>4, <1>n, GotBlockType
  <2> QED BY <1>3, <1>4, <2>1, BothTypes DEF FsTypes, Types, TypeOK
<1>5. ASSUME NEW d \in Blk, alloc_block(d), NEW o \in [Ents -> Olds], OldEntries(o, Store(f, x, d))
      PROVE  Types'
  <2>1. \A e \in Ents : /\ Reachable(o[e].words) \in [Word -> Num]
                        /\ o[e].size \in 0 .. MaxSize /\ o[e].name \in Name \union {NULL}
    BY ReachableFacts, FsAssumption
  <2>2. words' \in [File -> [Word -> Num]] /\ size' \in [File -> 0 .. MaxSize] /\ stale'
    BY <1>3, <1>5, <2>1 DEF OldEntries, Types, TypeOK
  <2>3. OpNext /\ name' \in [Entry -> Name \union {NULL}]
    <3>1. [e \in Entry |-> IF e \in Ents THEN o[e].name ELSE name[e]]
             \in [Entry -> Name \union {NULL}]
      BY <1>n, <2>1
    <3> QED BY <1>5, <3>1, GotBlockType DEF OldEntries
  <2> QED BY <1>3, <1>5, <2>2, <2>3, BothTypes DEF FsTypes
<1>6. CASE alloc_block_fails /\ Reply /\ UNCHANGED <<words, size, name, stale>>
  BY <1>6, ReplyFacts, SameTypes DEF alloc_block_fails, fsVars
<1> QED BY <1>1, <1>2, <1>4, <1>5, <1>6 DEF MapBlock

(* A lookup that runs into a hole of the directory. *)
LEMMA FillHoleType ==
  ASSUME Types, NEW n \in Name \union {NULL},
         NEW t \in {"reply", "grow", "create", "remove"}, FillHole(n, t)
  PROVE  Types'
<1>1. PICK b \in DirStop :
        op' = [Idle EXCEPT !.stage = "walk", !.file = ROOT, !.bno = b, !.name = n, !.then = t]
  BY DEF FillHole
<1>2. b \in Bno /\ ROOT \in File
  BY FsAssumption DEF DirStop, Bno, Types, TypeOK, File
<1> QED BY <1>1, <1>2, WalkFacts, SameTypes DEF FillHole

(* serve_create. *)
LEMMA CreateType ==
  ASSUME Types, NEW n \in Name \union {NULL}, file_create(n)
  PROVE  Types'
<1>1. CASE Reply /\ UNCHANGED fsVars
  BY <1>1, ReplyFacts, SameTypes
<1>2. CASE FillHole(n, "create")
  BY <1>2, FillHoleType
<1>3. CASE /\ \E e \in Named(NULL) : name' = [name EXCEPT ![e] = n]
           /\ Reply
           /\ UNCHANGED <<free, cached, words, size, stale>>
  <2>1. name' \in [Entry -> Name \union {NULL}]
    BY <1>3 DEF Types, TypeOK
  <2> QED BY <1>3, <2>1, ReplyFacts, BothTypes DEF FsTypes, Types, TypeOK
<1>4. CASE /\ size[ROOT] < MaxDir
           /\ size' = [size EXCEPT ![ROOT] = @ + 1]
           /\ op' = [Idle EXCEPT !.stage = "walk", !.file = ROOT, !.bno = size[ROOT],
                                 !.name = n, !.then = "grow"]
           /\ UNCHANGED <<free, cached, words, name, stale>>
  <2>1. ROOT \in File /\ size[ROOT] \in 0 .. MaxSize /\ size[ROOT] + 1 \in 0 .. MaxSize
        /\ size[ROOT] \in Bno
    BY <1>4, FsAssumption DEF Types, TypeOK, File, Bno
  <2>2. OpNext
    BY <1>4, <2>1, WalkFacts
  <2>3. size' \in [File -> 0 .. MaxSize]
    BY <1>4, <2>1 DEF Types, TypeOK
  <2> QED BY <1>4, <2>2, <2>3, BothTypes DEF FsTypes, Types, TypeOK
<1> QED BY <1>1, <1>2, <1>3, <1>4 DEF file_create

(* serve_set_size. *)
LEMMA ServeSetSizeType ==
  ASSUME Types, NEW f \in File, NEW n \in 0 .. MaxSize, ServeSetSize(f, n)
  PROVE  Types'
<1>1. CASE /\ op' = [Idle EXCEPT !.stage = "trunc", !.file = f, !.bno = n, !.to = n]
           /\ UNCHANGED <<size, cached, free, words, name, stale>>
  <2> QED BY <1>1, TruncFacts, SameTypes DEF fsVars
<1>2. ASSUME NEW fs \in {{}, {ROOT}}, file_flush(fs, Reply), size' = [size EXCEPT ![f] = n],
             UNCHANGED <<free, words, name, stale>>
      PROVE  Types'
  <2>1. fs \in SUBSET File
    BY DEF File
  <2>2. OpNext /\ cached' \subseteq Blk
    BY <1>2, <2>1, FlushFacts
  <2>3. size' \in [File -> 0 .. MaxSize]
    BY <1>2 DEF Types, TypeOK
  <2> QED BY <1>2, <2>2, <2>3, BothTypes DEF FsTypes, Types, TypeOK
<1> QED BY <1>1, <1>2 DEF ServeSetSize, file_set_size

(* serve_remove. *)
LEMMA RemoveType ==
  ASSUME Types, NEW n \in Name \union {NULL}, file_remove(n)
  PROVE  Types'
<1>1. CASE FillHole(n, "remove")
  BY <1>1, FillHoleType
<1>2. CASE Reply /\ UNCHANGED fsVars
  BY <1>2, ReplyFacts, SameTypes
<1>3. ASSUME NEW e \in Named(n), UNCHANGED fsVars,
             op' = [Idle EXCEPT !.stage = "trunc", !.file = e, !.then = "remove"]
      PROVE  Types'
  <2>1. e \in File /\ 0 \in 0 .. MaxSize
    BY IdleType DEF Named, File
  <2> QED BY <1>3, <2>1, TruncFacts, SameTypes
<1> QED BY <1>1, <1>2, <1>3 DEF file_remove

(* A request that goes on after it has filled a hole. *)
LEMMA GoesOnType ==
  ASSUME Types, GoesOn
  PROVE  Types'
<1>1. op.name \in Name \union {NULL}
  BY DEF Types, TypeOK, Op
<1> QED BY <1>1, CreateType, RemoveType DEF GoesOn

(* file_clear_block. *)
LEMMA ClearBlockType ==
  ASSUME Types, ClearBlock
  PROVE  Types'
<1> DEFINE f == op.file
           x == WordOf(op.bno)
           Turn == op' = [op EXCEPT !.bno = NextBno(@)]
<1>0. /\ f \in File /\ UNCHANGED <<size, name, stale>>
      /\ op.bno \in Bno /\ op.bno + 1 \in 0 .. MaxSize /\ op.stage = "trunc"
  <2>1. op.stage = "trunc" /\ f \in File /\ UNCHANGED <<size, name, stale>>
        /\ op.bno \in 0 .. MaxSize /\ size[f] \in 0 .. MaxSize /\ op.bno < size[f]
    BY DEF ClearBlock, Types, OpOK, TypeOK, Op
  <2>2. op.bno \in Bno /\ op.bno + 1 \in 0 .. MaxSize
    BY <2>1, FsAssumption DEF Bno
  <2> QED BY <2>1, <2>2
<1>1. x \in Word /\ x + 1 \in Word /\ NDIRECT \in Word
  BY <1>0, WordFacts, IndirectWord
<1>2. cached' \subseteq Blk
  <2>1. \/ UNCHANGED cached
        \/ words[f][NDIRECT] \notin Unreadable /\ cached' = cached \union {words[f][NDIRECT]}
    BY DEF ClearBlock
  <2> QED BY <1>0, <1>1, <2>1, ReadType DEF Types, TypeOK
<1>3. ASSUME Turn PROVE OpNext
  <2>1. op' \in Op /\ op'.stage = "trunc" /\ op'.file = f
    BY <1>0, <1>3 DEF Types, TypeOK, Op, NextBno
  <2> QED BY <1>0, <2>1 DEF OpOK, OpNext
<1>4. ASSUME words[f][x] # NBLOCK, free' = free \union {words[f][x]}, words' = Store(f, x, 0), Turn
      PROVE  Types'
  <2>1. words \in [File -> [Word -> Num]]
    BY DEF Types, TypeOK
  <2>2. words' \in [File -> [Word -> Num]]
    <3> HIDE DEF f, x
    <3> QED BY <1>0, <1>1, <1>4, <2>1, IndirectWord, StoreWritten
  <2>3. words[f][x] \in Blk
    BY <1>0, <1>1, <1>4, IndirectWord DEF Types, TypeOK
  <2> QED BY <1>0, <1>2, <1>3, <1>4, <2>2, <2>3, BothTypes DEF FsTypes, Types, TypeOK
<1>5. ASSUME OpNext, UNCHANGED <<free, words>> PROVE Types'
  BY <1>0, <1>2, <1>5, BothTypes DEF FsTypes, Types, TypeOK
<1>6. \/ Turn /\ UNCHANGED <<free, words>>
      \/ Stop("panic_clear") /\ UNCHANGED <<free, words>>
      \/ Stop("panic_read") /\ UNCHANGED <<free, words>>
      \/ words[f][x] # NBLOCK /\ free' = free \union {words[f][x]} /\ words' = Store(f, x, 0) /\ Turn
  BY DEF ClearBlock
<1> QED BY <1>3, <1>4, <1>5, <1>6, StopFacts

(* The end of file_truncate. *)
LEMMA TruncEndType ==
  ASSUME Types, TruncEnd
  PROVE  Types'
<1> DEFINE f == op.file
           i == words[f][NDIRECT]
           ws == [words[f] EXCEPT ![NDIRECT] = 0]
<1>0. f \in File /\ op.to \in 0 .. MaxSize /\ NDIRECT \in Word /\ 0 \in Num /\ UNCHANGED stale
  BY IndirectWord DEF TruncEnd, Types, OpOK, TypeOK, Op
<1>1. CASE Stop("panic_clear") /\ UNCHANGED <<free, cached, words, size, name>>
  BY <1>0, <1>1, StopFacts, SameTypes DEF fsVars
<1>2. ASSUME \/ i \notin {0, NBLOCK} /\ free' = free \union {i} /\ words' = [words EXCEPT ![f] = Reachable(ws)]
             \/ UNCHANGED <<free, words>>,
             size' = [size EXCEPT ![f] = op.to],
             name' = IF op.then = "remove" THEN [name EXCEPT ![f] = NULL] ELSE name,
             NEW fs \in {{}, {ROOT}}, file_flush(fs, Reply)
      PROVE  Types'
  <2>1. OpNext /\ cached' \subseteq Blk
    <3>1. fs \in SUBSET File
      BY DEF File
    <3> QED BY <1>2, <3>1, FlushFacts
  <2>2. free' \subseteq Blk /\ words' \in [File -> [Word -> Num]]
    <3>1. ws \in [Word -> Num] /\ (i \notin {0, NBLOCK} => i \in Blk)
      BY <1>0, IndirectWord DEF Types, TypeOK
    <3> HIDE DEF ws
    <3>2. Reachable(ws) \in [Word -> Num]
      BY <3>1, ReachableFacts
    <3> QED BY <1>0, <1>2, <3>1, <3>2 DEF Types, TypeOK
  <2>3. size' \in [File -> 0 .. MaxSize] /\ name' \in [Entry -> Name \union {NULL}]
    BY <1>0, <1>2 DEF Types, TypeOK
  <2> QED BY <1>0, <2>1, <2>2, <2>3, BothTypes DEF FsTypes, Types, TypeOK
<1>3. \/ Stop("panic_clear") /\ UNCHANGED <<free, cached, words, size, name>>
      \/ /\ \/ i \notin {0, NBLOCK} /\ free' = free \union {i} /\ words' = [words EXCEPT ![f] = Reachable(ws)]
            \/ UNCHANGED <<free, words>>
         /\ size' = [size EXCEPT ![f] = op.to]
         /\ name' = IF op.then = "remove" THEN [name EXCEPT ![f] = NULL] ELSE name
         /\ \E fs \in {{}, {ROOT}} : file_flush(fs, Reply)
  BY DEF TruncEnd
<1> QED BY <1>1, <1>2, <1>3

(* Every step keeps the types. *)
LEMMA NextTypes ==
  ASSUME Types, [Next]_vars
  PROVE  Types'
<1>1. CASE UNCHANGED vars
  BY <1>1 DEF vars, fsVars, Types, TypeOK, OpOK
<1>2. CASE Halted
  BY <1>1, <1>2 DEF Halted
<1>3. CASE BlockWalk \/ MapBlock \/ ClearBlock \/ TruncEnd \/ GoesOn
  BY <1>3, BlockWalkType, MapBlockType, ClearBlockType, TruncEndType, GoesOnType
<1>4. ASSUME NEW f \in File, NEW o \in Olds, OldWriter(f, o) PROVE Types'
  BY <1>4, OldWriterType
<1>5. ASSUME NEW f \in File, NEW b \in Bno, ServeMap(f, b) PROVE Types'
  BY <1>5, ServeMapType
<1>6. ASSUME NEW f \in File, ServeClose(f) PROVE Types'
  BY <1>6, ServeCloseType
<1>7. ASSUME NEW f \in File, NEW n \in 0 .. MaxSize, ServeSetSize(f, n) PROVE Types'
  BY <1>7, ServeSetSizeType
<1>8. ASSUME NEW n \in Name, ServeOpen(n) \/ ServeCreate(n) \/ ServeRemove(n) PROVE Types'
  BY <1>8, FillHoleType, CreateType, RemoveType DEF ServeOpen, ServeCreate, ServeRemove
<1> QED BY <1>1, <1>2, <1>3, <1>4, <1>5, <1>6, <1>7, <1>8 DEF Next

-----------------------------------------------------------------------------
(* Blocks and their owners *)

(* A step that leaves words and bitmap alone. *)
LEMMA SameBlocks ==
  ASSUME BlocksOK, UNCHANGED <<free, words>>
  PROVE  BlocksOK'
BY DEF BlocksOK, Exclusive, FreeOK, TailOK

(* file_block_walk. *)
LEMMA BlockWalkBlocks ==
  ASSUME Types, BlocksOK, BlockWalk, ~ stale'
  PROVE  BlocksOK'
<1> DEFINE f == op.file
<1>0. f \in File /\ NDIRECT \in Word
  BY IndirectWord DEF BlockWalk, Types, OpOK
<1>1. CASE UNCHANGED <<free, words>>
  BY <1>1, SameBlocks
<1>2. ASSUME words[f][NDIRECT] = 0, NEW d \in Blk, alloc_block(d),
             words' = [words EXCEPT ![f][NDIRECT] = d]
      PROVE  BlocksOK'
  <2>1. d \in free /\ free' = free \ {d}
    BY <1>2 DEF alloc_block, FirstFree
  <2>2. \A g \in File, y \in Word :
           \/ g = f /\ y = NDIRECT /\ words'[g][y] = d
           \/ ~ (g = f /\ y = NDIRECT) /\ words'[g][y] = words[g][y]
    BY <1>0, <1>2 DEF Types, TypeOK
  <2>3. Exclusive'
    <3>1. Written(f, NDIRECT, d)
      BY <2>2 DEF Written
    <3> HIDE DEF f
    <3> QED BY <1>0, <2>1, <3>1, Take DEF BlocksOK
  <2>4. d # 0
    BY <2>1, FsAssumption DEF BlocksOK, FreeOK
  <2>5. TailOK'
    <3> SUFFICES ASSUME NEW g \in File, NEW y \in Word, y > NDIRECT, words'[g][NDIRECT] = 0
                 PROVE  words'[g][y] = 0
      BY DEF TailOK
    <3>1. g # f /\ words[g][NDIRECT] = 0
      BY <1>0, <2>2, <2>4
    <3> QED BY <3>1, <2>2 DEF BlocksOK, TailOK
  <2> QED BY <2>1, <2>3, <2>5 DEF BlocksOK, FreeOK
<1> QED BY <1>1, <1>2 DEF BlockWalk, read_block, alloc_block_fails

(* file_map_block and read_block. *)
LEMMA MapBlockBlocks ==
  ASSUME Types, BlocksOK, MapBlock, ~ stale'
  PROVE  BlocksOK'
<1> DEFINE f == op.file
           x == WordOf(op.bno)
<1>0. f \in File /\ x \in Word /\ x + 1 \in Word
  <2>1. op.stage = "slot" /\ f \in File /\ op.bno \in Bno
    BY DEF MapBlock, Types, OpOK
  <2> QED BY <2>1, WordFacts
<1>1. CASE UNCHANGED <<free, words>>
  BY <1>1, SameBlocks
<1>2. ASSUME NEW d \in Blk, alloc_block(d), words' = Store(f, x, d)
      PROVE  BlocksOK'
  <2>1. d \in free /\ free' = free \ {d} /\ d \in Num
    BY <1>2, IndirectWord DEF alloc_block, FirstFree
  <2>2. Written(f, x, d) /\ TailOK'
    <3>1. words \in [File -> [Word -> Num]] /\ TailOK
      BY DEF Types, TypeOK, BlocksOK
    <3> HIDE DEF f, x
    <3> QED BY <1>0, <1>2, <2>1, <3>1, StoreWritten
  <2>3. Exclusive'
    <3> HIDE DEF f, x
    <3> QED BY <1>0, <2>1, <2>2, Take DEF BlocksOK
  <2> QED BY <2>1, <2>2, <2>3 DEF BlocksOK, FreeOK
<1> QED BY <1>1, <1>2 DEF MapBlock, alloc_block_fails, OldEntries

(* A word given up and its block freed. *)
LEMMA FreeBlocks ==
  ASSUME Types, BlocksOK, NEW f \in File, NEW x \in Word, words[f][x] \notin {0, NBLOCK},
         free' = free \union {words[f][x]},
         words'[f][x] = 0,
         \A g \in File, y \in Word : words'[g][y] = 0 \/ words'[g][y] = words[g][y]
  PROVE  Exclusive' /\ FreeOK'
<1>1. \A g \in File, y \in Word : words'[g][y] # 0 => words'[g][y] \notin free'
  BY DEF BlocksOK, Exclusive
<1>2. Exclusive'
  BY <1>1, GiveUp DEF BlocksOK
<1>3. words[f][x] \in Blk \ Reserved
  BY IndirectWord DEF Types, TypeOK, BlocksOK, Exclusive
<1> QED BY <1>2, <1>3 DEF BlocksOK, FreeOK

(* file_clear_block. *)
LEMMA ClearBlockBlocks ==
  ASSUME Types, BlocksOK, ClearBlock
  PROVE  BlocksOK'
<1> DEFINE f == op.file
           x == WordOf(op.bno)
<1>0. f \in File /\ op.bno \in Bno
  <2>1. f \in File /\ op.bno \in 0 .. MaxSize /\ size[f] \in 0 .. MaxSize /\ op.bno < size[f]
    BY DEF ClearBlock, Types, OpOK, TypeOK, Op
  <2> QED BY <2>1, FsAssumption DEF Bno
<1>1. x \in Word /\ x + 1 \in Word
  BY <1>0, WordFacts
<1>2. CASE UNCHANGED <<free, words>>
  BY <1>2, SameBlocks
<1>3. ASSUME words[f][x] \notin {0, NBLOCK}, free' = free \union {words[f][x]}, words' = Store(f, x, 0)
      PROVE  BlocksOK'
  <2>1. Written(f, x, 0) /\ TailOK'
    <3>1. words \in [File -> [Word -> Num]] /\ TailOK
      BY DEF Types, TypeOK, BlocksOK
    <3> HIDE DEF f, x
    <3> QED BY <1>0, <1>1, <1>3, <3>1, IndirectWord, StoreWritten
  <2>2. Exclusive' /\ FreeOK'
    BY <1>0, <1>1, <1>3, <2>1, FreeBlocks DEF Written
  <2> QED BY <2>1, <2>2 DEF BlocksOK
<1>4. \/ UNCHANGED <<free, words>>
      \/ /\ words[f][x] \notin {0, NBLOCK} /\ free' = free \union {words[f][x]}
         /\ words' = Store(f, x, 0)
  BY DEF ClearBlock
<1> QED BY <1>2, <1>3, <1>4

(* The end of file_truncate. *)
LEMMA TruncEndBlocks ==
  ASSUME Types, BlocksOK, TruncEnd
  PROVE  BlocksOK'
<1> DEFINE f == op.file
           i == words[f][NDIRECT]
           ws == [words[f] EXCEPT ![NDIRECT] = 0]
<1>0. f \in File /\ NDIRECT \in Word /\ 0 \in Num
  BY IndirectWord DEF TruncEnd, Types, OpOK
<1>1. CASE UNCHANGED <<free, words>>
  BY <1>1, SameBlocks
<1>2. ASSUME i \notin {0, NBLOCK}, free' = free \union {i}, words' = [words EXCEPT ![f] = Reachable(ws)]
      PROVE  BlocksOK'
  <2>1. /\ ws \in [Word -> Num] /\ ws[NDIRECT] = 0
        /\ \A y \in Word : ws[y] = 0 \/ ws[y] = words[f][y]
    BY <1>0 DEF Types, TypeOK
  <2> HIDE DEF ws
  <2>2. /\ \A y \in Word : Reachable(ws)[y] = 0 \/ Reachable(ws)[y] = words[f][y]
        /\ \A y \in Word : y > NDIRECT /\ Reachable(ws)[NDIRECT] = 0 => Reachable(ws)[y] = 0
        /\ Reachable(ws)[NDIRECT] = 0
    BY <1>0, <2>1, ReachableFacts
  <2>3. /\ words'[f] = Reachable(ws)
        /\ \A g \in File : g # f => words'[g] = words[g]
    BY <1>0, <1>2 DEF Types, TypeOK
  <2>4. Exclusive' /\ FreeOK'
    BY <1>0, <1>2, <2>2, <2>3, FreeBlocks
  <2>5. TailOK'
    <3> SUFFICES ASSUME NEW g \in File, NEW y \in Word, y > NDIRECT, words'[g][NDIRECT] = 0
                 PROVE  words'[g][y] = 0
      BY DEF TailOK
    <3> QED BY <2>2, <2>3 DEF BlocksOK, TailOK
  <2> QED BY <2>4, <2>5 DEF BlocksOK
<1>3. \/ UNCHANGED <<free, words>>
      \/ i \notin {0, NBLOCK} /\ free' = free \union {i} /\ words' = [words EXCEPT ![f] = Reachable(ws)]
  BY DEF TruncEnd
<1> QED BY <1>1, <1>2, <1>3

(* The requests that only begin, look up, or read. *)
Begins ==
  \/ Halted \/ GoesOn
  \/ \E f \in File, b \in Bno : ServeMap(f, b)
  \/ \E f \in File : ServeClose(f)
  \/ \E f \in File, n \in 0 .. MaxSize : ServeSetSize(f, n)
  \/ \E n \in Name : ServeOpen(n) \/ ServeCreate(n) \/ ServeRemove(n)

LEMMA BeginsFacts == Begins => UNCHANGED <<free, words, stale>>
BY DEF Begins, Halted, GoesOn, ServeMap, ServeClose, file_get_block, ServeSetSize, file_set_size,
       ServeOpen, ServeCreate, file_create, ServeRemove, file_remove, FillHole, vars, fsVars

(* Once old data is followed, it is for ever. *)
LEMMA StaleStays == Types /\ [Next]_vars /\ stale => stale'
<1> SUFFICES ASSUME Types, [Next]_vars, stale PROVE stale'
  OBVIOUS
<1>1. CASE UNCHANGED stale
  BY <1>1
<1>2. CASE BlockWalk
  BY <1>1, <1>2 DEF BlockWalk
<1>3. CASE MapBlock
  BY <1>1, <1>3 DEF MapBlock, OldEntries
<1>4. CASE ClearBlock \/ TruncEnd \/ (\E f \in File, o \in Olds : OldWriter(f, o))
  BY <1>1, <1>4 DEF ClearBlock, TruncEnd, OldWriter
<1> QED BY <1>1, <1>2, <1>3, <1>4, BeginsFacts DEF Next, Begins, vars, fsVars

(* Every step keeps the owners of blocks apart. *)
LEMMA NextBlocks ==
  ASSUME Types, BlocksOK, ~ stale, ~ stale', [Next]_vars
  PROVE  BlocksOK'
<1>1. CASE UNCHANGED vars \/ Begins
  BY <1>1, BeginsFacts, SameBlocks DEF vars, fsVars
<1>2. CASE BlockWalk \/ MapBlock \/ ClearBlock \/ TruncEnd
  BY <1>2, BlockWalkBlocks, MapBlockBlocks, ClearBlockBlocks, TruncEndBlocks
<1>3. CASE \E f \in File, o \in Olds : OldWriter(f, o)
  BY <1>3 DEF OldWriter
<1> QED BY <1>1, <1>2, <1>3 DEF Next, Begins

-----------------------------------------------------------------------------
(* The theorems *)

(* The disk fsformat has written. *)
LEMMA InitInv == Init => Inv
<1> SUFFICES ASSUME Init PROVE Inv
  OBVIOUS
<1>1. cached \subseteq Blk
  BY FsAssumption DEF Init, File
<1>2. TypeOK
  <2>1. words \in [File -> [Word -> Num]]
    BY IndirectWord, FsAssumption DEF Init
  <2> QED BY <1>1, <2>1, IdleType, FsAssumption DEF Init, TypeOK
<1>3. OpOK
  BY DEF Init, OpOK, Idle
<1>4. BlocksOK
  BY FsAssumption DEF Init, BlocksOK, Exclusive, TailOK, FreeOK
<1> QED BY <1>2, <1>3, <1>4 DEF Inv, Types

(* Every step keeps the invariant. *)
LEMMA NextInv == Inv /\ [Next]_vars => Inv'
BY NextTypes, NextBlocks, StaleStays DEF Inv

(* The inductive invariant holds of every reachable state. *)
THEOREM Invariant == Spec => []Inv
BY InitInv, NextInv, PTL DEF Spec

(***************************************************************************)
(* Bitmap, sizes, names and the request under way keep their types, also   *)
(* while old data is followed as block numbers: a number that is no block  *)
(* of the disk is never read, freed or put in the bitmap.                  *)
(***************************************************************************)
THEOREM TypeCorrect == Spec => []TypeOK
<1>1. Inv => TypeOK
  BY DEF Inv, Types
<1> QED BY <1>1, Invariant, PTL

(***************************************************************************)
(* No block is given to two files, or is both in a file and free, for any  *)
(* disk and any sequence of requests, until alloc_block gives out a block  *)
(* with a page in memory as an indirect or directory block.                *)
(***************************************************************************)
THEOREM BlocksExclusive == Spec => []ExclusiveUnlessStale
<1>1. Inv => ExclusiveUnlessStale
  BY DEF Inv, BlocksOK, ExclusiveUnlessStale
<1> QED BY <1>1, Invariant, PTL

-----------------------------------------------------------------------------
(* Lost blocks *)

(* No word that holds a block is overwritten. *)
Kept == \A g \in File, y \in Word : words[g][y] # 0 => words'[g][y] = words[g][y]

(* The test of file_map_block looks at both words that it will write. *)
LEMMA StoreKept ==
  ASSUME words \in [File -> [Word -> Num]], TailOK,
         NEW f \in File, NEW x \in Word, x + 1 \in Word, x # NDIRECT, NEW b \in Blk,
         NoBlock(f, x), words' = Store(f, x, b)
  PROVE  Kept
<1> DEFINE ws == [words[f] EXCEPT ![x] = b, ![x + 1] = 0]
<1>1. words[f][x] = 0 /\ words[f][x + 1] = 0 /\ NDIRECT \in Word
  BY IndirectWord DEF NoBlock, IsZero
<1>2. words' = [words EXCEPT ![f] = Reachable(ws)]
  BY DEF Store
<1>3. /\ \A y \in Word : words[f][y] # 0 => ws[y] = words[f][y]
      /\ ws[NDIRECT] = words[f][NDIRECT]
  BY <1>1
<1> HIDE DEF ws
<1>4. \A y \in Word : words[f][y] # 0 => Reachable(ws)[y] = words[f][y]
  BY <1>3 DEF TailOK, Reachable
<1>5. /\ words'[f] = Reachable(ws)
      /\ \A g \in File : g # f => words'[g] = words[g]
  BY <1>2
<1> QED BY <1>4, <1>5 DEF Kept

(* Every step but those of a truncation leaves owned words alone. *)
LEMMA NextKept == Inv /\ ~ stale' /\ Next => op.stage = "trunc" \/ Kept
<1> SUFFICES ASSUME Inv, ~ stale', Next PROVE op.stage = "trunc" \/ Kept
  OBVIOUS
<1>0. words \in [File -> [Word -> Num]] /\ TailOK /\ ~ stale
  BY StaleStays DEF Inv, Types, TypeOK, BlocksOK
<1>1. CASE UNCHANGED words
  BY <1>1 DEF Kept
<1>2. CASE BlockWalk
  <2>1. ASSUME words[op.file][NDIRECT] = 0, NEW d \in Blk,
               words' = [words EXCEPT ![op.file][NDIRECT] = d]
        PROVE  Kept
    BY <1>0, <2>1 DEF Kept
  <2> QED BY <1>1, <1>2, <2>1 DEF BlockWalk
<1>3. CASE MapBlock
  <2>1. op.file \in File /\ op.bno \in Bno
    BY <1>3 DEF MapBlock, Inv, Types, OpOK
  <2>2. WordOf(op.bno) \in Word /\ WordOf(op.bno) + 1 \in Word /\ WordOf(op.bno) # NDIRECT
    BY <2>1, WordFacts
  <2>3. ASSUME NEW d \in Blk, NoBlock(op.file, WordOf(op.bno)),
               words' = Store(op.file, WordOf(op.bno), d)
        PROVE  Kept
    BY <1>0, <2>1, <2>2, <2>3, StoreKept
  <2> QED BY <1>1, <1>3, <2>3 DEF MapBlock, OldEntries
<1>4. CASE ClearBlock \/ TruncEnd
  BY <1>4 DEF ClearBlock, TruncEnd
<1>5. CASE \E f \in File, o \in Olds : OldWriter(f, o)
  BY <1>0, <1>5 DEF OldWriter
<1> QED BY <1>1, <1>2, <1>3, <1>4, <1>5, BeginsFacts DEF Next, Begins

(***************************************************************************)
(* A request other than a truncation loses no block, wherever it fails:    *)
(* file_map_block tests the u64 that it overwrites.  This holds as long as *)
(* no old data is followed as block numbers.                               *)
(***************************************************************************)
THEOREM OnlyTruncateLoses == Spec => LostOnlyByTruncate
<1> DEFINE A == \A b \in Blk \ {0} :
                  Owned(b) /\ ~ Owned(b)' => b \in free' \/ op.stage = "trunc" \/ stale'
<1>1. Inv /\ [Next]_vars => [A]_vars
  <2> SUFFICES ASSUME Inv, Next PROVE A
    OBVIOUS
  <2>1. CASE op.stage = "trunc" \/ stale'
    BY <2>1
  <2>2. CASE Kept
    <3> SUFFICES ASSUME NEW b \in Blk \ {0}, Owned(b) PROVE Owned(b)'
      OBVIOUS
    <3>1. PICK f \in File, x \in Word : words[f][x] = b
      BY DEF Owned
    <3>2. words'[f][x] = b
      BY <2>2, <3>1 DEF Kept
    <3> QED BY <3>2 DEF Owned
  <2> QED BY <2>1, <2>2, NextKept
<1> QED BY <1>1, Invariant, PTL DEF Spec, LostOnlyByTruncate
=============================================================================
