-------------------------- MODULE FileClientProofs --------------------------
(***************************************************************************)
(* Theorems about FileClient, for any number of processes, slots, entries  *)
(* of the open-file table, files and blocks: a descriptor denotes its file *)
(* and what it maps are the blocks of that file.                           *)
(*                                                                         *)
(* The invariant is a conjunction over the processes.  Local(p) says what  *)
(* process p knows of its call, its descriptors and its pages; steps of    *)
(* other processes reach it only through the shared Filefd pages, the      *)
(* table of the server and the blocks of the files (Unaffected).           *)
(***************************************************************************)
EXTENDS FileClient, FiniteSetTheorems, TLAPS

IdOps == {"map", "dirty", "close", "size", "grow", "undo"}

(* The request a process waits for is the one its call has come to. *)
Asked(p) ==
  LET c == call[p]  m == msg[p] IN
  \/ c.op = "open" /\ m.type = "OPEN"
  \/ c.op \in {"map", "grow"} /\ m.type = "MAP" /\ m.id = c.id /\ m.n = c.i
  \/ c.op = "dirty" /\ m.type = "DIRTY" /\ m.id = c.id
  \/ c.op = "close" /\ m.type = "CLOSE" /\ m.id = c.id
  \/ c.op = "size" /\ m.type = "SET_SIZE" /\ m.id = c.id /\ m.n = c.new
  \/ c.op = "undo" /\ m.type = "SET_SIZE" /\ m.id = c.id
  \/ c.op = "path" /\ m.type \in {"REMOVE", "CREATE", "SYNC"}

(* Where the call is, and its descriptor *)
CallOK(p) ==
  LET c == call[p]  m == msg[p] IN
  /\ p \notin alive => c.op = "none" /\ \A s \in Slot : fd[p][s] = NULL
  /\ m.st = "sent" => Asked(p)
  /\ m.r # "inval"
  /\ m.st = "done" /\ c.op \in {"close", "size", "undo"} => m.r = "ok"
  /\ c.op = "open" => c.i = 0 /\ (fd[p][c.s] # NULL <=> m.st = "done" /\ m.r = "ok")
  /\ c.op = "dup" => c.dup # NULL /\ fd[p][c.s] = NULL
  /\ c.op \in IdOps \union {"shrink", "write"} => fd[p][c.s] # NULL
  /\ c.op \in {"map", "dirty"} => c.i < c.end
  /\ c.op = "grow" => c.i < c.new

(* The slot that dup fills before it maps the descriptor there *)
Copied(p, s) == call[p].op = "dup" /\ call[p].s = s

(* The descriptors of p, and the id that the call of p has read *)
DescOK(p) ==
  /\ \A s \in Slot : fd[p][s] = NULL /\ ~ Copied(p, s) => file[p][s] = None
  /\ call[p].op = "dup" => file[p][call[p].s] = file[p][call[p].dup]
  /\ \A s \in Slot : fd[p][s] # NULL =>
       /\ file[p][s] # None
       /\ tab[fd[p][s]].page
       /\ ff[fd[p][s]].id = [e |-> fd[p][s], g |-> tab[fd[p][s]].g]
       /\ tab[fd[p][s]].o_file = file[p][s]
  /\ call[p].op \in IdOps =>
       call[p].id.e = fd[p][call[p].s] /\ call[p].id = ff[fd[p][call[p].s]].id

(* A descriptor that was never shared has its Filefd for itself. *)
Alone(p) ==
  \A s \in Slot : fd[p][s] # NULL /\ <<p, s>> \notin loose =>
    \A q \in Procs, t \in Slot : fd[q][t] = fd[p][s] => q = p /\ t = s

(* The sizes that the call of p has read are still those of the Filefd. *)
SizeOK(p) ==
  LET c == call[p] IN
  c.op \in IdOps \union {"shrink", "write"} /\ <<p, c.s>> \notin loose =>
    /\ c.op \in {"map", "dirty", "close"} => ff[fd[p][c.s]].size = c.end
    /\ c.op \in {"size", "grow", "shrink", "write"} => ff[fd[p][c.s]].size = c.new
    /\ c.op # "undo"
    /\ c.op \in {"map", "grow"} /\ msg[p].st = "done" => msg[p].r = "ok"

(* The pages that an ftruncate under way has yet to unmap *)
Pending(p, s, i) ==
  /\ call[p].op \in {"size", "shrink"} /\ call[p].s = s
  /\ call[p].new <= i /\ i < call[p].old

(* MappedIsFile, with the bound that file_close relies on *)
PagesOK(p) ==
  \A s \in Slot, i \in Index : page[p][s][i] \in Block =>
    \/ <<p, s, i>> \in cut
    \/ Pending(p, s, i)
    \/ /\ file[p][s] # None /\ page[p][s][i] = blk[file[p][s]][i]
       /\ fd[p][s] # NULL /\ fd[p][s] # NULL /\ <<p, s>> \notin loose => i < ff[fd[p][s]].size

(* How far the pages of slot s are mapped while the call of p is at it *)
Reached(p, s, i) ==
  LET c == call[p] IN
  IF c.s # s THEN i < ff[fd[p][s]].size
  ELSE CASE c.op = "open" -> FALSE
         [] c.op \in {"map", "grow"} -> i < c.i \/ (i = c.i /\ msg[p].st = "done")
         [] c.op = "size" -> i < c.old
         [] OTHER -> i < ff[fd[p][s]].size

(* WrittenIsMapped, for the calls under way, too *)
FilledOK(p) ==
  \A s \in Slot, i \in Index :
    fd[p][s] # NULL /\ <<p, s>> \notin loose /\ Reached(p, s, i) => page[p][s][i] \in Block

Local(p) ==
  /\ CallOK(p) /\ DescOK(p) /\ Alone(p)
  /\ SizeOK(p) /\ PagesOK(p) /\ FilledOK(p)

Inv == TypeOK /\ \A p \in Procs : Local(p)

-----------------------------------------------------------------------------
(* Types and records *)

USE FileClientAssumption

(* The sets that sizes, indices and slots range over. *)
LEMMA Sets ==
  /\ None \notin Block /\ Priv \notin Block /\ Boot \notin Block /\ None \notin File /\ None # Priv
  /\ 0 \in Slot /\ 0 \in Size /\ 0 \in Index /\ NULL \notin Entry /\ NULL \notin Slot
  /\ Index \subseteq Size /\ Size \subseteq Int /\ Index \subseteq Int /\ MAXBLK \in Size
  /\ \A n \in Size : 0 <= n /\ n <= MAXBLK
  /\ \A i \in Index : 0 <= i /\ i < MAXBLK /\ i + 1 \in Size
  /\ \A a, n \in Size : a < n => a \in Index /\ a + 1 \in Size
BY DEF None, Priv, Boot, Block, File, Slot, Size, Index

(* The values that stand for no id, no call and no request. *)
LEMMA Nulls ==
  /\ NoId \in FileId /\ NoCall \in Call /\ NoMsg \in Msg
  /\ NoCall.op = "none" /\ NoCall.i = 0 /\ NoCall.s = 0 /\ NoCall.write = NULL /\ NoCall.dup = NULL
  /\ NoMsg.st = "none" /\ NoMsg.r = "ok"
<1>1. NoId \in FileId
  BY DEF NoId, FileId, Entry
<1>2. NoCall \in Call /\ NoCall.op = "none" /\ NoCall.i = 0 /\ NoCall.s = 0
      /\ NoCall.write = NULL /\ NoCall.dup = NULL
  BY <1>1, Sets DEF NoCall, Call
<1>3. NoMsg \in Msg /\ NoMsg.st = "none" /\ NoMsg.r = "ok"
  BY <1>1, Sets DEF NoMsg, Msg
<1> QED BY <1>1, <1>2, <1>3

(* The records of the variables *)
TabType == [page : BOOLEAN, g : 0 .. NGEN - 1, o_file : File \union {None}]
FfType  == [id : FileId, size : Size, off : Nat]

(* The fields of calls and requests have their types. *)
LEMMA Fields ==
  ASSUME TypeOK
  PROVE  /\ \A p \in Procs : call[p] \in Call /\ msg[p] \in Msg
         /\ \A p \in Procs : /\ call[p].s \in Slot /\ call[p].id \in FileId /\ call[p].i \in Size
                             /\ call[p].end \in Size /\ call[p].old \in Size /\ call[p].new \in Size
                             /\ call[p].write \in Index \union {NULL} /\ call[p].dup \in Slot \union {NULL}
         /\ \A p \in Procs : msg[p].id \in FileId /\ msg[p].n \in Size /\ msg[p].path \in Paths \union {NULL}
         /\ \A p \in Procs, s \in Slot : /\ fd[p][s] \in Entry \union {NULL}
                                         /\ file[p][s] \in File \union {None}
         /\ \A p \in Procs, s \in Slot, i \in Index : page[p][s][i] \in Block \union {None, Priv, Boot}
         /\ \A e \in Entry : /\ tab[e] \in TabType /\ ff[e] \in FfType
                             /\ ff[e].id \in FileId /\ ff[e].size \in Size /\ ff[e].off \in Nat
                             /\ tab[e].g \in 0 .. NGEN - 1
         /\ \A id \in FileId : id.e \in Entry
         /\ \A f \in File, i \in Index : blk[f][i] \in Block \union {None}
BY DEF TypeOK, Call, Msg, TabType, FfType, FileId

(* The steps of a call, as updates of its record *)
AtOpen(x, s) == [x EXCEPT !.op = "open", !.s = s]
AtMap(x, id, n) == [x EXCEPT !.op = "map", !.id = id, !.end = n]
AtNext(x, n) == [x EXCEPT !.i = n]
AtDirty(x, s, id, n, d) == [x EXCEPT !.op = "dirty", !.s = s, !.id = id, !.end = n, !.dup = d]
AtOp(x, op) == [x EXCEPT !.op = op]
AtDup(x, s, d) == [x EXCEPT !.op = "dup", !.s = s, !.dup = d]
AtSize(x, s, id, old, n, w) ==
  [x EXCEPT !.op = "size", !.s = s, !.id = id, !.old = old, !.new = n, !.write = w]

CallOp == {"none", "open", "map", "dirty", "close", "size", "grow", "undo", "shrink", "write", "dup", "path"}

(* A call that begins an open. *)
LEMMA AtOpenFacts == \A x \in Call, s \in Slot :
  LET c == AtOpen(x, s) IN c \in Call /\ c.op = "open" /\ c.s = s /\ c.i = x.i
BY DEF AtOpen, Call

(* A call in the loop of open that maps blocks. *)
LEMMA AtMapFacts == \A x \in Call, id \in FileId, n \in Size :
  LET c == AtMap(x, id, n) IN
  c \in Call /\ c.op = "map" /\ c.s = x.s /\ c.id = id /\ c.i = x.i /\ c.end = n
<1>1. \A x \in Call, id \in FileId, n \in Size : AtMap(x, id, n) \in Call
  BY DEF AtMap, Call
<1>2. \A x \in Call, id \in FileId, n \in Size :
        AtMap(x, id, n).op = "map" /\ AtMap(x, id, n).s = x.s
  BY DEF AtMap, Call
<1>3. \A x \in Call, id \in FileId, n \in Size :
        AtMap(x, id, n).id = id /\ AtMap(x, id, n).i = x.i
  BY DEF AtMap, Call
<1>4. \A x \in Call, id \in FileId, n \in Size :
        AtMap(x, id, n).end = n
  BY DEF AtMap, Call
<1> QED BY <1>1, <1>2, <1>3, <1>4

(* A call that goes on with block n. *)
LEMMA AtNextFacts == \A x \in Call, n \in Size :
  LET c == AtNext(x, n) IN
  /\ c \in Call /\ c.op = x.op /\ c.s = x.s /\ c.id = x.id /\ c.i = n /\ c.end = x.end
  /\ c.old = x.old /\ c.new = x.new /\ c.write = x.write /\ c.dup = x.dup
BY DEF AtNext, Call

(* A call in the loop of file_close. *)
LEMMA AtDirtyFacts == \A x \in Call, s \in Slot, id \in FileId, n \in Size, d \in Slot \union {NULL} :
  LET c == AtDirty(x, s, id, n, d) IN
  c \in Call /\ c.op = "dirty" /\ c.s = s /\ c.id = id /\ c.i = x.i /\ c.end = n /\ c.dup = d
<1>1. \A x \in Call, s \in Slot, id \in FileId, n \in Size, d \in Slot \union {NULL} : AtDirty(x, s, id, n, d) \in Call
  BY DEF AtDirty, Call
<1>2. \A x \in Call, s \in Slot, id \in FileId, n \in Size, d \in Slot \union {NULL} :
        AtDirty(x, s, id, n, d).op = "dirty" /\ AtDirty(x, s, id, n, d).s = s
  BY DEF AtDirty, Call
<1>3. \A x \in Call, s \in Slot, id \in FileId, n \in Size, d \in Slot \union {NULL} :
        AtDirty(x, s, id, n, d).id = id /\ AtDirty(x, s, id, n, d).i = x.i
  BY DEF AtDirty, Call
<1>4. \A x \in Call, s \in Slot, id \in FileId, n \in Size, d \in Slot \union {NULL} :
        AtDirty(x, s, id, n, d).end = n /\ AtDirty(x, s, id, n, d).dup = d
  BY DEF AtDirty, Call
<1> QED BY <1>1, <1>2, <1>3, <1>4

(* A call that goes on with its next part. *)
LEMMA AtOpFacts == \A x \in Call, op \in CallOp :
  LET c == AtOp(x, op) IN
  /\ c \in Call /\ c.op = op /\ c.s = x.s /\ c.id = x.id /\ c.i = x.i /\ c.end = x.end
  /\ c.old = x.old /\ c.new = x.new /\ c.write = x.write /\ c.dup = x.dup
BY DEF AtOp, Call, CallOp

(* A call that is about to map the duplicate. *)
LEMMA AtDupFacts == \A x \in Call, s \in Slot, d \in Slot :
  LET c == AtDup(x, s, d) IN c \in Call /\ c.op = "dup" /\ c.s = s /\ c.dup = d
BY DEF AtDup, Call

(* A call that sets the size. *)
LEMMA AtSizeFacts ==
  \A x \in Call, s \in Slot, id \in FileId, old \in Size, n \in Size, w \in Index \union {NULL} :
    LET c == AtSize(x, s, id, old, n, w) IN
    /\ c \in Call /\ c.op = "size" /\ c.s = s /\ c.id = id
    /\ c.old = old /\ c.new = n /\ c.write = w
<1> DEFINE A(x, s, id) == [x EXCEPT !.op = "size", !.s = s, !.id = id]
           B(x, old, n, w) == [x EXCEPT !.old = old, !.new = n, !.write = w]
<1>1. \A x \in Call, s \in Slot, id \in FileId :
        A(x, s, id) \in Call /\ A(x, s, id).op = "size" /\ A(x, s, id).s = s /\ A(x, s, id).id = id
  BY DEF Call
<1>2. \A x \in Call, old \in Size, n \in Size, w \in Index \union {NULL} : B(x, old, n, w) \in Call
  BY DEF Call
<1>3. \A x \in Call, old \in Size, n \in Size, w \in Index \union {NULL} :
        B(x, old, n, w).op = x.op /\ B(x, old, n, w).s = x.s /\ B(x, old, n, w).id = x.id
  BY DEF Call
<1>4. \A x \in Call, old \in Size, n \in Size, w \in Index \union {NULL} :
        B(x, old, n, w).old = old /\ B(x, old, n, w).new = n /\ B(x, old, n, w).write = w
  BY DEF Call
<1>5. \A x, s, id, old, n, w : AtSize(x, s, id, old, n, w) = B(A(x, s, id), old, n, w)
  BY Zenon DEF AtSize
<1> HIDE DEF A, B
<1> QED BY <1>1, <1>2, <1>3, <1>4, <1>5

(* A request of p, seen in the variables *)
MsgType == {"OPEN", "MAP", "SET_SIZE", "CLOSE", "DIRTY", "REMOVE", "CREATE", "SYNC"}
Request(x, type, id, n, path) ==
  [x EXCEPT !.st = "sent", !.type = type, !.id = id, !.n = n, !.path = path]

(* A request as fsipc sends it. *)
LEMMA RequestFacts ==
  \A x \in Msg, type \in MsgType, id \in FileId, n \in Size, path \in Paths \union {NULL} :
    LET m == Request(x, type, id, n, path) IN
    m \in Msg /\ m.st = "sent" /\ m.type = type /\ m.id = id /\ m.n = n /\ m.r = x.r
<1>1. \A x \in Msg, type \in MsgType, id \in FileId, n \in Size, path \in Paths \union {NULL} : Request(x, type, id, n, path) \in Msg
  BY DEF Request, Msg, MsgType
<1>2. \A x \in Msg, type \in MsgType, id \in FileId, n \in Size, path \in Paths \union {NULL} :
        Request(x, type, id, n, path).st = "sent" /\ Request(x, type, id, n, path).type = type
  BY DEF Request, Msg, MsgType
<1>3. \A x \in Msg, type \in MsgType, id \in FileId, n \in Size, path \in Paths \union {NULL} :
        Request(x, type, id, n, path).id = id /\ Request(x, type, id, n, path).n = n
  BY DEF Request, Msg, MsgType
<1>4. \A x \in Msg, type \in MsgType, id \in FileId, n \in Size, path \in Paths \union {NULL} :
        Request(x, type, id, n, path).r = x.r
  BY DEF Request, Msg, MsgType
<1> QED BY <1>1, <1>2, <1>3, <1>4

Reply(x, r) == [x EXCEPT !.st = "done", !.r = r]

(* A request that has its answer. *)
LEMMA ReplyFacts == \A x \in Msg, r \in {"ok", "inval", "fail"} :
  LET m == Reply(x, r) IN m \in Msg /\ m.st = "done" /\ m.r = r
BY DEF Reply, Msg

(* The kinds of requests, and the values a request leaves empty. *)
LEMMA Types ==
  /\ \A x \in {"OPEN", "MAP", "SET_SIZE", "CLOSE", "DIRTY", "REMOVE", "CREATE", "SYNC"} : x \in MsgType
  /\ NULL \in Paths \union {NULL} /\ \A x \in Paths : x \in Paths \union {NULL}
  /\ NoId \in FileId /\ 0 \in Size
BY Nulls, Sets DEF MsgType

(* Only the call and the message of p change. *)
Sets1(p, c, m) == call' = [call EXCEPT ![p] = c] /\ msg' = [msg EXCEPT ![p] = m]

(* Ask sets the call and the request of one process. *)
LEMMA AskFacts ==
  ASSUME NEW p \in Procs, NEW c \in Call, NEW type \in MsgType, NEW id \in FileId, NEW n \in Size,
         NEW path \in Paths \union {NULL}, Ask(p, c, type, id, n, path)
  PROVE  \E m \in Msg : /\ Sets1(p, c, m) /\ m.st = "sent" /\ m.type = type
                        /\ m.id = id /\ m.n = n /\ m.r = "ok"
<1>1. Sets1(p, c, Request(NoMsg, type, id, n, path))
  BY Zenon DEF Ask, Sets1, Request
<1> QED BY <1>1, RequestFacts, Nulls

(* Answer sets the request of one process. *)
LEMMA AnswerFacts ==
  ASSUME TypeOK, NEW p \in Procs, NEW r \in {"ok", "inval", "fail"}, Answer(p, r)
  PROVE  \E m \in Msg : msg' = [msg EXCEPT ![p] = m] /\ m.st = "done" /\ m.r = r
<1>1. msg' = [msg EXCEPT ![p] = Reply(msg[p], r)]
  BY DEF Answer, Reply, TypeOK
<1>2. Reply(msg[p], r) \in Msg /\ Reply(msg[p], r).st = "done" /\ Reply(msg[p], r).r = r
  BY ReplyFacts, Fields
<1> QED BY <1>1, <1>2

-----------------------------------------------------------------------------
(* The other processes, and steps that only exchange messages *)

(***************************************************************************)
(* A step of r leaves p alone: p keeps its descriptors, pages and call;    *)
(* the Filefds it maps keep their ids, and their sizes if they were never  *)
(* shared; a block its pages show stays in the file or is noted in cut;    *)
(* and r maps a Filefd of nobody or one it has already.                    *)
(***************************************************************************)
Unaffected(r, p) ==
  /\ p \in alive <=> p \in alive'
  /\ fd'[p] = fd[p] /\ page'[p] = page[p] /\ file'[p] = file[p]
  /\ call'[p] = call[p] /\ msg'[p] = msg[p]
  /\ \A s \in Slot : <<p, s>> \in loose' <=> <<p, s>> \in loose
  /\ \A s \in Slot : fd[p][s] # NULL =>
       /\ tab'[fd[p][s]] = tab[fd[p][s]] /\ ff'[fd[p][s]].id = ff[fd[p][s]].id
       /\ <<p, s>> \notin loose => ff'[fd[p][s]].size = ff[fd[p][s]].size
  /\ \A s \in Slot, i \in Index : <<p, s, i>> \in cut => <<p, s, i>> \in cut'
  /\ \A s \in Slot, i \in Index :
       page[p][s][i] \in Block /\ file[p][s] # None /\ page[p][s][i] = blk[file[p][s]][i] =>
         <<p, s, i>> \in cut' \/ page[p][s][i] = blk'[file[p][s]][i]
  /\ \A q \in Procs, t \in Slot : fd'[q][t] # NULL =>
       \/ fd'[q][t] = fd[q][t]
       \/ Mapped(fd'[q][t]) = {}
       \/ \E u \in Slot : fd'[q][t] = fd[r][u]

(* What is known of a process survives a step of another that it is unaffected by. *)
LEMMA OthersInv ==
  ASSUME Inv, NEW r \in Procs, NEW p \in Procs, p # r, Unaffected(r, p)
  PROVE  Local(p)'
<1> USE Sets
<1>1. call[p].s \in Slot /\ \A s \in Slot : fd[p][s] # NULL => fd[p][s] \in Entry
  BY Fields DEF Inv
<1>2. CallOK(p)'
  BY <1>1 DEF Inv, Local, CallOK, Asked, Unaffected
<1>3. DescOK(p)'
  <2>1. call[p].op \in IdOps => fd[p][call[p].s] # NULL
    BY DEF Inv, Local, CallOK
  <2>2. DescOK(p)
    BY DEF Inv, Local
  <2>3. \A s \in Slot : fd[p][s] # NULL =>
          tab'[fd[p][s]] = tab[fd[p][s]] /\ ff'[fd[p][s]].id = ff[fd[p][s]].id
    BY DEF Unaffected
  <2>4. fd'[p] = fd[p] /\ file'[p] = file[p] /\ call'[p] = call[p]
    BY DEF Unaffected
  <2> QED BY <1>1, <2>1, <2>2, <2>3, <2>4 DEF DescOK, Copied
<1>4. Alone(p)'
  <2> SUFFICES ASSUME NEW s \in Slot, fd[p][s] # NULL, <<p, s>> \notin loose,
                      NEW q \in Procs, NEW t \in Slot, fd'[q][t] = fd[p][s]
               PROVE  q = p /\ t = s
    BY DEF Alone, Unaffected
  <2>1. Mapped(fd'[q][t]) # {}
    <3>1. <<p, s>> \in Mapped(fd[p][s])
      BY DEF Mapped
    <3> QED BY <3>1
  <2>2. \/ fd'[q][t] = fd[q][t]
        \/ Mapped(fd'[q][t]) = {}
        \/ \E u \in Slot : fd'[q][t] = fd[r][u]
    <3>1. fd'[q][t] # NULL
      OBVIOUS
    <3> QED BY <3>1, Zenon DEF Unaffected
  <2> QED BY <2>1, <2>2 DEF Inv, Local, Alone
<1>5. SizeOK(p)'
  BY <1>1 DEF Inv, Local, CallOK, SizeOK, Unaffected
<1>6. PagesOK(p)'
  <2> SUFFICES ASSUME NEW s \in Slot, NEW i \in Index, page[p][s][i] \in Block
               PROVE  \/ <<p, s, i>> \in cut'
                      \/ Pending(p, s, i)'
                      \/ /\ file[p][s] # None /\ page[p][s][i] = blk'[file[p][s]][i]
                         /\ fd[p][s] # NULL /\ <<p, s>> \notin loose => i < ff'[fd[p][s]].size
    BY DEF PagesOK, Unaffected
  <2>1. Pending(p, s, i) => Pending(p, s, i)'
    BY DEF Pending, Unaffected
  <2>2. \/ <<p, s, i>> \in cut
        \/ Pending(p, s, i)
        \/ /\ file[p][s] # None /\ page[p][s][i] = blk[file[p][s]][i]
           /\ fd[p][s] # NULL /\ <<p, s>> \notin loose => i < ff[fd[p][s]].size
    BY DEF Inv, Local, PagesOK
  <2> QED BY <2>1, <2>2 DEF Unaffected
<1>7. FilledOK(p)'
  <2> SUFFICES ASSUME NEW s \in Slot, NEW i \in Index, fd[p][s] # NULL, <<p, s>> \notin loose,
                      Reached(p, s, i)'
               PROVE  page[p][s][i] \in Block
    BY DEF FilledOK, Unaffected
  <2>1. Reached(p, s, i)
    BY DEF Reached, Unaffected
  <2> QED BY <2>1 DEF Inv, Local, FilledOK
<1> QED BY <1>2, <1>3, <1>4, <1>5, <1>6, <1>7 DEF Local

(* The conditions on a step of p that maps, opens and closes nothing *)
Quiet(p) ==
  /\ UNCHANGED <<alive, fd, file>>
  /\ \A q \in Procs : q # p =>
       /\ call'[q] = call[q] /\ msg'[q] = msg[q] /\ page'[q] = page[q]
       /\ \A s \in Slot : <<q, s>> \in loose' <=> <<q, s>> \in loose
  /\ \A s \in Slot : <<p, s>> \in loose => <<p, s>> \in loose'
  /\ \A q \in Procs, s \in Slot : fd[q][s] # NULL =>
       /\ tab'[fd[q][s]] = tab[fd[q][s]]
       /\ ff'[fd[q][s]].id = ff[fd[q][s]].id /\ ff'[fd[q][s]].size = ff[fd[q][s]].size
  /\ \A q \in Procs, s \in Slot, i \in Index : <<q, s, i>> \in cut => <<q, s, i>> \in cut'
  /\ \A q \in Procs, s \in Slot, i \in Index :
       page[q][s][i] \in Block /\ file[q][s] # None /\ page[q][s][i] = blk[file[q][s]][i] =>
         \/ <<q, s, i>> \in cut'
         \/ page[q][s][i] = blk'[file[q][s]][i]
         \/ q = p /\ Pending(p, s, i)'
  /\ \A s \in Slot, i \in Index :
       page'[p][s][i] \in Block \/ page[p][s][i] \in Block => page'[p][s][i] = page[p][s][i]

(* What the step has to establish for the call of p itself *)
CallStep(p) ==
  /\ CallOK(p)' /\ SizeOK(p)'
  /\ call[p].op = "dup" \/ call'[p].op = "dup" => call'[p] = call[p]
  /\ call'[p].op \in IdOps =>
       /\ call'[p].id.e = fd[p][call'[p].s]
       /\ call'[p].id = ff[fd[p][call'[p].s]].id
  /\ \A s \in Slot, i \in Index : Pending(p, s, i) => Pending(p, s, i)'
  /\ \A s \in Slot, i \in Index :
       fd[p][s] # NULL /\ <<p, s>> \notin loose' /\ Reached(p, s, i)' =>
         Reached(p, s, i) \/ page[p][s][i] \in Block

(* A step that changes only the call and the request of one process. *)
LEMMA QuietInv ==
  ASSUME Inv, TypeOK', NEW p \in Procs, Quiet(p), CallStep(p)
  PROVE  Inv'
<1>1. ASSUME NEW q \in Procs, q # p PROVE Local(q)'
  <2>1. Unaffected(p, q)
    BY <1>1 DEF Unaffected, Quiet
  <2> QED BY <1>1, <2>1, OthersInv
<1>2. DescOK(p)'
  <2>1. DescOK(p)
    BY DEF Inv, Local
  <2>2. call'[p].op \in IdOps => fd[p][call'[p].s] # NULL /\ call'[p].s \in Slot
    <3>1. call'[p].s \in Slot
      BY DEF TypeOK, Call
    <3>2. call'[p].op \in IdOps => fd'[p][call'[p].s] # NULL
      BY DEF CallStep, CallOK
    <3> QED BY <3>1, <3>2 DEF Quiet
  <2>3. fd' = fd /\ file' = file
    BY DEF Quiet
  <2>4. \A s \in Slot : fd[p][s] # NULL =>
          tab'[fd[p][s]] = tab[fd[p][s]] /\ ff'[fd[p][s]].id = ff[fd[p][s]].id
    BY DEF Quiet
  <2>5. call'[p].op \in IdOps =>
          call'[p].id.e = fd[p][call'[p].s] /\ call'[p].id = ff[fd[p][call'[p].s]].id
    BY DEF CallStep
  <2>6. call[p].op = "dup" \/ call'[p].op = "dup" => call'[p] = call[p]
    BY DEF CallStep
  <2> QED BY <2>1, <2>2, <2>3, <2>4, <2>5, <2>6 DEF DescOK, Copied
<1>3. Alone(p)'
  <2>1. Alone(p)
    BY DEF Inv, Local
  <2> QED BY <2>1 DEF Alone, Quiet
<1>4. PagesOK(p)'
  <2> SUFFICES ASSUME NEW s \in Slot, NEW i \in Index, page'[p][s][i] \in Block
               PROVE  \/ <<p, s, i>> \in cut'
                      \/ Pending(p, s, i)'
                      \/ /\ file'[p][s] # None /\ page'[p][s][i] = blk'[file'[p][s]][i]
                         /\ fd'[p][s] # NULL /\ <<p, s>> \notin loose' => i < ff'[fd'[p][s]].size
    BY DEF PagesOK
  <2>1. page'[p][s][i] = page[p][s][i] /\ file' = file /\ fd' = fd
    BY DEF Quiet
  <2>2. \/ <<p, s, i>> \in cut
        \/ Pending(p, s, i)
        \/ /\ file[p][s] # None /\ page[p][s][i] = blk[file[p][s]][i]
           /\ fd[p][s] # NULL /\ <<p, s>> \notin loose => i < ff[fd[p][s]].size
    BY <2>1 DEF Inv, Local, PagesOK
  <2>3. <<p, s, i>> \in cut => <<p, s, i>> \in cut'
    BY DEF Quiet
  <2>4. Pending(p, s, i) => Pending(p, s, i)'
    BY DEF CallStep
  <2>5. CASE /\ file[p][s] # None /\ page[p][s][i] = blk[file[p][s]][i]
             /\ fd[p][s] # NULL /\ <<p, s>> \notin loose => i < ff[fd[p][s]].size
    <3>1. <<p, s>> \in loose => <<p, s>> \in loose'
      BY DEF Quiet
    <3>2. fd[p][s] # NULL => ff'[fd[p][s]].size = ff[fd[p][s]].size
      BY DEF Quiet
    <3>3. \/ <<p, s, i>> \in cut'
          \/ page[p][s][i] = blk'[file[p][s]][i]
          \/ Pending(p, s, i)'
      BY <2>1, <2>5 DEF Quiet
    <3> QED BY <2>1, <2>5, <3>1, <3>2, <3>3
  <2> QED BY <2>2, <2>3, <2>4, <2>5
<1>5. FilledOK(p)'
  <2> SUFFICES ASSUME NEW s \in Slot, NEW i \in Index, fd'[p][s] # NULL, <<p, s>> \notin loose',
                      Reached(p, s, i)'
               PROVE  page'[p][s][i] \in Block
    BY DEF FilledOK
  <2>1. fd[p][s] # NULL /\ <<p, s>> \notin loose
    BY DEF Quiet
  <2>2. Reached(p, s, i) \/ page[p][s][i] \in Block
    BY <2>1 DEF CallStep
  <2>3. page[p][s][i] \in Block
    BY <2>1, <2>2 DEF Inv, Local, FilledOK
  <2> QED BY <2>3 DEF Quiet
<1>6. Local(p)'
  BY <1>2, <1>3, <1>4, <1>5 DEF Local, CallStep
<1> QED BY <1>1, <1>6 DEF Inv

(* Only messages are exchanged. *)
LEMMA TalkIsQuiet ==
  ASSUME NEW p \in Procs, UNCHANGED <<alive, fd, page, tab, ff, blk, file, cut, loose>>,
         \A q \in Procs : q # p => call'[q] = call[q] /\ msg'[q] = msg[q]
  PROVE  Quiet(p)
BY DEF Quiet

-----------------------------------------------------------------------------
(* The server *)

(* open_lookup finds the entry of the descriptor, and no other. *)
LEMMA LookupFinds ==
  ASSUME Inv, NEW p \in Procs, msg[p].st = "sent", msg[p].type \in {"MAP", "DIRTY", "SET_SIZE", "CLOSE"}
  PROVE  /\ call[p].op \in IdOps /\ call[p].s \in Slot
         /\ fd[p][call[p].s] \in Entry /\ msg[p].id.e = fd[p][call[p].s]
         /\ Lookup(msg[p].id)
         /\ file[p][call[p].s] \in File /\ tab[msg[p].id.e].o_file = file[p][call[p].s]
<1> USE Sets
<1>1. CallOK(p) /\ DescOK(p) /\ TypeOK
  BY DEF Inv, Local
<1>2. call[p].op \in IdOps /\ msg[p].id = call[p].id
  BY <1>1 DEF CallOK, Asked, IdOps
<1>3. call[p].s \in Slot /\ fd[p][call[p].s] # NULL
  BY <1>1, <1>2, Fields DEF CallOK
<1>4. fd[p][call[p].s] \in Entry
  BY <1>1, <1>3, Fields
<1>5. call[p].id.e = fd[p][call[p].s] /\ call[p].id = ff[fd[p][call[p].s]].id
  BY <1>1, <1>2 DEF DescOK
<1>6. /\ file[p][call[p].s] # None
      /\ ff[fd[p][call[p].s]].id = [e |-> fd[p][call[p].s], g |-> tab[fd[p][call[p].s]].g]
      /\ tab[fd[p][call[p].s]].o_file = file[p][call[p].s]
  BY <1>1, <1>3 DEF DescOK
<1>7. file[p][call[p].s] \in File
  BY <1>1, <1>3, <1>6, Fields
<1>8. Mapped(fd[p][call[p].s]) # {}
  <2>1. <<p, call[p].s>> \in Mapped(fd[p][call[p].s])
    BY <1>3 DEF Mapped
  <2> QED BY <2>1
<1>9. tab[msg[p].id.e].g = msg[p].id.g
  BY <1>2, <1>5, <1>6
<1>10. Lookup(msg[p].id)
  BY <1>2, <1>5, <1>8, <1>9 DEF Lookup
<1> QED BY <1>2, <1>3, <1>4, <1>5, <1>6, <1>7, <1>10

(* An answer, and nothing else *)
LEMMA PlainAnswer ==
  ASSUME Inv, TypeOK', NEW p \in Procs, msg[p].st = "sent", NEW r \in {"ok", "fail"}, Answer(p, r),
         UNCHANGED <<call, alive, fd, page, tab, ff, blk, file, cut, loose>>,
         \/ call[p].op = "open" /\ r = "fail"
         \/ call[p].op = "close" /\ r = "ok"
         \/ call[p].op = "path"
  PROVE  Inv'
<1>1. PICK m \in Msg : msg' = [msg EXCEPT ![p] = m] /\ m.st = "done" /\ m.r = r
  BY AnswerFacts DEF Inv
<1>2. msg'[p] = m /\ \A q \in Procs : q # p => call'[q] = call[q] /\ msg'[q] = msg[q]
  BY <1>1 DEF Inv, TypeOK
<1>3. CallOK(p) /\ SizeOK(p) /\ DescOK(p)
  BY DEF Inv, Local
<1>4. CallOK(p)'
  BY <1>1, <1>2, <1>3 DEF CallOK
<1>5. SizeOK(p)'
  BY <1>1, <1>2, <1>3 DEF SizeOK
<1>6. call'[p].op \in IdOps =>
        call'[p].id.e = fd[p][call'[p].s] /\ call'[p].id = ff[fd[p][call'[p].s]].id
  BY <1>3 DEF DescOK
<1>7. \A s \in Slot, i \in Index : Pending(p, s, i) => Pending(p, s, i)'
  BY DEF Pending
<1>8. \A s \in Slot, i \in Index : Reached(p, s, i)' => Reached(p, s, i)
  BY DEF Reached
<1>9. CallStep(p)
  BY <1>4, <1>5, <1>6, <1>7, <1>8 DEF CallStep
<1>10. Quiet(p)
  BY <1>2, TalkIsQuiet
<1> QED BY <1>9, <1>10, QuietInv

(* The requests that touch no table entry, block or page. *)
LEMMA PlainServe ==
  ASSUME Inv, TypeOK', NEW p \in Procs, msg[p].st = "sent", UNCHANGED <<call, ops>>,
         \/ msg[p].type = "OPEN" /\ OpenNoEntry(p)
         \/ msg[p].type = "CLOSE" /\ CloseFile(p)
         \/ msg[p].type = "CREATE" /\ CreateFile(p)
         \/ msg[p].type \in {"REMOVE", "CREATE"} /\ PathFails(p)
         \/ msg[p].type = "SYNC" /\ Sync(p)
  PROVE  Inv'
<1>1. Asked(p)
  BY DEF Inv, Local, CallOK
<1>2. CASE msg[p].type = "OPEN" /\ OpenNoEntry(p)
  BY <1>1, <1>2, PlainAnswer DEF OpenNoEntry, Asked, clientVars, tableVars, diskVars, history
<1>3. CASE msg[p].type = "CLOSE" /\ CloseFile(p)
  BY <1>1, <1>3, PlainAnswer DEF CloseFile, Asked, clientVars, tableVars, diskVars, history
<1>4. CASE msg[p].type = "CREATE" /\ CreateFile(p)
  BY <1>1, <1>4, PlainAnswer DEF CreateFile, Asked, clientVars, tableVars, history
<1>5. CASE msg[p].type \in {"REMOVE", "CREATE"} /\ PathFails(p)
  BY <1>1, <1>5, PlainAnswer DEF PathFails, Asked, clientVars, tableVars, diskVars, history
<1>6. CASE msg[p].type = "SYNC" /\ Sync(p)
  BY <1>1, <1>6, PlainAnswer DEF Sync, Asked, clientVars, tableVars, diskVars, history
<1> QED BY <1>2, <1>3, <1>4, <1>5, <1>6

(* The call of p stays as it is. *)
LEMMA SameCall ==
  ASSUME Inv, NEW p \in Procs, UNCHANGED <<call, msg, alive, fd>>,
         \A s \in Slot : fd[p][s] # NULL => ff'[fd[p][s]].size = ff[fd[p][s]].size,
         \A s \in Slot : <<p, s>> \in loose => <<p, s>> \in loose'
  PROVE  CallStep(p)
<1>1. CallOK(p) /\ SizeOK(p) /\ DescOK(p)
  BY DEF Inv, Local
<1>2. CallOK(p)'
  BY <1>1 DEF CallOK, Asked
<1>3. call[p].op \in IdOps \union {"shrink", "write"} => call[p].s \in Slot /\ fd[p][call[p].s] # NULL
  BY <1>1, Fields DEF CallOK, Inv
<1>4. SizeOK(p)'
  BY <1>1, <1>3 DEF SizeOK
<1>5. call'[p].op \in IdOps =>
        call'[p].id.e = fd[p][call'[p].s] /\ call'[p].id = ff[fd[p][call'[p].s]].id
  BY <1>1 DEF DescOK
<1>6. \A s \in Slot, i \in Index : Pending(p, s, i) => Pending(p, s, i)'
  BY DEF Pending
<1>7. \A s \in Slot, i \in Index : fd[p][s] # NULL /\ Reached(p, s, i)' => Reached(p, s, i)
  BY DEF Reached
<1> QED BY <1>2, <1>4, <1>5, <1>6, <1>7 DEF CallStep

(* The server panics. *)
LEMMA PanicsInv ==
  ASSUME Inv, TypeOK', NEW p \in Procs, Panics(p), UNCHANGED <<call, ops>>
  PROVE  Inv'
<1>1. UNCHANGED <<alive, fd, page, tab, ff, blk, msg, file, cut, loose, call>>
  BY DEF Panics, clientVars, tableVars, history
<1> QED BY <1>1, TalkIsQuiet, SameCall, QuietInv

(* The call of p waits, and is answered. *)
LEMMA AnswerStep ==
  ASSUME Inv, NEW p \in Procs, msg[p].st = "sent", NEW r \in {"ok", "fail"}, Answer(p, r),
         UNCHANGED <<call, alive, fd>>,
         \A s \in Slot : fd[p][s] # NULL => ff'[fd[p][s]].size = ff[fd[p][s]].size,
         \A s \in Slot : <<p, s>> \in loose => <<p, s>> \in loose',
         call[p].op = "open" => r = "fail",
         call[p].op \in {"close", "size", "undo"} => r = "ok",
         call[p].op \in {"map", "grow"} => <<p, call[p].s>> \in loose'
  PROVE  CallStep(p) /\ \A q \in Procs : q # p => call'[q] = call[q] /\ msg'[q] = msg[q]
<1>1. PICK m \in Msg : msg' = [msg EXCEPT ![p] = m] /\ m.st = "done" /\ m.r = r
  BY AnswerFacts DEF Inv
<1>2. msg'[p] = m /\ \A q \in Procs : q # p => call'[q] = call[q] /\ msg'[q] = msg[q]
  BY <1>1 DEF Inv, TypeOK
<1>3. CallOK(p) /\ SizeOK(p) /\ DescOK(p)
  BY DEF Inv, Local
<1>4. CallOK(p)'
  BY <1>1, <1>2, <1>3 DEF CallOK
<1>5. call[p].op \in IdOps \union {"shrink", "write"} => call[p].s \in Slot /\ fd[p][call[p].s] # NULL
  BY <1>3, Fields DEF CallOK, Inv
<1>6. SizeOK(p)'
  BY <1>1, <1>2, <1>3, <1>5 DEF SizeOK
<1>7. call'[p].op \in IdOps =>
        call'[p].id.e = fd[p][call'[p].s] /\ call'[p].id = ff[fd[p][call'[p].s]].id
  BY <1>3 DEF DescOK
<1>8. \A s \in Slot, i \in Index : Pending(p, s, i) => Pending(p, s, i)'
  BY DEF Pending
<1>9. \A s \in Slot, i \in Index :
        fd[p][s] # NULL /\ <<p, s>> \notin loose' /\ Reached(p, s, i)' => Reached(p, s, i)
  BY DEF Reached
<1> QED BY <1>2, <1>4, <1>6, <1>7, <1>8, <1>9 DEF CallStep

(* The entry open_alloc takes is mapped by nobody. *)
LEMMA FreeIsUnmapped ==
  ASSUME NEW e \in Entry, FirstFree(e), NEW p \in Procs, NEW s \in Slot
  PROVE  fd[p][s] # e
<1>1. fd[p][s] = e => <<p, s>> \in Mapped(e)
  BY DEF Mapped
<1> QED BY <1>1 DEF FirstFree, FreeEntry

(* serve_open of a path that does not exist: the entry it took has a new id. *)
LEMMA OpenNoFileInv ==
  ASSUME Inv, TypeOK', NEW p \in Procs, msg[p].st = "sent", msg[p].type = "OPEN",
         OpenNoFile(p), UNCHANGED <<call, ops>>
  PROVE  Inv'
<1>1. PICK e \in Entry :
        /\ FirstFree(e)
        /\ tab' = [tab EXCEPT ![e].page = TRUE, ![e].g = NewId(e).g]
        /\ ff' = [ff EXCEPT ![e] = NoFf]
  BY DEF OpenNoFile
<1>2. \A q \in Procs, s \in Slot : fd[q][s] # e
  BY <1>1, FreeIsUnmapped
<1>3. \A d \in Entry : d # e => tab'[d] = tab[d] /\ ff'[d] = ff[d]
  BY <1>1 DEF Inv, TypeOK
<1>4. \A q \in Procs, s \in Slot : fd[q][s] # NULL =>
        tab'[fd[q][s]] = tab[fd[q][s]] /\ ff'[fd[q][s]] = ff[fd[q][s]]
  BY <1>2, <1>3, Fields DEF Inv
<1>5. UNCHANGED <<call, alive, fd, page, blk, file, cut, loose>> /\ Answer(p, "fail")
  BY DEF OpenNoFile, clientVars, diskVars, history
<1>6. call[p].op = "open"
  BY DEF Inv, Local, CallOK, Asked
<1>7. CallStep(p) /\ \A q \in Procs : q # p => call'[q] = call[q] /\ msg'[q] = msg[q]
  BY <1>4, <1>5, <1>6, AnswerStep
<1>8. Quiet(p)
  BY <1>4, <1>5, <1>7 DEF Quiet
<1> QED BY <1>7, <1>8, QuietInv

(* file_get_block takes no block away from a file. *)
LEMMA GetBlockKeeps ==
  ASSUME TypeOK, NEW f \in File, NEW n, NEW b \in Block \union {Boot}, GetBlock(f, n, b)
  PROVE  /\ b \in Block /\ n \in Index => blk'[f][n] = b
         /\ \A g \in File, i \in Index : blk[g][i] \in Block => blk'[g][i] = blk[g][i]
<1>1. CASE b = Boot /\ UNCHANGED blk
  BY <1>1, Sets
<1>2. CASE /\ IF blk[f][n] # None THEN b = blk[f][n] ELSE b \in Block \ used
           /\ blk' = [blk EXCEPT ![f][n] = b]
  BY <1>2, Sets DEF TypeOK
<1> QED BY <1>1, <1>2 DEF GetBlock

(* serve_dirty, which can allocate the block. *)
LEMMA DirtyBlockInv ==
  ASSUME Inv, TypeOK', NEW p \in Procs, msg[p].st = "sent", msg[p].type = "DIRTY",
         DirtyBlock(p), UNCHANGED <<call, ops>>
  PROVE  Inv'
<1>1. PICK b \in Block \union {Boot} : GetBlock(tab[msg[p].id.e].o_file, msg[p].n, b)
  BY DEF DirtyBlock
<1>2. tab[msg[p].id.e].o_file \in File /\ call[p].op = "dirty"
  <2>1. call[p].op = "dirty"
    BY DEF Inv, Local, CallOK, Asked
  <2> QED BY <2>1, LookupFinds
<1>3. \A g \in File, i \in Index : blk[g][i] \in Block => blk'[g][i] = blk[g][i]
  BY <1>1, <1>2, GetBlockKeeps DEF Inv
<1>4. UNCHANGED <<call, alive, fd, page, tab, ff, file, cut, loose>> /\ Answer(p, "ok")
  BY DEF DirtyBlock, clientVars, tableVars, history
<1>5. CallStep(p) /\ \A q \in Procs : q # p => call'[q] = call[q] /\ msg'[q] = msg[q]
  BY <1>2, <1>4, AnswerStep
<1>6. \A q \in Procs, s \in Slot, i \in Index :
        page[q][s][i] \in Block /\ file[q][s] # None /\ page[q][s][i] = blk[file[q][s]][i] =>
          page[q][s][i] = blk'[file[q][s]][i]
  BY <1>3, Fields DEF Inv
<1>7. Quiet(p)
  BY <1>4, <1>5, <1>6 DEF Quiet
<1> QED BY <1>5, <1>7, QuietInv

(* A block that cannot be allocated. *)
LEMMA BlockFailsInv ==
  ASSUME Inv, TypeOK', NEW p \in Procs, msg[p].st = "sent", msg[p].type \in {"MAP", "DIRTY"},
         BlockFails(p), UNCHANGED <<call, ops>>
  PROVE  Inv'
<1>1. UNCHANGED <<call, alive, fd, page, tab, ff, blk, file, cut>> /\ Answer(p, "fail")
  BY DEF BlockFails, clientVars, tableVars, diskVars
<1>2. loose' = loose \union {<<p, call[p].s>>}
  BY DEF BlockFails
<1>3. call[p].op \in {"map", "grow", "dirty"}
  BY DEF Inv, Local, CallOK, Asked
<1>4. CallStep(p) /\ \A q \in Procs : q # p => call'[q] = call[q] /\ msg'[q] = msg[q]
  BY <1>1, <1>2, <1>3, AnswerStep
<1>5. Quiet(p)
  BY <1>1, <1>2, <1>4 DEF Quiet
<1> QED BY <1>4, <1>5, QuietInv

(* A page whose block leaves the file is noted, or ftruncate unmaps it. *)
LEMMA TruncateNotes ==
  ASSUME TypeOK, NEW p \in Procs, NEW f \in File, NEW n \in Size, Truncate(f, n),
         cut' = cut \union LeftMapped(p, f, n), UNCHANGED <<file, call>>,
         call[p].op = "size" => n = call[p].new,
         NEW q \in Procs, NEW s \in Slot, NEW i \in Index,
         page[q][s][i] \in Block, file[q][s] # None, page[q][s][i] = blk[file[q][s]][i]
  PROVE  \/ <<q, s, i>> \in cut'
         \/ page[q][s][i] = blk'[file[q][s]][i]
         \/ q = p /\ Pending(p, s, i)'
<1> USE Sets
<1>1. file[q][s] \in File
  BY Fields
<1>2. CASE file[q][s] # f \/ i \notin {n, n + 1}
  <2>1. blk'[file[q][s]][i] = blk[file[q][s]][i]
    BY <1>1, <1>2 DEF Truncate, TypeOK
  <2> QED BY <2>1
<1>3. CASE file[q][s] = f /\ i \in {n, n + 1} /\ <<q, s, i>> \in LeftMapped(p, f, n)
  BY <1>3
<1>4. CASE file[q][s] = f /\ i \in {n, n + 1} /\ <<q, s, i>> \notin LeftMapped(p, f, n)
  <2>1. i >= n
    BY <1>4
  <2>2. q = p /\ s = call[p].s /\ call[p].op = "size" /\ i < call[p].old
    BY <1>4, <2>1 DEF LeftMapped
  <2> QED BY <2>1, <2>2 DEF Pending
<1> QED BY <1>2, <1>3, <1>4

(* serve_set_size: the pages of blocks that leave the file become cut. *)
LEMMA SetSizeInv ==
  ASSUME Inv, TypeOK', NEW p \in Procs, msg[p].st = "sent", msg[p].type = "SET_SIZE",
         SetSize(p), UNCHANGED <<call, ops>>
  PROVE  Inv'
<1> DEFINE f == tab[msg[p].id.e].o_file  n == msg[p].n
<1>1. f \in File /\ n \in Size
  BY LookupFinds, Fields DEF Inv
<1>2. call[p].op \in {"size", "undo"} /\ (call[p].op = "size" => n = call[p].new)
  BY DEF Inv, Local, CallOK, Asked
<1>3. \/ Truncate(f, n) /\ cut' = cut \union LeftMapped(p, f, n)
      \/ UNCHANGED <<blk, cut>>
  BY DEF SetSize
<1>4. UNCHANGED <<call, alive, fd, page, tab, ff, file, loose>> /\ Answer(p, "ok")
  BY DEF SetSize, clientVars, tableVars
<1>5. CallStep(p) /\ \A q \in Procs : q # p => call'[q] = call[q] /\ msg'[q] = msg[q]
  BY <1>2, <1>4, AnswerStep
<1> HIDE DEF f, n
<1>6. \A q \in Procs, s \in Slot, i \in Index :
        page[q][s][i] \in Block /\ file[q][s] # None /\ page[q][s][i] = blk[file[q][s]][i] =>
          \/ <<q, s, i>> \in cut'
          \/ page[q][s][i] = blk'[file[q][s]][i]
          \/ q = p /\ Pending(p, s, i)'
  <2>1. CASE UNCHANGED <<blk, cut>>
    BY <2>1
  <2>2. CASE Truncate(f, n) /\ cut' = cut \union LeftMapped(p, f, n)
    BY <1>1, <1>2, <1>4, <2>2, TruncateNotes DEF Inv
  <2> QED BY <1>3, <2>1, <2>2
<1>7. \A q \in Procs, s \in Slot, i \in Index : <<q, s, i>> \in cut => <<q, s, i>> \in cut'
  BY <1>3
<1>8. Quiet(p)
  BY <1>4, <1>5, <1>6, <1>7 DEF Quiet
<1> QED BY <1>5, <1>8, QuietInv

(* serve_remove, which truncates the file. *)
LEMMA RemoveFileInv ==
  ASSUME Inv, TypeOK', NEW p \in Procs, msg[p].st = "sent", msg[p].type = "REMOVE",
         RemoveFile(p), UNCHANGED <<call, ops>>
  PROVE  Inv'
<1>1. PICK f \in File :
        \/ Truncate(f, 0) /\ cut' = cut \union LeftMapped(p, f, 0)
        \/ UNCHANGED <<blk, cut>>
  BY DEF RemoveFile
<1>2. call[p].op = "path"
  BY DEF Inv, Local, CallOK, Asked
<1>3. UNCHANGED <<call, alive, fd, page, tab, ff, file, loose>> /\ Answer(p, "ok")
  BY DEF RemoveFile, clientVars, tableVars
<1>4. CallStep(p) /\ \A q \in Procs : q # p => call'[q] = call[q] /\ msg'[q] = msg[q]
  BY <1>2, <1>3, AnswerStep
<1>5. \A q \in Procs, s \in Slot, i \in Index :
        page[q][s][i] \in Block /\ file[q][s] # None /\ page[q][s][i] = blk[file[q][s]][i] =>
          \/ <<q, s, i>> \in cut'
          \/ page[q][s][i] = blk'[file[q][s]][i]
          \/ q = p /\ Pending(p, s, i)'
  <2>1. CASE UNCHANGED <<blk, cut>>
    BY <2>1
  <2>2. CASE Truncate(f, 0) /\ cut' = cut \union LeftMapped(p, f, 0)
    BY <1>2, <1>3, <2>2, TruncateNotes, Sets DEF Inv
  <2> QED BY <1>1, <2>1, <2>2
<1>6. \A q \in Procs, s \in Slot, i \in Index : <<q, s, i>> \in cut => <<q, s, i>> \in cut'
  BY <1>1
<1>7. Quiet(p)
  BY <1>3, <1>4, <1>5, <1>6 DEF Quiet
<1> QED BY <1>4, <1>7, QuietInv

(* serve_map: the client maps the block of its file. *)
LEMMA MapBlockInv ==
  ASSUME Inv, TypeOK', NEW p \in Procs, msg[p].st = "sent", msg[p].type = "MAP",
         MapBlock(p), UNCHANGED <<call, ops>>
  PROVE  Inv'
<1> DEFINE s == call[p].s  n == msg[p].n  f == file[p][s]
<1> USE Sets
<1>1. PICK b \in Block \union {Boot} :
        /\ GetBlock(tab[msg[p].id.e].o_file, n, b)
        /\ page' = [page EXCEPT ![p][s][n] = b]
        /\ cut' = cut \ {<<p, s, n>>}
        /\ loose' = IF b = Boot THEN loose \union {<<p, s>>} ELSE loose
  BY DEF MapBlock
<1>2. PICK m \in Msg : msg' = [msg EXCEPT ![p] = m] /\ m.st = "done" /\ m.r = "ok"
  BY AnswerFacts DEF Inv, MapBlock
<1>3. msg'[p] = m /\ \A q \in Procs : q # p => msg'[q] = msg[q]
  BY <1>2 DEF Inv, TypeOK
<1>4. UNCHANGED <<alive, fd, tab, ff, file, call>>
  BY DEF MapBlock, tableVars
<1>5. CallOK(p) /\ DescOK(p) /\ SizeOK(p) /\ PagesOK(p) /\ FilledOK(p) /\ Alone(p) /\ TypeOK
  BY DEF Inv, Local
<1>6. call[p].op \in {"map", "grow"} /\ n = call[p].i
  BY <1>5 DEF CallOK, Asked
<1>7. s \in Slot /\ f \in File /\ fd[p][s] \in Entry /\ tab[msg[p].id.e].o_file = f
  BY LookupFinds
<1>8. n \in Index /\ (<<p, s>> \notin loose => n < ff[fd[p][s]].size)
  <2>1. call[p].op = "map" => n < call[p].end
    BY <1>5, <1>6 DEF CallOK
  <2>2. call[p].op = "grow" => n < call[p].new
    BY <1>5, <1>6 DEF CallOK
  <2>3. n \in Index
    BY <1>5, <1>6, <2>1, <2>2, Fields
  <2>4. <<p, s>> \notin loose => n < ff[fd[p][s]].size
    BY <1>5, <1>6, <2>1, <2>2 DEF SizeOK, IdOps
  <2> QED BY <2>3, <2>4
<1> HIDE DEF s, n, f
<1>9. (b \in Block => blk'[f][n] = b) /\ \A g \in File, i \in Index : blk[g][i] \in Block => blk'[g][i] = blk[g][i]
  BY <1>1, <1>5, <1>7, <1>8, GetBlockKeeps
<1>10. /\ page'[p][s][n] = b
       /\ \A q \in Procs : q # p => page'[q] = page[q]
       /\ \A t \in Slot, i \in Index : t # s \/ i # n => page'[p][t][i] = page[p][t][i]
  BY <1>1, <1>5, <1>7, <1>8 DEF TypeOK
<1>11. \A q \in Procs, t \in Slot, i \in Index :
         page[q][t][i] \in Block /\ file[q][t] # None /\ page[q][t][i] = blk[file[q][t]][i] =>
           page[q][t][i] = blk'[file[q][t]][i]
  <2>1. \A q \in Procs, t \in Slot : file[q][t] # None => file[q][t] \in File
    BY <1>5, Fields
  <2> QED BY <1>9, <2>1
<1>12. /\ \A q \in Procs, t \in Slot : q # p => (<<q, t>> \in loose' <=> <<q, t>> \in loose)
       /\ \A t \in Slot : <<p, t>> \in loose => <<p, t>> \in loose'
       /\ b \in Block \/ <<p, s>> \in loose'
  BY <1>1
<1>13. ASSUME NEW q \in Procs, q # p PROVE Local(q)'
  <2>1. \A t \in Slot, i \in Index : <<q, t, i>> \in cut => <<q, t, i>> \in cut'
    BY <1>1, <1>13
  <2>2. Unaffected(p, q)
    BY <1>3, <1>4, <1>10, <1>11, <1>13, <1>12, <2>1 DEF Unaffected
  <2> QED BY <1>13, <2>2, OthersInv
<1>14. CallOK(p)' /\ SizeOK(p)' /\ DescOK(p)' /\ Alone(p)'
  <2>1. CallOK(p)'
    BY <1>2, <1>3, <1>4, <1>5, <1>6 DEF CallOK
  <2>2. SizeOK(p)'
    BY <1>2, <1>3, <1>4, <1>5, <1>6, <1>7, <1>12 DEF SizeOK, s
  <2>3. DescOK(p)' /\ Alone(p)'
    BY <1>4, <1>5, <1>12 DEF DescOK, Copied, Alone
  <2> QED BY <2>1, <2>2, <2>3
<1>15. PagesOK(p)'
  <2> SUFFICES ASSUME NEW t \in Slot, NEW i \in Index, page'[p][t][i] \in Block
               PROVE  \/ <<p, t, i>> \in cut'
                      \/ /\ file[p][t] # None /\ page'[p][t][i] = blk'[file[p][t]][i]
                         /\ fd[p][t] # NULL /\ <<p, t>> \notin loose' => i < ff[fd[p][t]].size
    BY <1>4 DEF PagesOK
  <2>1. CASE t = s /\ i = n
    BY <1>7, <1>8, <1>9, <1>10, <1>12, <2>1 DEF f
  <2>2. CASE t # s \/ i # n
    <3>1. ~ Pending(p, t, i)
      BY <1>6 DEF Pending
    <3>2. page'[p][t][i] = page[p][t][i]
      BY <1>10, <2>2
    <3>3. \/ <<p, t, i>> \in cut
          \/ /\ file[p][t] # None /\ page[p][t][i] = blk[file[p][t]][i]
             /\ fd[p][t] # NULL /\ <<p, t>> \notin loose => i < ff[fd[p][t]].size
      BY <1>5, <3>1, <3>2 DEF PagesOK
    <3>4. <<p, t, i>> \in cut => <<p, t, i>> \in cut'
      BY <1>1, <2>2
    <3> QED BY <1>11, <1>12, <3>2, <3>3, <3>4
  <2> QED BY <2>1, <2>2
<1>16. FilledOK(p)'
  <2> SUFFICES ASSUME NEW t \in Slot, NEW i \in Index, fd[p][t] # NULL, <<p, t>> \notin loose',
                      Reached(p, t, i)'
               PROVE  page'[p][t][i] \in Block
    BY <1>4 DEF FilledOK
  <2>1. CASE t = s /\ i = n
    BY <1>10, <1>12, <2>1
  <2>2. CASE t # s \/ i # n
    <3>1. Reached(p, t, i)
      BY <1>4, <1>6, <2>2 DEF Reached, s
    <3> QED BY <1>5, <1>10, <1>12, <2>2, <3>1 DEF FilledOK
  <2> QED BY <2>1, <2>2
<1> QED BY <1>13, <1>14, <1>15, <1>16 DEF Inv, Local

(* serve_open: a free entry gets an id, a file and its size. *)
LEMMA OpenFileInv ==
  ASSUME Inv, TypeOK', NEW p \in Procs, msg[p].st = "sent", msg[p].type = "OPEN",
         OpenFile(p), UNCHANGED <<call, ops>>
  PROVE  Inv'
<1> DEFINE s == call[p].s
<1> USE Sets
<1>1. PICK e \in Entry, f \in File :
        /\ FirstFree(e)
        /\ tab' = [tab EXCEPT ![e] = [page |-> TRUE, g |-> NewId(e).g, o_file |-> f]]
        /\ ff' = [ff EXCEPT ![e] = [id |-> NewId(e), size |-> fsize[f], off |-> 0]]
        /\ fd' = [fd EXCEPT ![p][s] = e]
        /\ file' = [file EXCEPT ![p][s] = f]
        /\ loose' = loose \ {<<p, s>>}
        /\ Answer(p, "ok")
        /\ UNCHANGED <<alive, page, diskVars, cut>>
  BY DEF OpenFile
<1>2. PICK m \in Msg : msg' = [msg EXCEPT ![p] = m] /\ m.st = "done" /\ m.r = "ok"
  BY <1>1, AnswerFacts DEF Inv
<1>3. msg'[p] = m /\ \A q \in Procs : q # p => msg'[q] = msg[q]
  BY <1>2 DEF Inv, TypeOK
<1>4. UNCHANGED <<alive, page, blk, cut, call>>
  BY <1>1 DEF diskVars
<1>5. CallOK(p) /\ DescOK(p) /\ SizeOK(p) /\ PagesOK(p) /\ FilledOK(p) /\ Alone(p) /\ TypeOK
  BY DEF Inv, Local
<1>6. call[p].op = "open" /\ s \in Slot /\ fd[p][s] = NULL /\ file[p][s] = None /\ p \in alive
  <2>1. call[p].op = "open"
    BY <1>5 DEF CallOK, Asked
  <2>2. s \in Slot
    BY <1>5, Fields
  <2>3. fd[p][s] = NULL /\ p \in alive
    BY <1>5, <2>1 DEF CallOK
  <2> QED BY <1>5, <2>1, <2>2, <2>3 DEF DescOK, Copied
<1> HIDE DEF s
<1>7. \A q \in Procs, t \in Slot : fd[q][t] # e
  BY <1>1, FreeIsUnmapped
<1>8. /\ fd'[p][s] = e /\ file'[p][s] = f
      /\ \A t \in Slot : t # s => fd'[p][t] = fd[p][t] /\ file'[p][t] = file[p][t]
      /\ \A q \in Procs : q # p => fd'[q] = fd[q] /\ file'[q] = file[q]
  BY <1>1, <1>5, <1>6 DEF TypeOK
<1>9. /\ tab'[e].page /\ tab'[e].o_file = f
      /\ ff'[e].id = [e |-> e, g |-> tab'[e].g]
      /\ \A d \in Entry : d # e => tab'[d] = tab[d] /\ ff'[d] = ff[d]
  BY <1>1, <1>5 DEF TypeOK, NewId
<1>10. \A q \in Procs, t \in Slot : fd[q][t] # NULL =>
         tab'[fd[q][t]] = tab[fd[q][t]] /\ ff'[fd[q][t]] = ff[fd[q][t]]
  BY <1>5, <1>7, <1>9, Fields
<1>11. \A q \in Procs, t \in Slot : q # p \/ t # s => (<<q, t>> \in loose' <=> <<q, t>> \in loose)
  BY <1>1
<1>12. ASSUME NEW q \in Procs, q # p PROVE Local(q)'
  <2>1. \A r \in Procs, t \in Slot : fd'[r][t] = fd[r][t] \/ Mapped(fd'[r][t]) = {}
    <3>1. Mapped(e) = {}
      BY <1>1 DEF FirstFree, FreeEntry
    <3> QED BY <1>8, <3>1
  <2>2. Unaffected(p, q)
    BY <1>3, <1>4, <1>8, <1>10, <1>11, <1>12, <2>1 DEF Unaffected
  <2> QED BY <1>12, <2>2, OthersInv
<1>13. CallOK(p)'
  BY <1>2, <1>3, <1>4, <1>5, <1>6, <1>8 DEF CallOK, s, IdOps
<1>14. SizeOK(p)'
  BY <1>4, <1>6 DEF SizeOK, IdOps
<1>15. DescOK(p)'
  <2>1. call'[p].op \notin IdOps
    BY <1>4, <1>6 DEF IdOps
  <2>2. ASSUME NEW t \in Slot, t # s
        PROVE  /\ fd'[p][t] = NULL => file'[p][t] = None
               /\ fd'[p][t] # NULL =>
                    /\ file'[p][t] # None
                    /\ tab'[fd'[p][t]].page
                    /\ ff'[fd'[p][t]].id = [e |-> fd'[p][t], g |-> tab'[fd'[p][t]].g]
                    /\ tab'[fd'[p][t]].o_file = file'[p][t]
    BY <1>5, <1>6, <1>8, <1>10, <2>2 DEF DescOK, Copied
  <2>3. /\ fd'[p][s] # NULL /\ file'[p][s] # None
        /\ tab'[fd'[p][s]].page
        /\ ff'[fd'[p][s]].id = [e |-> fd'[p][s], g |-> tab'[fd'[p][s]].g]
        /\ tab'[fd'[p][s]].o_file = file'[p][s]
    BY <1>8, <1>9
  <2> QED BY <1>4, <1>6, <2>1, <2>2, <2>3 DEF DescOK
<1>16. Alone(p)'
  <2> SUFFICES ASSUME NEW t \in Slot, fd'[p][t] # NULL, <<p, t>> \notin loose',
                      NEW q \in Procs, NEW u \in Slot, fd'[q][u] = fd'[p][t]
               PROVE  q = p /\ u = t
    BY DEF Alone
  <2>1. CASE t = s
    BY <1>7, <1>8, <2>1
  <2>2. CASE t # s
    <3>1. fd'[p][t] = fd[p][t] /\ <<p, t>> \notin loose
      BY <1>8, <1>11, <2>2
    <3>2. fd'[q][u] = fd[q][u]
      BY <1>7, <1>8, <3>1
    <3> QED BY <1>5, <3>1, <3>2 DEF Alone
  <2> QED BY <2>1, <2>2
<1>17. PagesOK(p)'
  <2> SUFFICES ASSUME NEW t \in Slot, NEW i \in Index, page[p][t][i] \in Block
               PROVE  \/ <<p, t, i>> \in cut
                      \/ /\ file'[p][t] # None /\ page[p][t][i] = blk[file'[p][t]][i]
                         /\ fd'[p][t] # NULL /\ <<p, t>> \notin loose' => i < ff'[fd'[p][t]].size
    BY <1>4 DEF PagesOK
  <2>1. \/ <<p, t, i>> \in cut
        \/ /\ file[p][t] # None /\ page[p][t][i] = blk[file[p][t]][i]
           /\ fd[p][t] # NULL /\ <<p, t>> \notin loose => i < ff[fd[p][t]].size
    BY <1>5, <1>6 DEF PagesOK, Pending
  <2>2. CASE t = s
    BY <1>6, <2>1, <2>2
  <2>3. CASE t # s
    BY <1>8, <1>10, <1>11, <2>1, <2>3
  <2> QED BY <2>2, <2>3
<1>18. FilledOK(p)'
  <2> SUFFICES ASSUME NEW t \in Slot, NEW i \in Index, fd'[p][t] # NULL, <<p, t>> \notin loose',
                      Reached(p, t, i)'
               PROVE  page[p][t][i] \in Block
    BY <1>4 DEF FilledOK
  <2>1. t # s /\ i < ff'[fd'[p][t]].size
    BY <1>4, <1>6 DEF Reached, s
  <2>2. i < ff[fd[p][t]].size
    BY <1>8, <1>10, <2>1
  <2>3. Reached(p, t, i)
    BY <2>1, <2>2 DEF Reached, s
  <2> QED BY <1>5, <1>8, <1>11, <2>1, <2>3 DEF FilledOK
<1> QED BY <1>12, <1>13, <1>14, <1>15, <1>16, <1>17, <1>18 DEF Inv, Local

(* Every request the server handles. *)
LEMMA ServeInv ==
  ASSUME Inv, TypeOK', NEW p \in Procs, Serve(p)
  PROVE  Inv'
<1>1. msg[p].st = "sent" /\ UNCHANGED <<call, ops>>
  BY DEF Serve
<1>2. CASE msg[p].type \in {"MAP", "DIRTY", "SET_SIZE", "CLOSE"} /\ ServeId(p)
  <2>1. Lookup(msg[p].id)
    BY <1>1, <1>2, LookupFinds
  <2>2. \/ msg[p].type \in {"MAP", "DIRTY"} /\ BlockFails(p)
        \/ msg[p].type = "MAP" /\ MapBlock(p)
        \/ msg[p].type = "DIRTY" /\ DirtyBlock(p)
        \/ msg[p].type = "SET_SIZE" /\ SetSize(p)
        \/ msg[p].type = "CLOSE" /\ CloseFile(p)
    BY <1>2, <2>1 DEF ServeId
  <2> QED BY <1>1, <2>2, BlockFailsInv, MapBlockInv, DirtyBlockInv, SetSizeInv, PlainServe
<1>3. CASE msg[p].type = "OPEN" /\ (OpenNoEntry(p) \/ OpenNoFile(p) \/ OpenFile(p))
  BY <1>1, <1>3, PlainServe, OpenNoFileInv, OpenFileInv
<1>4. CASE msg[p].type = "REMOVE" /\ RemoveFile(p)
  BY <1>1, <1>4, RemoveFileInv
<1>5. CASE \/ msg[p].type = "CREATE" /\ CreateFile(p)
           \/ msg[p].type \in {"REMOVE", "CREATE"} /\ PathFails(p)
           \/ msg[p].type = "SYNC" /\ Sync(p)
  BY <1>1, <1>5, PlainServe
<1>6. CASE Panics(p)
  BY <1>1, <1>6, PanicsInv
<1> QED BY <1>2, <1>3, <1>4, <1>5, <1>6 DEF Serve

-----------------------------------------------------------------------------
(* The library: calls that ask the server or return *)

(* The variables that Local does not mention *)
RestOK ==
  /\ name \in [File -> Paths \union {NULL}] /\ fsize \in [File -> Size]
  /\ used \subseteq Block /\ up \in BOOLEAN /\ ops \in 0 .. MaxOps

(* Types, for a step that changes only calls and requests. *)
LEMMA TalkType ==
  ASSUME TypeOK, RestOK', NEW p \in Procs, NEW c \in Call, NEW m \in Msg,
         call' = [call EXCEPT ![p] = c], msg' = [msg EXCEPT ![p] = m] \/ UNCHANGED msg,
         UNCHANGED <<alive, fd, page, tab, ff, blk, file, cut, loose>>
  PROVE  TypeOK'
<1>1. call \in [Procs -> Call] /\ msg \in [Procs -> Msg]
  BY DEF TypeOK
<1>2. call' \in [Procs -> Call] /\ msg' \in [Procs -> Msg]
  BY <1>1
<1> QED BY <1>2 DEF TypeOK, RestOK

(* The call of p is now c, with the request m; nothing else has changed. *)
LEMMA TalkInv ==
  ASSUME Inv, RestOK', NEW p \in Procs, NEW c \in Call, NEW m \in Msg, Sets1(p, c, m),
         UNCHANGED <<alive, fd, page, tab, ff, blk, file, cut, loose>>,
         CallOK(p)', SizeOK(p)', call[p].op # "dup", c.op # "dup",
         c.op \in IdOps => c.id.e = fd[p][c.s] /\ c.id = ff[fd[p][c.s]].id,
         \A s \in Slot, i \in Index : Pending(p, s, i) => Pending(p, s, i)',
         \A s \in Slot, i \in Index :
           fd[p][s] # NULL /\ <<p, s>> \notin loose /\ Reached(p, s, i)' =>
             Reached(p, s, i) \/ page[p][s][i] \in Block
  PROVE  Inv'
<1>1. call'[p] = c /\ \A q \in Procs : q # p => call'[q] = call[q] /\ msg'[q] = msg[q]
  BY DEF Sets1, Inv, TypeOK
<1>2. CallStep(p)
  BY <1>1 DEF CallStep
<1>3. Quiet(p)
  BY <1>1, TalkIsQuiet
<1>4. TypeOK'
  BY TalkType DEF Sets1, Inv
<1> QED BY <1>2, <1>3, <1>4, QuietInv

(* The call and the request of the process that moves. *)
LEMMA Sets1Facts ==
  ASSUME Inv, NEW p \in Procs, NEW c, NEW m, Sets1(p, c, m)
  PROVE  call'[p] = c /\ msg'[p] = m
BY DEF Sets1, Inv, TypeOK

(* A call ends and changes nothing more. *)
LEMMA ReturnInv ==
  ASSUME Inv, RestOK', NEW p \in Procs, Return(p), call[p].op \notin {"size", "shrink", "dup"},
         UNCHANGED <<alive, fd, page, tab, ff, blk, file, cut, loose>>,
         \A i \in Index :
           /\ fd[p][call[p].s] # NULL /\ <<p, call[p].s>> \notin loose
           /\ i < ff[fd[p][call[p].s]].size
           => Reached(p, call[p].s, i)
  PROVE  Inv'
<1>1. Sets1(p, NoCall, NoMsg)
  BY DEF Return, Sets1
<1>2. call'[p] = NoCall /\ msg'[p] = NoMsg
  BY <1>1, Sets1Facts
<1>3. CallOK(p)' /\ SizeOK(p)'
  <2>1. CallOK(p)
    BY DEF Inv, Local
  <2>2. CallOK(p)'
    BY <1>2, <2>1, Nulls DEF CallOK, IdOps
  <2> QED BY <1>2, <2>2, Nulls DEF SizeOK, IdOps
<1>4. \A s \in Slot, i \in Index : ~ Pending(p, s, i)
  BY DEF Pending
<1>5. ASSUME NEW s \in Slot, NEW i \in Index, fd[p][s] # NULL, <<p, s>> \notin loose, Reached(p, s, i)'
      PROVE  Reached(p, s, i)
  <2>1. i < ff[fd[p][s]].size
    BY <1>2, <1>5, Nulls DEF Reached
  <2>2. CASE s = call[p].s
    BY <1>5, <2>1, <2>2
  <2>3. CASE s # call[p].s
    BY <2>1, <2>3 DEF Reached
  <2> QED BY <2>2, <2>3
<1>6. NoCall.op \notin IdOps
  BY Nulls DEF IdOps
<1> QED BY <1>1, <1>3, <1>4, <1>5, <1>6, Nulls, TalkInv

(* A call begins; no page of its slot is counted on that is not mapped. *)
LEMMA BeginTalk ==
  ASSUME Inv, RestOK', NEW p \in Procs, NEW c \in Call, NEW m \in Msg, Sets1(p, c, m),
         p \in alive, call[p].op = "none",
         c.op \in {"open", "dirty", "close", "path"},
         UNCHANGED <<alive, fd, page, tab, ff, blk, file, cut, loose>>,
         m.r # "inval", m.st # "done",
         m.st = "sent" => \/ c.op = "open" /\ m.type = "OPEN"
                          \/ c.op = "dirty" /\ m.type = "DIRTY" /\ m.id = c.id
                          \/ c.op = "close" /\ m.type = "CLOSE" /\ m.id = c.id
                          \/ c.op = "path" /\ m.type \in {"REMOVE", "CREATE", "SYNC"},
         c.op = "open" => fd[p][c.s] = NULL /\ c.i = 0,
         c.op = "dirty" => c.i < c.end,
         c.op \in {"dirty", "close"} =>
           /\ fd[p][c.s] # NULL /\ ff[fd[p][c.s]].size = c.end
           /\ c.id.e = fd[p][c.s] /\ c.id = ff[fd[p][c.s]].id
  PROVE  Inv'
<1>1. call'[p] = c /\ msg'[p] = m
  BY Sets1Facts
<1>2. CallOK(p)'
  BY <1>1 DEF CallOK, Asked, IdOps
<1>3. SizeOK(p)'
  BY <1>1 DEF SizeOK, IdOps
<1>4. \A s \in Slot, i \in Index : ~ Pending(p, s, i)
  BY DEF Pending
<1>5. \A s \in Slot, i \in Index : Reached(p, s, i)' => Reached(p, s, i)
  BY <1>1 DEF Reached
<1>6. c.op \in IdOps => c.id.e = fd[p][c.s] /\ c.id = ff[fd[p][c.s]].id
  BY DEF IdOps
<1> QED BY <1>2, <1>3, <1>4, <1>5, <1>6, TalkInv

(* open up to its first request. *)
LEMMA OpenInv ==
  ASSUME Inv, RestOK', NEW p \in Procs, NEW path \in Paths, Open(p, path)
  PROVE  Inv'
<1>1. PICK s \in Slot : FdAlloc(p, s) /\ Ask(p, AtOpen(NoCall, s), "OPEN", NoId, 0, path)
  BY DEF Open, AtOpen
<1> DEFINE c == AtOpen(NoCall, s)
<1>2. c \in Call /\ c.op = "open" /\ c.s = s /\ c.i = 0
  BY Nulls, AtOpenFacts
<1> HIDE DEF c
<1>3. Ask(p, c, "OPEN", NoId, 0, path)
  BY <1>1 DEF c
<1>4. fd[p][s] = NULL
  BY <1>1 DEF FdAlloc
<1>5. p \in alive /\ call[p].op = "none" /\ UNCHANGED <<alive, fd, page, tab, ff, blk, file, cut, loose>>
  BY DEF Open, Start, clientVars, tableVars, diskVars, history
<1>6. PICK m \in Msg : Sets1(p, c, m) /\ m.st = "sent" /\ m.type = "OPEN" /\ m.r = "ok"
  BY <1>2, <1>3, AskFacts, Types
<1> QED BY <1>2, <1>4, <1>5, <1>6, BeginTalk

(* remove, create and sync up to their request. *)
LEMMA PathInv ==
  ASSUME Inv, RestOK', NEW p \in Procs,
         (\E path \in Paths : Remove(p, path) \/ Create(p, path)) \/ SyncAll(p)
  PROVE  Inv'
<1> DEFINE c == AtOp(NoCall, "path")
<1>1. c \in Call /\ c.op = "path"
  BY Nulls, AtOpFacts DEF CallOp
<1>2. PICK type \in {"REMOVE", "CREATE", "SYNC"}, x \in Paths \union {NULL} : Ask(p, c, type, NoId, 0, x)
  BY DEF Remove, Create, SyncAll, AtOp
<1> HIDE DEF c
<1>3. PICK m \in Msg : Sets1(p, c, m) /\ m.st = "sent" /\ m.type = type /\ m.r = "ok"
  <2>1. type \in MsgType
    BY <1>2, Types
  <2> QED BY <1>1, <1>2, <2>1, AskFacts, Types
<1>4. p \in alive /\ call[p].op = "none" /\ UNCHANGED <<alive, fd, page, tab, ff, blk, file, cut, loose>>
  BY DEF Remove, Create, SyncAll, Start, clientVars, tableVars, diskVars, history
<1> QED BY <1>1, <1>2, <1>3, <1>4, BeginTalk

(* file_close asks to note the next block, or to close. *)
LEMMA DirtyFromFacts ==
  ASSUME NEW p \in Procs, NEW c \in Call, c.op = "dirty", DirtyFrom(p, c)
  PROVE  \E d \in Call, m \in Msg :
           /\ Sets1(p, d, m) /\ d.op \in {"dirty", "close"}
           /\ d.s = c.s /\ d.id = c.id /\ d.end = c.end /\ (d.op = "dirty" => d.i < d.end)
           /\ m.st = "sent" /\ m.r = "ok" /\ m.id = d.id
           /\ m.type = IF d.op = "dirty" THEN "DIRTY" ELSE "CLOSE"
<1>1. c.id \in FileId /\ c.i \in Size
  BY DEF Call
<1>2. CASE c.i < c.end
  <2>1. Ask(p, c, "DIRTY", c.id, c.i, NULL)
    BY <1>2 DEF DirtyFrom
  <2>2. PICK m \in Msg : Sets1(p, c, m) /\ m.st = "sent" /\ m.type = "DIRTY" /\ m.id = c.id /\ m.r = "ok"
    BY <1>1, <2>1, AskFacts, Types
  <2> QED BY <1>2, <2>2
<1>3. CASE ~ (c.i < c.end)
  <2> DEFINE d == AtOp(c, "close")
  <2>1. Ask(p, d, "CLOSE", c.id, 0, NULL)
    BY <1>3 DEF DirtyFrom, AtOp
  <2>2. d \in Call /\ d.op = "close" /\ d.s = c.s /\ d.id = c.id /\ d.end = c.end
    BY AtOpFacts DEF CallOp
  <2> HIDE DEF d
  <2>3. PICK m \in Msg : Sets1(p, d, m) /\ m.st = "sent" /\ m.type = "CLOSE" /\ m.id = c.id /\ m.r = "ok"
    BY <1>1, <2>1, <2>2, AskFacts, Types
  <2> QED BY <2>2, <2>3
<1> QED BY <1>2, <1>3

(* file_close up to its first request, for close and for dup. *)
LEMMA CloseFromInv ==
  ASSUME Inv, RestOK', NEW p \in Procs, NEW s \in Slot, NEW d \in Slot \union {NULL}, CloseFrom(p, s, d),
         fd[p][s] # NULL, p \in alive, call[p].op = "none",
         UNCHANGED <<alive, fd, page, tab, ff, blk, file, cut, loose>>
  PROVE  Inv'
<1> DEFINE e == fd[p][s]  c == AtDirty(NoCall, s, ff[e].id, ff[e].size, d)
<1>1. e \in Entry /\ ff[e].id \in FileId /\ ff[e].size \in Size
  BY Fields DEF Inv
<1>2. c \in Call /\ c.op = "dirty" /\ c.s = s /\ c.id = ff[e].id /\ c.end = ff[e].size
  BY <1>1, Nulls, AtDirtyFacts
<1>3. ff[e].id.e = e
  <2>1. DescOK(p)
    BY DEF Inv, Local
  <2>2. ff[fd[p][s]].id = [e |-> fd[p][s], g |-> tab[fd[p][s]].g]
    BY <2>1 DEF DescOK
  <2> QED BY <2>2
<1>4. DirtyFrom(p, c)
  BY DEF CloseFrom, AtDirty
<1> HIDE DEF e, c
<1>5. PICK x \in Call, m \in Msg :
        /\ Sets1(p, x, m) /\ x.op \in {"dirty", "close"}
        /\ x.s = c.s /\ x.id = c.id /\ x.end = c.end /\ (x.op = "dirty" => x.i < x.end)
        /\ m.st = "sent" /\ m.r = "ok" /\ m.id = x.id
        /\ m.type = IF x.op = "dirty" THEN "DIRTY" ELSE "CLOSE"
  BY <1>2, <1>4, DirtyFromFacts
<1>6. fd[p][x.s] = e /\ x.id = ff[e].id /\ x.end = ff[e].size
  BY <1>2, <1>5 DEF e
<1> QED BY <1>3, <1>5, <1>6, BeginTalk DEF e

(* close, and dup onto a slot in use, up to the first request. *)
LEMMA CloseDupInv ==
  ASSUME Inv, RestOK', NEW p \in Procs, NEW s \in Slot, NEW t \in Slot,
         Close(p, s) \/ (Dup(p, s, t) /\ fd[p][t] # NULL)
  PROVE  Inv'
<1>1. /\ p \in alive /\ call[p].op = "none" /\ fd[p][s] # NULL
      /\ UNCHANGED <<alive, fd, page, tab, ff, blk, file, cut, loose>>
  BY DEF Close, Dup, Start, clientVars, tableVars, diskVars, history
<1>2. CASE Close(p, s)
  BY <1>1, <1>2, CloseFromInv DEF Close
<1>3. CASE Dup(p, s, t) /\ fd[p][t] # NULL
  <2>1. CloseFrom(p, t, s)
    BY <1>3 DEF Dup
  <2> QED BY <1>1, <1>3, <2>1, CloseFromInv
<1> QED BY <1>2, <1>3

(* The call of p asks for the next block of its slot. *)
LEMMA AskMapInv ==
  ASSUME Inv, RestOK', NEW p \in Procs, NEW c \in Call, c.op \in {"map", "grow"},
         Ask(p, c, "MAP", c.id, c.i, NULL),
         UNCHANGED <<alive, fd, page, tab, ff, blk, file, cut, loose>>,
         p \in alive, call[p].op # "dup", call[p].s = c.s, fd[p][c.s] # NULL,
         c.id.e = fd[p][c.s], c.id = ff[fd[p][c.s]].id,
         c.op = "map" => c.i < c.end,
         c.op = "grow" => c.i < c.new,
         <<p, c.s>> \notin loose => ff[fd[p][c.s]].size = IF c.op = "map" THEN c.end ELSE c.new,
         \A i \in Index : ~ Pending(p, c.s, i),
         \A i \in Index : <<p, c.s>> \notin loose /\ i < c.i => Reached(p, c.s, i)
  PROVE  Inv'
<1>1. c.id \in FileId /\ c.i \in Size
  BY DEF Call
<1>2. PICK m \in Msg : /\ Sets1(p, c, m) /\ m.st = "sent" /\ m.type = "MAP"
                       /\ m.id = c.id /\ m.n = c.i /\ m.r = "ok"
  BY <1>1, AskFacts, Types
<1>3. call'[p] = c /\ msg'[p] = m
  BY <1>2, Sets1Facts
<1>4. CallOK(p)'
  BY <1>2, <1>3 DEF CallOK, Asked, IdOps
<1>5. SizeOK(p)'
  BY <1>2, <1>3 DEF SizeOK, IdOps
<1>6. \A s \in Slot, i \in Index : ~ Pending(p, s, i)
  BY DEF Pending
<1>7. ASSUME NEW s \in Slot, NEW i \in Index, <<p, s>> \notin loose, Reached(p, s, i)'
      PROVE  Reached(p, s, i)
  <2>1. CASE s # c.s
    BY <1>3, <1>7, <2>1 DEF Reached
  <2>2. CASE s = c.s
    <3>1. i < c.i
      BY <1>2, <1>3, <1>7, <2>2 DEF Reached
    <3> QED BY <1>7, <2>2, <3>1
  <2> QED BY <2>1, <2>2
<1> QED BY <1>2, <1>4, <1>5, <1>6, <1>7, TalkInv

(* What the answer to a call of p finds *)
LEMMA AnsweredFacts ==
  ASSUME Inv, NEW p \in Procs, NEW op \in CallOp \ {"none"}, Answered(p, op)
  PROVE  /\ p \in alive /\ call[p] \in Call /\ call[p].s \in Slot
         /\ call[p].op = op /\ msg[p].st = "done" /\ alive' = alive
         /\ CallOK(p) /\ DescOK(p) /\ SizeOK(p)
         /\ op \in IdOps => /\ fd[p][call[p].s] \in Entry
                            /\ call[p].id.e = fd[p][call[p].s]
                            /\ call[p].id = ff[fd[p][call[p].s]].id
<1>1. call[p].op = op /\ msg[p].st = "done" /\ alive' = alive
  BY DEF Answered
<1>2. CallOK(p) /\ DescOK(p) /\ SizeOK(p) /\ TypeOK
  BY DEF Inv, Local
<1>3. p \in alive
  BY <1>1, <1>2 DEF CallOK
<1>4. call[p] \in Call /\ call[p].s \in Slot
  BY <1>2, Fields
<1>5. ASSUME op \in IdOps
      PROVE  /\ fd[p][call[p].s] \in Entry
             /\ call[p].id.e = fd[p][call[p].s]
             /\ call[p].id = ff[fd[p][call[p].s]].id
  <2>1. fd[p][call[p].s] # NULL
    BY <1>1, <1>2, <1>5 DEF CallOK
  <2>2. fd[p][call[p].s] \in Entry
    BY <1>2, <1>4, <2>1, Fields
  <2> QED BY <1>1, <1>2, <1>5, <2>2 DEF DescOK
<1> QED BY <1>1, <1>2, <1>3, <1>4, <1>5

(* open has its descriptor and goes on to map the blocks. *)
LEMMA OpenReplyInv ==
  ASSUME Inv, RestOK', NEW p \in Procs, OpenReply(p)
  PROVE  Inv'
<1> DEFINE s == call[p].s  e == fd[p][s]
<1>1. Answered(p, "open") /\ UNCHANGED <<alive, fd, page, tab, ff, blk, file, cut, loose>>
  BY DEF OpenReply, Answered, tableVars, diskVars, history
<1>2. "open" \in CallOp \ {"none"}
  BY DEF CallOp
<1>3. /\ p \in alive /\ call[p] \in Call /\ s \in Slot /\ call[p].op = "open" /\ msg[p].st = "done"
      /\ CallOK(p) /\ DescOK(p)
  BY <1>1, <1>2, AnsweredFacts
<1>4. call[p].i = 0 /\ (e # NULL <=> msg[p].r = "ok")
  BY <1>3 DEF CallOK
<1>5. \A i \in Index : ~ Pending(p, s, i)
  BY <1>3 DEF Pending
<1>6. CASE msg[p].r # "ok"
  <2>1. Return(p)
    BY <1>6 DEF OpenReply
  <2> QED BY <1>1, <1>3, <1>4, <1>6, <2>1, ReturnInv
<1>7. CASE msg[p].r = "ok"
  <2> DEFINE c == AtMap(call[p], ff[e].id, ff[e].size)
  <2>1. e \in Entry /\ ff[e].id \in FileId /\ ff[e].size \in Size
    BY <1>3, <1>4, <1>7, Fields DEF Inv
  <2>2. c \in Call /\ c.op = "map" /\ c.s = s /\ c.id = ff[e].id /\ c.i = 0 /\ c.end = ff[e].size
    BY <1>3, <1>4, <2>1, AtMapFacts
  <2>3. ff[e].id.e = e
    <3>1. ff[fd[p][s]].id = [e |-> fd[p][s], g |-> tab[fd[p][s]].g]
      BY <1>3, <1>4, <1>7 DEF DescOK
    <3> QED BY <3>1
  <2>4. MapFrom(p, c)
    BY <1>7 DEF OpenReply, AtMap
  <2> HIDE DEF c
  <2>5. CASE c.i < c.end
    <3>1. Ask(p, c, "MAP", c.id, c.i, NULL)
      BY <2>4, <2>5 DEF MapFrom
    <3>2. \A i \in Index : ~ (i < c.i)
      BY <2>2, Sets
    <3> QED BY <1>1, <1>3, <1>4, <1>5, <1>7, <2>2, <2>3, <2>5, <3>1, <3>2, AskMapInv
  <2>6. CASE ~ (c.i < c.end)
    <3>1. Return(p)
      BY <2>4, <2>6 DEF MapFrom
    <3>2. \A i \in Index : ~ (i < ff[e].size)
      BY <2>1, <2>2, <2>6 DEF Size, Index
    <3> QED BY <1>1, <1>3, <3>1, <3>2, ReturnInv
  <2> QED BY <2>5, <2>6
<1> QED BY <1>6, <1>7

(* A turn of the loop of open. *)
LEMMA MapReplyInv ==
  ASSUME Inv, RestOK', NEW p \in Procs, MapReply(p)
  PROVE  Inv'
<1> DEFINE s == call[p].s  e == fd[p][s]
<1>1. Answered(p, "map") /\ UNCHANGED <<alive, fd, page, tab, ff, blk, file, cut, loose>>
  BY DEF MapReply, Answered, tableVars, diskVars, history
<1>2. "map" \in CallOp \ {"none"} /\ "map" \in IdOps
  BY DEF CallOp, IdOps
<1>3. /\ p \in alive /\ call[p] \in Call /\ s \in Slot /\ call[p].op = "map" /\ msg[p].st = "done"
      /\ CallOK(p) /\ SizeOK(p) /\ e \in Entry /\ call[p].id.e = e /\ call[p].id = ff[e].id
  BY <1>1, <1>2, AnsweredFacts
<1>4. call[p].i < call[p].end /\ call[p].i \in Size /\ call[p].end \in Size
  BY <1>3, Fields DEF CallOK, Inv
<1>5. <<p, s>> \notin loose => ff[e].size = call[p].end /\ msg[p].r = "ok"
  BY <1>2, <1>3 DEF SizeOK
<1>6. \A i \in Index : ~ Pending(p, s, i)
  BY <1>3 DEF Pending
<1>7. CASE msg[p].r # "ok"
  <2>1. Return(p)
    BY <1>7 DEF MapReply
  <2> QED BY <1>1, <1>3, <1>5, <1>7, <2>1, ReturnInv
<1>8. CASE msg[p].r = "ok"
  <2> DEFINE c == AtNext(call[p], call[p].i + 1)
  <2>1. call[p].i + 1 \in Size
    BY <1>4, Sets
  <2>2. c \in Call /\ c.op = "map" /\ c.s = s /\ c.id = ff[e].id /\ c.i = call[p].i + 1 /\ c.end = call[p].end
    BY <1>3, <2>1, AtNextFacts
  <2>3. MapFrom(p, c)
    BY <1>8 DEF MapReply, AtNext
  <2> HIDE DEF c
  <2>4. \A i \in Index : i < c.i => Reached(p, s, i)
    BY <1>3, <1>4, <2>2, Sets DEF Reached
  <2>5. CASE c.i < c.end
    <3>1. Ask(p, c, "MAP", c.id, c.i, NULL)
      BY <2>3, <2>5 DEF MapFrom
    <3>2. e # NULL
      BY <1>3, Sets
    <3> QED BY <1>1, <1>3, <1>5, <1>6, <2>2, <2>4, <2>5, <3>1, <3>2, AskMapInv
  <2>6. CASE ~ (c.i < c.end)
    <3>1. Return(p)
      BY <2>3, <2>6 DEF MapFrom
    <3>2. \A i \in Index : <<p, s>> \notin loose /\ i < ff[e].size => i < c.i
      BY <1>4, <1>5, <2>1, <2>2, <2>6 DEF Size, Index
    <3> QED BY <1>1, <1>3, <2>4, <3>1, <3>2, ReturnInv
  <2> QED BY <2>5, <2>6
<1> QED BY <1>7, <1>8

(* A turn of the loop of file_close. *)
LEMMA DirtyReplyInv ==
  ASSUME Inv, RestOK', NEW p \in Procs, DirtyReply(p)
  PROVE  Inv'
<1> DEFINE s == call[p].s  e == fd[p][s]  c == AtNext(call[p], call[p].i + 1)
<1>1. Answered(p, "dirty") /\ UNCHANGED <<alive, fd, page, tab, ff, blk, file, cut, loose>>
  BY DEF DirtyReply, Answered, tableVars, diskVars, history
<1>2. "dirty" \in CallOp \ {"none"} /\ "dirty" \in IdOps
  BY DEF CallOp, IdOps
<1>3. /\ p \in alive /\ call[p] \in Call /\ s \in Slot /\ call[p].op = "dirty"
      /\ CallOK(p) /\ SizeOK(p) /\ e \in Entry /\ call[p].id.e = e /\ call[p].id = ff[e].id
  BY <1>1, <1>2, AnsweredFacts
<1>4. call[p].i + 1 \in Size
  BY <1>3, Fields, Sets DEF CallOK, Inv
<1>5. c \in Call /\ c.op = "dirty" /\ c.s = s /\ c.id = ff[e].id /\ c.end = call[p].end
  BY <1>3, <1>4, AtNextFacts
<1>6. DirtyFrom(p, c)
  BY DEF DirtyReply, AtNext
<1>7. e # NULL /\ (<<p, s>> \notin loose => ff[e].size = call[p].end)
  BY <1>2, <1>3, Sets DEF SizeOK
<1> HIDE DEF c
<1>8. PICK x \in Call, m \in Msg :
        /\ Sets1(p, x, m) /\ x.op \in {"dirty", "close"}
        /\ x.s = c.s /\ x.id = c.id /\ x.end = c.end /\ (x.op = "dirty" => x.i < x.end)
        /\ m.st = "sent" /\ m.r = "ok" /\ m.id = x.id
        /\ m.type = IF x.op = "dirty" THEN "DIRTY" ELSE "CLOSE"
  BY <1>5, <1>6, DirtyFromFacts
<1>9. call'[p] = x /\ msg'[p] = m
  BY <1>8, Sets1Facts
<1>10. CallOK(p)'
  BY <1>1, <1>3, <1>5, <1>7, <1>8, <1>9 DEF CallOK, Asked, IdOps
<1>11. SizeOK(p)'
  BY <1>1, <1>5, <1>7, <1>8, <1>9 DEF SizeOK, IdOps
<1>12. \A t \in Slot, i \in Index : ~ Pending(p, t, i) /\ (Reached(p, t, i)' => Reached(p, t, i))
  BY <1>1, <1>3, <1>5, <1>8, <1>9 DEF Pending, Reached
<1> QED BY <1>1, <1>3, <1>5, <1>8, <1>10, <1>11, <1>12, TalkInv

(* ftruncate maps the next block, or goes on to unmap. *)
LEMMA GrowFromInv ==
  ASSUME Inv, RestOK', NEW p \in Procs, NEW c \in Call, GrowFrom(p, c),
         UNCHANGED <<alive, fd, page, tab, ff, blk, file, cut, loose>>,
         p \in alive, call[p].op \in {"size", "grow"}, c.s = call[p].s,
         c.new = call[p].new, c.old = call[p].old, call[p].op = "size" => c.i = c.old,
         fd[p][c.s] # NULL, c.id.e = fd[p][c.s], c.id = ff[fd[p][c.s]].id,
         <<p, c.s>> \notin loose => ff[fd[p][c.s]].size = c.new,
         \A i \in Index : <<p, c.s>> \notin loose /\ i < c.i => Reached(p, c.s, i)
  PROVE  Inv'
<1>1. c.i \in Size /\ c.new \in Size /\ c.old \in Size
  BY DEF Call
<1>2. CASE c.i < c.new
  <2> DEFINE d == AtOp(c, "grow")
  <2>1. d \in Call /\ d.op = "grow" /\ d.s = c.s /\ d.id = c.id /\ d.i = c.i /\ d.new = c.new
    BY AtOpFacts DEF CallOp
  <2>2. Ask(p, d, "MAP", c.id, c.i, NULL)
    BY <1>2 DEF GrowFrom, AtOp
  <2> HIDE DEF d
  <2>3. Ask(p, d, "MAP", d.id, d.i, NULL)
    BY <2>1, <2>2
  <2>4. \A i \in Index : ~ Pending(p, d.s, i)
    <3>1. call[p].op = "size" => call[p].old < call[p].new
      BY <1>2
    <3> QED BY <1>1, <3>1 DEF Pending, Size, Index
  <2> QED BY <1>2, <2>1, <2>3, <2>4, AskMapInv
<1>3. CASE ~ (c.i < c.new)
  <2> DEFINE d == AtOp(c, "shrink")
  <2>1. d \in Call /\ d.op = "shrink" /\ d.s = c.s /\ d.new = c.new /\ d.old = c.old
    BY AtOpFacts DEF CallOp
  <2>2. Sets1(p, d, NoMsg)
    BY <1>3 DEF GrowFrom, AtOp, Sets1
  <2> HIDE DEF d
  <2>3. call'[p] = d /\ msg'[p] = NoMsg
    BY <2>2, Sets1Facts
  <2>4. CallOK(p)'
    BY <2>1, <2>3, Nulls DEF CallOK, IdOps
  <2>5. SizeOK(p)'
    BY <2>1, <2>3 DEF SizeOK, IdOps
  <2>6. \A s \in Slot, i \in Index : Pending(p, s, i) => Pending(p, s, i)'
    BY <2>1, <2>3 DEF Pending
  <2>7. ASSUME NEW s \in Slot, NEW i \in Index, <<p, s>> \notin loose, Reached(p, s, i)'
        PROVE  Reached(p, s, i)
    <3>1. CASE s # c.s
      BY <2>1, <2>3, <2>7, <3>1 DEF Reached
    <3>2. CASE s = c.s
      <4>1. i < ff[fd[p][s]].size
        BY <2>1, <2>3, <2>7, <3>2 DEF Reached
      <4>2. i < c.i
        BY <1>1, <1>3, <2>7, <3>2, <4>1 DEF Size, Index
      <4> QED BY <2>7, <3>2, <4>2
    <3> QED BY <3>1, <3>2
  <2>8. d.op \notin IdOps
    BY <2>1 DEF IdOps
  <2> QED BY <2>1, <2>2, <2>4, <2>5, <2>6, <2>7, <2>8, Nulls, TalkInv
<1> QED BY <1>2, <1>3

(* ftruncate has its answer: it goes on to map new blocks, or fails. *)
LEMMA SizeReplyInv ==
  ASSUME Inv, RestOK', NEW p \in Procs, SizeReply(p)
  PROVE  Inv'
<1> DEFINE s == call[p].s  e == fd[p][s]  c == AtNext(call[p], call[p].old)
<1>1. Answered(p, "size") /\ UNCHANGED <<alive, fd, page, tab, ff, blk, file, cut, loose>>
  BY DEF SizeReply, Answered, tableVars, diskVars, history
<1>2. "size" \in CallOp \ {"none"} /\ "size" \in IdOps
  BY DEF CallOp, IdOps
<1>3. /\ p \in alive /\ call[p] \in Call /\ s \in Slot /\ call[p].op = "size" /\ msg[p].st = "done"
      /\ CallOK(p) /\ SizeOK(p) /\ e \in Entry /\ call[p].id.e = e /\ call[p].id = ff[e].id
  BY <1>1, <1>2, AnsweredFacts
<1>4. msg[p].r = "ok" /\ call[p].old \in Size
  BY <1>3, Fields DEF CallOK, Inv
<1>5. e # NULL /\ (<<p, s>> \notin loose => ff[e].size = call[p].new)
  BY <1>2, <1>3, Sets DEF SizeOK
<1>6. /\ c \in Call /\ c.s = s /\ c.id = ff[e].id /\ c.i = call[p].old
      /\ c.new = call[p].new /\ c.old = call[p].old
  BY <1>3, <1>4, AtNextFacts
<1>7. GrowFrom(p, c)
  BY <1>4 DEF SizeReply, AtNext, GrowStart
<1>8. \A i \in Index : i < call[p].old => Reached(p, s, i)
  BY <1>3 DEF Reached
<1> HIDE DEF c
<1> QED BY <1>1, <1>3, <1>5, <1>6, <1>7, <1>8, GrowFromInv

(* A turn of the loop of ftruncate that maps the new blocks. *)
LEMMA GrowReplyInv ==
  ASSUME Inv, RestOK', NEW p \in Procs, GrowReply(p)
  PROVE  Inv'
<1> DEFINE s == call[p].s  e == fd[p][s]
<1>1. Answered(p, "grow") /\ UNCHANGED <<alive, fd, page, tab, ff, blk, file, cut, loose>>
  BY DEF GrowReply, Answered, tableVars, diskVars, history
<1>2. "grow" \in CallOp \ {"none"} /\ "grow" \in IdOps
  BY DEF CallOp, IdOps
<1>3. /\ p \in alive /\ call[p] \in Call /\ s \in Slot /\ call[p].op = "grow" /\ msg[p].st = "done"
      /\ CallOK(p) /\ SizeOK(p) /\ e \in Entry /\ call[p].id.e = e /\ call[p].id = ff[e].id
  BY <1>1, <1>2, AnsweredFacts
<1>4. call[p].i < call[p].new /\ call[p].i \in Size /\ call[p].new \in Size /\ call[p].old \in Size
  BY <1>3, Fields DEF CallOK, Inv
<1>5. e # NULL /\ (<<p, s>> \notin loose => ff[e].size = call[p].new /\ msg[p].r = "ok")
  BY <1>2, <1>3, Sets DEF SizeOK
<1>6. CASE msg[p].r = "ok"
  <2> DEFINE c == AtNext(call[p], call[p].i + 1)
  <2>1. call[p].i + 1 \in Size
    BY <1>4, Sets
  <2>2. /\ c \in Call /\ c.s = s /\ c.id = ff[e].id /\ c.i = call[p].i + 1
        /\ c.new = call[p].new /\ c.old = call[p].old
    BY <1>3, <2>1, AtNextFacts
  <2>3. GrowFrom(p, c)
    BY <1>6 DEF GrowReply, AtNext
  <2> HIDE DEF c
  <2>4. \A i \in Index : i < c.i => Reached(p, s, i)
    <3>1. \A i \in Index : i < c.i => i < call[p].i \/ i = call[p].i
      BY <1>4, <2>2 DEF Size, Index
    <3>2. call[p].s = s /\ call[p].op = "grow" /\ msg[p].st = "done"
      BY <1>3
    <3> QED BY <3>1, <3>2 DEF Reached
  <2> QED BY <1>1, <1>3, <1>5, <2>2, <2>3, <2>4, GrowFromInv
<1>7. CASE msg[p].r # "ok"
  <2> DEFINE c == AtOp(call[p], "undo")
  <2>1. c \in Call /\ c.op = "undo" /\ c.s = s /\ c.id = ff[e].id /\ c.id \in FileId
    BY <1>3, AtOpFacts, Fields DEF CallOp, Inv
  <2>2. Ask(p, c, "SET_SIZE", call[p].id, call[p].old, NULL)
    BY <1>7 DEF GrowReply, AtOp
  <2> HIDE DEF c
  <2>3. PICK m \in Msg : /\ Sets1(p, c, m) /\ m.st = "sent" /\ m.type = "SET_SIZE"
                         /\ m.id = c.id /\ m.r = "ok"
    BY <1>3, <1>4, <2>1, <2>2, AskFacts, Types
  <2>4. call'[p] = c /\ msg'[p] = m
    BY <2>3, Sets1Facts
  <2>5. <<p, s>> \in loose
    BY <1>5, <1>7
  <2>6. CallOK(p)'
    BY <1>1, <1>3, <1>5, <2>1, <2>3, <2>4 DEF CallOK, Asked, IdOps
  <2>7. SizeOK(p)'
    BY <1>1, <2>1, <2>4, <2>5 DEF SizeOK
  <2>8. \A t \in Slot, i \in Index : ~ Pending(p, t, i)
    BY <1>3 DEF Pending
  <2>9. \A t \in Slot, i \in Index : <<p, t>> \notin loose /\ Reached(p, t, i)' => Reached(p, t, i)
    BY <1>1, <2>1, <2>4, <2>5 DEF Reached
  <2> QED BY <1>1, <1>3, <2>1, <2>3, <2>6, <2>7, <2>8, <2>9, TalkInv
<1> QED BY <1>6, <1>7

(* The answer to the last request of a call. *)
LEMMA LastReplyInv ==
  ASSUME Inv, RestOK', NEW p \in Procs, UndoReply(p) \/ PathReply(p)
  PROVE  Inv'
<1>1. /\ Answered(p, "undo") \/ Answered(p, "path")
      /\ Return(p) /\ UNCHANGED <<alive, fd, page, tab, ff, blk, file, cut, loose>>
  BY DEF UndoReply, PathReply, Answered, tableVars, diskVars, history
<1>2. CASE Answered(p, "undo")
  <2>1. call[p].op = "undo"
    BY <1>2 DEF Answered
  <2>2. <<p, call[p].s>> \in loose
    BY <2>1 DEF Inv, Local, SizeOK, IdOps
  <2> QED BY <1>1, <2>1, <2>2, ReturnInv
<1>3. CASE Answered(p, "path")
  <2>1. call[p].op = "path"
    BY <1>3 DEF Answered
  <2>2. \A i \in Index : i < ff[fd[p][call[p].s]].size => Reached(p, call[p].s, i)
    BY <2>1 DEF Reached
  <2> QED BY <1>1, <2>1, <2>2, ReturnInv
<1> QED BY <1>1, <1>2, <1>3

-----------------------------------------------------------------------------
(* Reading, writing and seeking *)

(* The offset of a Filefd moves. *)
LEMMA OffsetKeeps ==
  ASSUME TypeOK, NEW e \in Entry, NEW n, ff' = [ff EXCEPT ![e].off = n]
  PROVE  \A d \in Entry : ff'[d].id = ff[d].id /\ ff'[d].size = ff[d].size
BY DEF TypeOK

(* page_out maps a page where there is none, and no other. *)
LEMMA TouchKeeps ==
  ASSUME TypeOK, NEW p \in Procs, NEW s \in Slot, NEW n \in Index, Touch(p, s, n)
  PROVE  /\ \A q \in Procs : q # p => page'[q] = page[q]
         /\ \A t \in Slot, i \in Index :
              page'[p][t][i] \in Block \/ page[p][t][i] \in Block => page'[p][t][i] = page[p][t][i]
BY Sets DEF TypeOK, Touch

(* A step of p that uses the page of its slot and moves the offset *)
LEMMA UseIsQuiet ==
  ASSUME Inv, NEW p \in Procs, NEW s \in Slot, fd[p][s] # NULL, NEW n,
         ff' = [ff EXCEPT ![fd[p][s]].off = n],
         \/ UNCHANGED page
         \/ \E i \in Index : Touch(p, s, i),
         UNCHANGED <<alive, fd, tab, blk, file, cut, loose>>,
         \A q \in Procs : q # p => call'[q] = call[q] /\ msg'[q] = msg[q]
  PROVE  /\ Quiet(p)
         /\ \A q \in Procs, t \in Slot : fd[q][t] # NULL => ff'[fd[q][t]].size = ff[fd[q][t]].size
<1>1. fd[p][s] \in Entry
  BY Fields DEF Inv
<1>2. \A d \in Entry : ff'[d].id = ff[d].id /\ ff'[d].size = ff[d].size
  BY <1>1, OffsetKeeps DEF Inv
<1>3. \A q \in Procs, t \in Slot : fd[q][t] # NULL =>
        ff'[fd[q][t]].id = ff[fd[q][t]].id /\ ff'[fd[q][t]].size = ff[fd[q][t]].size
  BY <1>2, Fields DEF Inv
<1>4. /\ \A q \in Procs : q # p => page'[q] = page[q]
      /\ \A t \in Slot, i \in Index :
           page'[p][t][i] \in Block \/ page[p][t][i] \in Block => page'[p][t][i] = page[p][t][i]
  BY TouchKeeps DEF Inv
<1> QED BY <1>3, <1>4 DEF Quiet

(* seek moves the offset in the Filefd. *)
LEMMA SeekInv ==
  ASSUME Inv, TypeOK', NEW p \in Procs, NEW s \in Slot, NEW n \in Size, Seek(p, s, n)
  PROVE  Inv'
<1>1. /\ fd[p][s] # NULL /\ ff' = [ff EXCEPT ![fd[p][s]].off = n]
      /\ UNCHANGED <<alive, fd, page, tab, blk, file, cut, loose, call, msg>>
  BY DEF Seek, clientVars, diskVars, history
<1>2. /\ Quiet(p)
      /\ \A q \in Procs, t \in Slot : fd[q][t] # NULL => ff'[fd[q][t]].size = ff[fd[q][t]].size
  BY <1>1, UseIsQuiet
<1>3. CallStep(p)
  BY <1>1, <1>2, SameCall
<1> QED BY <1>2, <1>3, QuietInv

(* file_read, and file_write below the size *)
LEMMA AdvanceInv ==
  ASSUME Inv, TypeOK', NEW p \in Procs, NEW s \in Slot, fd[p][s] # NULL,
         ff[fd[p][s]].off < MAXBLK, Advance(p, s, ff[fd[p][s]].off),
         UNCHANGED <<alive, fd, tab, blk, file, cut, loose, call, msg>>
  PROVE  Inv'
<1> DEFINE n == ff[fd[p][s]].off
<1>1. fd[p][s] \in Entry
  BY Fields DEF Inv
<1>2. n \in Index
  BY <1>1, Fields DEF Inv, Index
<1>3. Touch(p, s, n) /\ ff' = [ff EXCEPT ![fd[p][s]].off = ff[fd[p][s]].off + 1]
  BY <1>1 DEF Advance, Inv, TypeOK
<1> HIDE DEF n
<1>4. /\ Quiet(p)
      /\ \A q \in Procs, t \in Slot : fd[q][t] # NULL => ff'[fd[q][t]].size = ff[fd[q][t]].size
  BY <1>2, <1>3, UseIsQuiet
<1>5. CallStep(p)
  BY <1>4, SameCall
<1> QED BY <1>4, <1>5, QuietInv

(* file_write goes on after its ftruncate. *)
LEMMA WriteMoreInv ==
  ASSUME Inv, TypeOK', NEW p \in Procs, WriteMore(p)
  PROVE  Inv'
<1> DEFINE s == call[p].s  n == call[p].write
<1>1. /\ call[p].op = "write" /\ Advance(p, s, n) /\ Return(p)
      /\ UNCHANGED <<alive, fd, tab, blk, file, cut, loose>>
  BY DEF WriteMore, diskVars, history
<1>2. CallOK(p) /\ TypeOK
  BY DEF Inv, Local
<1>3. s \in Slot /\ fd[p][s] # NULL /\ n \in Index \union {NULL}
  BY <1>1, <1>2, Fields DEF CallOK
<1>4. fd[p][s] \in Entry
  BY <1>2, <1>3, Fields
<1>5. Touch(p, s, n) /\ ff' = [ff EXCEPT ![fd[p][s]].off = ff[fd[p][s]].off + 1]
  BY <1>1, <1>2, <1>4 DEF Advance, TypeOK
<1>6. (\E i \in Index : Touch(p, s, i)) \/ UNCHANGED page
  <2>1. CASE n \in Index
    BY <1>5, <2>1
  <2>2. CASE n \notin Index
    <3>1. page'[p] = page[p]
      BY <1>2, <1>3, <1>5, <2>2 DEF Touch, TypeOK
    <3>2. \A q \in Procs : page'[q] = page[q]
      BY <1>2, <1>5, <3>1 DEF Touch, TypeOK
    <3> QED BY <1>2, <3>2 DEF TypeOK
  <2> QED BY <2>1, <2>2
<1>7. /\ call'[p] = NoCall /\ msg'[p] = NoMsg
      /\ \A q \in Procs : q # p => call'[q] = call[q] /\ msg'[q] = msg[q]
  BY <1>1, <1>2 DEF Return, TypeOK
<1> HIDE DEF n, s
<1>8. /\ Quiet(p)
      /\ \A q \in Procs, t \in Slot : fd[q][t] # NULL => ff'[fd[q][t]].size = ff[fd[q][t]].size
  BY <1>1, <1>3, <1>5, <1>6, <1>7, UseIsQuiet
<1>9. CallOK(p)'
  BY <1>1, <1>2, <1>7, Nulls DEF CallOK, IdOps
<1>10. SizeOK(p)'
  BY <1>7, Nulls DEF SizeOK, IdOps
<1>11. \A t \in Slot, i \in Index : ~ Pending(p, t, i)
  BY <1>1 DEF Pending
<1>12. ASSUME NEW t \in Slot, NEW i \in Index, fd[p][t] # NULL, Reached(p, t, i)'
       PROVE  Reached(p, t, i)
  <2>1. i < ff'[fd'[p][t]].size
    BY <1>7, <1>12, Nulls DEF Reached
  <2>2. i < ff[fd[p][t]].size
    BY <1>1, <1>8, <1>12, <2>1
  <2> QED BY <1>1, <2>2 DEF Reached
<1>13. CallStep(p)
  BY <1>1, <1>7, <1>9, <1>10, <1>11, <1>12, Nulls DEF CallStep, IdOps
<1> QED BY <1>8, <1>13, QuietInv

-----------------------------------------------------------------------------
(* ftruncate *)

(* ftruncate up to its request: the size in the Filefd is set first. *)
LEMMA SizeFromInv ==
  ASSUME Inv, TypeOK', NEW p \in Procs, NEW s \in Slot, NEW n \in Size, NEW w \in Index \union {NULL},
         p \in alive, call[p].op = "none", fd[p][s] # NULL, SizeFrom(p, s, n, w),
         UNCHANGED <<alive, fd, page, tab, blk, file, cut, loose>>
  PROVE  Inv'
<1> DEFINE e == fd[p][s]  c == AtSize(NoCall, s, ff[e].id, ff[e].size, n, w)
<1>1. CallOK(p) /\ DescOK(p) /\ Alone(p) /\ PagesOK(p) /\ FilledOK(p) /\ TypeOK
  BY DEF Inv, Local
<1>2. e \in Entry /\ e # NULL /\ ff[e].id \in FileId /\ ff[e].size \in Size
  BY <1>1, Fields
<1>3. ff' = [ff EXCEPT ![e].size = n] /\ Ask(p, c, "SET_SIZE", ff[e].id, n, NULL)
  BY DEF SizeFrom, AtSize
<1>4. /\ c \in Call /\ c.op = "size" /\ c.s = s /\ c.id = ff[e].id
      /\ c.old = ff[e].size /\ c.new = n
  <2>1. \A x \in Call, id \in FileId, old \in Size :
          LET y == AtSize(x, s, id, old, n, w) IN
          /\ y \in Call /\ y.op = "size" /\ y.s = s /\ y.id = id
          /\ y.old = old /\ y.new = n
    BY AtSizeFacts
  <2>2. NoCall \in Call
    BY Nulls
  <2> HIDE DEF e
  <2> QED BY <1>2, <2>1, <2>2
<1> HIDE DEF c
<1>5. PICK m \in Msg : /\ Sets1(p, c, m) /\ m.st = "sent" /\ m.type = "SET_SIZE"
                       /\ m.id = ff[e].id /\ m.n = n /\ m.r = "ok"
  BY <1>2, <1>3, <1>4, AskFacts, Types
<1>6. /\ call'[p] = c /\ msg'[p] = m
      /\ \A q \in Procs : q # p => call'[q] = call[q] /\ msg'[q] = msg[q]
  BY <1>1, <1>5 DEF Sets1, TypeOK
<1>7. /\ ff'[e].id = ff[e].id /\ ff'[e].size = n
      /\ \A d \in Entry : d # e => ff'[d] = ff[d]
  BY <1>1, <1>2, <1>3 DEF TypeOK
<1>8. ff[e].id.e = e
  <2>1. ff[fd[p][s]].id = [e |-> fd[p][s], g |-> tab[fd[p][s]].g]
    BY <1>1 DEF DescOK
  <2> QED BY <2>1
<1>9. \A q \in Procs, t \in Slot :
        fd[q][t] # NULL /\ <<q, t>> \notin loose /\ fd[q][t] = e => q = p /\ t = s
  BY DEF Inv, Local, Alone
<1>10. \A q \in Procs, t \in Slot : fd[q][t] # NULL =>
         /\ ff'[fd[q][t]].id = ff[fd[q][t]].id
         /\ <<q, t>> \notin loose /\ (q # p \/ t # s) => ff'[fd[q][t]] = ff[fd[q][t]]
  <2>1. \A q \in Procs, t \in Slot : fd[q][t] # NULL => fd[q][t] \in Entry
    BY <1>1, Fields
  <2> HIDE DEF e
  <2> QED BY <1>7, <1>9, <2>1
<1>11. ASSUME NEW q \in Procs, q # p PROVE Local(q)'
  <2>1. Unaffected(p, q)
    BY <1>6, <1>10, <1>11 DEF Unaffected
  <2> QED BY <1>11, <2>1, OthersInv
<1>12. CallOK(p)'
  BY <1>2, <1>4, <1>5, <1>6 DEF CallOK, Asked, IdOps
<1>13. SizeOK(p)'
  BY <1>4, <1>6, <1>7 DEF SizeOK, IdOps
<1>14. DescOK(p)'
  <2>1. call'[p].id.e = fd'[p][call'[p].s] /\ call'[p].id = ff'[fd'[p][call'[p].s]].id
    BY <1>4, <1>6, <1>7, <1>8
  <2>2. \A t \in Slot : fd[p][t] # NULL => ff'[fd[p][t]].id = ff[fd[p][t]].id
    BY <1>10
  <2>3. call'[p].op # "dup" /\ \A t \in Slot : ~ Copied(p, t)
    BY <1>1, <1>4, <1>6 DEF Copied
  <2> QED BY <1>1, <2>1, <2>2, <2>3 DEF DescOK
<1>15. Alone(p)'
  BY <1>1 DEF Alone
<1>16. PagesOK(p)'
  <2> SUFFICES ASSUME NEW t \in Slot, NEW i \in Index, page[p][t][i] \in Block
               PROVE  \/ <<p, t, i>> \in cut
                      \/ Pending(p, t, i)'
                      \/ /\ file[p][t] # None /\ page[p][t][i] = blk[file[p][t]][i]
                         /\ fd[p][t] # NULL /\ <<p, t>> \notin loose => i < ff'[fd[p][t]].size
    BY DEF PagesOK
  <2>1. \/ <<p, t, i>> \in cut
        \/ /\ file[p][t] # None /\ page[p][t][i] = blk[file[p][t]][i]
           /\ fd[p][t] # NULL /\ <<p, t>> \notin loose => i < ff[fd[p][t]].size
    BY <1>1 DEF PagesOK, Pending
  <2>2. CASE t # s
    BY <1>10, <2>1, <2>2
  <2>3. CASE t = s
    <3>1. n <= i /\ i < ff[e].size => Pending(p, t, i)'
      BY <1>4, <1>6, <2>3 DEF Pending
    <3>2. i < n => i < ff'[fd[p][t]].size
      BY <1>7, <2>3
    <3>3. i < n \/ n <= i
      BY DEF Size, Index
    <3>4. fd[p][s] # NULL
      BY <1>1
    <3> QED BY <2>1, <2>3, <3>1, <3>2, <3>3, <3>4
  <2> QED BY <2>2, <2>3
<1>17. FilledOK(p)'
  <2> SUFFICES ASSUME NEW t \in Slot, NEW i \in Index, fd[p][t] # NULL, <<p, t>> \notin loose,
                      Reached(p, t, i)'
               PROVE  page[p][t][i] \in Block
    BY DEF FilledOK
  <2>1. i < ff[fd[p][t]].size
    <3>1. CASE t = s
      BY <1>4, <1>6, <3>1 DEF Reached
    <3>2. CASE t # s
      <4>1. i < ff'[fd[p][t]].size
        BY <1>4, <1>6, <3>2 DEF Reached
      <4> QED BY <1>10, <3>2, <4>1
    <3> QED BY <3>1, <3>2
  <2>2. Reached(p, t, i)
    BY <2>1 DEF Reached
  <2> QED BY <1>1, <2>2 DEF FilledOK
<1> QED BY <1>11, <1>12, <1>13, <1>14, <1>15, <1>16, <1>17 DEF Inv, Local

(* The last part of ftruncate *)
LEMMA ShrinkInv ==
  ASSUME Inv, TypeOK', NEW p \in Procs, Shrink(p)
  PROVE  Inv'
<1> DEFINE s == call[p].s  a == call[p].new  b == call[p].old
<1>1. /\ call[p].op = "shrink" /\ Unmap(p, s, a, b) /\ cut' = StillCut(p, s, a, b)
      /\ UNCHANGED <<alive, fd, tab, ff, blk, file, loose>>
  BY DEF Shrink, tableVars, diskVars
<1>2. CallOK(p) /\ DescOK(p) /\ Alone(p) /\ SizeOK(p) /\ PagesOK(p) /\ FilledOK(p) /\ TypeOK
  BY DEF Inv, Local
<1>3. s \in Slot /\ a \in Size /\ b \in Size /\ fd[p][s] # NULL /\ p \in alive
  BY <1>1, <1>2, Fields DEF CallOK
<1>4. /\ \A q \in Procs : q # p => page'[q] = page[q]
      /\ \A t \in Slot : t # s => page'[p][t] = page[p][t]
      /\ \A i \in Index : page'[p][s][i] = IF a <= i /\ i < b THEN None ELSE page[p][s][i]
  BY <1>1, <1>2, <1>3 DEF Unmap, TypeOK
<1>5. \A q \in Procs, t \in Slot, i \in Index :
        <<q, t, i>> \in cut /\ ~ (q = p /\ t = s /\ a <= i /\ i < b) => <<q, t, i>> \in cut'
  BY <1>1 DEF StillCut
<1>6. /\ \A q \in Procs : q # p => call'[q] = call[q] /\ msg'[q] = msg[q]
      /\ \/ call'[p].op = "none" /\ msg'[p] = NoMsg
         \/ call'[p].op = "write" /\ call'[p].s = s /\ call'[p].new = a /\ msg'[p] = msg[p]
  <2>1. CASE call[p].write = NULL
    <3>1. Return(p)
      BY <2>1 DEF Shrink
    <3>2. /\ call'[p] = NoCall /\ msg'[p] = NoMsg
          /\ \A q \in Procs : q # p => call'[q] = call[q] /\ msg'[q] = msg[q]
      BY <1>2, <3>1 DEF Return, TypeOK
    <3> QED BY <3>2, Nulls
  <2>2. CASE call[p].write # NULL
    <3>1. call' = [call EXCEPT ![p] = AtOp(call[p], "write")] /\ msg' = msg
      BY <1>2, <2>2 DEF Shrink, AtOp, TypeOK
    <3>2. call'[p] = AtOp(call[p], "write") /\ \A q \in Procs : q # p => call'[q] = call[q]
      BY <1>2, <3>1 DEF TypeOK
    <3>3. call'[p].op = "write" /\ call'[p].s = s /\ call'[p].new = a
      BY <1>2, <3>2, AtOpFacts, Fields DEF CallOp
    <3> QED BY <3>1, <3>2, <3>3
  <2> QED BY <2>1, <2>2
<1>7. msg[p].st # "sent" /\ (<<p, s>> \notin loose => ff[fd[p][s]].size = a)
  BY <1>1, <1>2 DEF CallOK, Asked, SizeOK
<1> HIDE DEF s, a, b
<1>8. ASSUME NEW q \in Procs, q # p PROVE Local(q)'
  <2>1. Unaffected(p, q)
    BY <1>1, <1>4, <1>5, <1>6, <1>8 DEF Unaffected
  <2> QED BY <1>8, <2>1, OthersInv
<1>9. CallOK(p)'
  BY <1>1, <1>2, <1>3, <1>6, <1>7, Nulls DEF CallOK, IdOps
<1>10. SizeOK(p)'
  BY <1>1, <1>6, <1>7 DEF SizeOK, IdOps
<1>11. DescOK(p)' /\ Alone(p)'
  BY <1>1, <1>2, <1>6 DEF DescOK, Copied, Alone, IdOps
<1>12. PagesOK(p)'
  <2> SUFFICES ASSUME NEW t \in Slot, NEW i \in Index, page'[p][t][i] \in Block
               PROVE  \/ <<p, t, i>> \in cut'
                      \/ /\ file[p][t] # None /\ page'[p][t][i] = blk[file[p][t]][i]
                         /\ fd[p][t] # NULL /\ <<p, t>> \notin loose => i < ff[fd[p][t]].size
    BY <1>1 DEF PagesOK
  <2>1. page'[p][t][i] = page[p][t][i] /\ ~ (t = s /\ a <= i /\ i < b)
    BY <1>3, <1>4, Sets
  <2>2. ~ Pending(p, t, i)
    BY <2>1 DEF Pending, s, a, b
  <2> QED BY <1>2, <1>5, <2>1, <2>2 DEF PagesOK
<1>13. FilledOK(p)'
  <2> SUFFICES ASSUME NEW t \in Slot, NEW i \in Index, fd[p][t] # NULL, <<p, t>> \notin loose,
                      Reached(p, t, i)'
               PROVE  page'[p][t][i] \in Block
    BY <1>1 DEF FilledOK
  <2>1. i < ff[fd[p][t]].size
    BY <1>1, <1>6 DEF Reached
  <2>2. page[p][t][i] \in Block
    BY <1>1, <1>2, <2>1 DEF FilledOK, Reached
  <2>3. ~ (t = s /\ a <= i /\ i < b)
    <3>1. t = s => i < a
      BY <1>7, <2>1
    <3>2. i < a => ~ (a <= i)
      BY <1>3 DEF Size, Index
    <3> QED BY <3>1, <3>2
  <2> QED BY <1>3, <1>4, <2>2, <2>3
<1> QED BY <1>8, <1>9, <1>10, <1>11, <1>12, <1>13 DEF Inv, Local

-----------------------------------------------------------------------------
(* Descriptors that come and go: close, dup, fork and exit *)

(* The end of file_close: pages and descriptor are unmapped. *)
LEMMA CloseReplyInv ==
  ASSUME Inv, TypeOK', NEW p \in Procs, CloseReply(p)
  PROVE  Inv'
<1> DEFINE s == call[p].s  n == call[p].end
<1>1. CallOK(p) /\ DescOK(p) /\ Alone(p) /\ SizeOK(p) /\ PagesOK(p) /\ FilledOK(p) /\ TypeOK
  BY DEF Inv, Local
<1>2. call[p].op = "close" /\ msg[p].st = "done" /\ UNCHANGED <<alive, tab, ff, blk>>
  BY DEF CloseReply, Answered, tableVars, diskVars
<1>3. s \in Slot /\ n \in Size /\ fd[p][s] # NULL /\ p \in alive /\ CloseEnd(p) = n
  <2>1. s \in Slot /\ n \in Size
    BY <1>1, Fields
  <2>2. fd[p][s] # NULL /\ p \in alive /\ msg[p].r = "ok"
    BY <1>1, <1>2 DEF CallOK, IdOps
  <2> QED BY <2>1, <2>2 DEF CloseEnd
<1>4. <<p, s>> \notin loose => ff[fd[p][s]].size = n
  BY <1>1, <1>2 DEF SizeOK, IdOps
<1>5. /\ Unmap(p, s, 0, n) /\ cut' = StillCut(p, s, 0, n) \union LeftBehind(p, s, n)
      /\ fd' = [fd EXCEPT ![p][s] = NULL]
      /\ file' = [file EXCEPT ![p][s] = IF call[p].dup \in {NULL, s} THEN None ELSE file[p][call[p].dup]]
      /\ loose' = loose \ {<<p, s>>}
  BY <1>3 DEF CloseReply
<1>6. /\ \A q \in Procs : q # p => call'[q] = call[q] /\ msg'[q] = msg[q]
      /\ msg'[p] = NoMsg
      /\ \/ call'[p].op = "none"
         \/ /\ call'[p].op = "dup" /\ call'[p].s = s
            /\ call'[p].dup = call[p].dup /\ call[p].dup # NULL
      /\ call'[p].op = "none" => call[p].dup = NULL
  <2>1. CASE call[p].dup = NULL
    <3>1. Return(p)
      BY <2>1 DEF CloseReply
    <3>2. /\ call'[p] = NoCall /\ msg'[p] = NoMsg
          /\ \A q \in Procs : q # p => call'[q] = call[q] /\ msg'[q] = msg[q]
      BY <1>1, <3>1 DEF Return, TypeOK
    <3> QED BY <2>1, <3>2, Nulls
  <2>2. CASE call[p].dup # NULL
    <3>1. Sets1(p, AtDup(NoCall, s, call[p].dup), NoMsg)
      BY <2>2 DEF CloseReply, AtDup, Sets1
    <3>2. /\ call'[p] = AtDup(NoCall, s, call[p].dup) /\ msg'[p] = NoMsg
          /\ \A q \in Procs : q # p => call'[q] = call[q] /\ msg'[q] = msg[q]
      BY <1>1, <3>1 DEF Sets1, TypeOK
    <3>3. call[p].dup \in Slot
      BY <1>1, <2>2, Fields
    <3> QED BY <1>3, <2>2, <3>2, <3>3, Nulls, AtDupFacts
  <2> QED BY <2>1, <2>2
<1> HIDE DEF s, n
<1>7. /\ \A q \in Procs : q # p => page'[q] = page[q]
      /\ \A t \in Slot : t # s => page'[p][t] = page[p][t]
      /\ \A i \in Index : page'[p][s][i] = IF 0 <= i /\ i < n THEN None ELSE page[p][s][i]
  BY <1>1, <1>3, <1>5 DEF Unmap, TypeOK
<1>8. /\ \A q \in Procs : q # p => fd'[q] = fd[q] /\ file'[q] = file[q]
      /\ \A t \in Slot : t # s => fd'[p][t] = fd[p][t] /\ file'[p][t] = file[p][t]
      /\ fd'[p][s] = NULL
      /\ file'[p][s] = IF call[p].dup \in {NULL, s} THEN None ELSE file[p][call[p].dup]
  BY <1>1, <1>3, <1>5 DEF TypeOK
<1>9. \A q \in Procs, t \in Slot : q # p \/ t # s => (<<q, t>> \in loose' <=> <<q, t>> \in loose)
  BY <1>5
<1>10. \A q \in Procs, t \in Slot, i \in Index :
         <<q, t, i>> \in cut /\ ~ (q = p /\ t = s /\ 0 <= i /\ i < n) => <<q, t, i>> \in cut'
  BY <1>5 DEF StillCut
<1>11. ASSUME NEW q \in Procs, q # p PROVE Local(q)'
  <2>1. \A r \in Procs, t \in Slot : fd'[r][t] # NULL => fd'[r][t] = fd[r][t]
    BY <1>8
  <2>2. Unaffected(p, q)
    BY <1>2, <1>6, <1>7, <1>8, <1>9, <1>10, <1>11, <2>1 DEF Unaffected
  <2> QED BY <1>11, <2>2, OthersInv
<1>12. CallOK(p)'
  BY <1>2, <1>3, <1>6, <1>8, Nulls DEF CallOK, IdOps
<1>13. SizeOK(p)'
  BY <1>6 DEF SizeOK, IdOps
<1>14. DescOK(p)'
  <2>1. call'[p].op \notin IdOps
    BY <1>6 DEF IdOps
  <2>2. call'[p].op # "dup" \/ call'[p].s # s => file'[p][s] = None
    BY <1>6, <1>8
  <2>3. call'[p].op = "dup" => file'[p][call'[p].s] = file'[p][call'[p].dup]
    <3>1. ASSUME call'[p].op = "dup"
          PROVE  call'[p].s = s /\ call'[p].dup = call[p].dup /\ call[p].dup \in Slot
      BY <1>1, <1>6, <3>1, Fields
    <3>2. CASE call[p].dup = s
      BY <3>1, <3>2
    <3>3. CASE call[p].dup # s
      BY <1>8, <3>1, <3>3, Sets
    <3> QED BY <3>2, <3>3
  <2>4. \A t \in Slot : fd[p][t] = NULL => file[p][t] = None
    BY <1>1, <1>2 DEF DescOK, Copied
  <2>5. \A t \in Slot : t # s /\ fd[p][t] # NULL =>
          /\ file'[p][t] # None
          /\ tab'[fd'[p][t]].page
          /\ ff'[fd'[p][t]].id = [e |-> fd'[p][t], g |-> tab'[fd'[p][t]].g]
          /\ tab'[fd'[p][t]].o_file = file'[p][t]
    BY <1>1, <1>2, <1>8 DEF DescOK
  <2>6. \A t \in Slot : t # s => fd'[p][t] = fd[p][t] /\ file'[p][t] = file[p][t]
    BY <1>8
  <2>7. ASSUME NEW t \in Slot, fd'[p][t] = NULL, ~ Copied(p, t)' PROVE file'[p][t] = None
    <3>1. CASE t = s
      BY <2>2, <2>7, <3>1 DEF Copied
    <3>2. CASE t # s
      BY <2>4, <2>6, <2>7, <3>2
    <3> QED BY <3>1, <3>2
  <2>8. fd'[p][s] = NULL
    BY <1>8
  <2> QED BY <2>1, <2>3, <2>5, <2>6, <2>7, <2>8 DEF DescOK
<1>15. Alone(p)'
  BY <1>1, <1>8, <1>9 DEF Alone
<1>16. PagesOK(p)'
  <2> SUFFICES ASSUME NEW t \in Slot, NEW i \in Index, page'[p][t][i] \in Block
               PROVE  \/ <<p, t, i>> \in cut'
                      \/ /\ file'[p][t] # None /\ page'[p][t][i] = blk[file'[p][t]][i]
                         /\ fd'[p][t] # NULL /\ <<p, t>> \notin loose' => i < ff[fd'[p][t]].size
    BY <1>2 DEF PagesOK
  <2>1. page'[p][t][i] = page[p][t][i] /\ ~ (t = s /\ 0 <= i /\ i < n)
    BY <1>3, <1>7, Sets
  <2>2. \/ <<p, t, i>> \in cut
        \/ /\ file[p][t] # None /\ page[p][t][i] = blk[file[p][t]][i]
           /\ fd[p][t] # NULL /\ <<p, t>> \notin loose => i < ff[fd[p][t]].size
    BY <1>1, <1>2, <2>1 DEF PagesOK, Pending
  <2>3. CASE t # s
    BY <1>8, <1>9, <1>10, <2>1, <2>2, <2>3
  <2>4. CASE t = s
    <3>1. n <= i
      BY <1>3, <2>1, <2>4 DEF Size, Index
    <3>2. <<p, s>> \in loose => <<p, s, i>> \in LeftBehind(p, s, n)
      BY <2>1, <2>4, <3>1 DEF LeftBehind
    <3>3. <<p, s>> \notin loose => ~ (i < ff[fd[p][s]].size)
      BY <1>3, <1>4, <3>1 DEF Size, Index
    <3>4. <<p, s>> \in loose => <<p, s, i>> \in cut'
      BY <1>5, <3>2
    <3>5. <<p, t, i>> \in cut => <<p, t, i>> \in cut'
      BY <1>10, <2>1
    <3> QED BY <1>3, <2>2, <2>4, <3>3, <3>4, <3>5
  <2> QED BY <2>3, <2>4
<1>17. FilledOK(p)'
  <2> SUFFICES ASSUME NEW t \in Slot, NEW i \in Index, fd'[p][t] # NULL, <<p, t>> \notin loose',
                      Reached(p, t, i)'
               PROVE  page'[p][t][i] \in Block
    BY DEF FilledOK
  <2>1. t # s
    BY <1>8
  <2>2. i < ff[fd[p][t]].size
    BY <1>2, <1>6, <1>8, <2>1 DEF Reached
  <2>3. Reached(p, t, i)
    BY <2>1, <2>2 DEF Reached, s
  <2> QED BY <1>1, <1>7, <1>8, <1>9, <2>1, <2>3 DEF FilledOK
<1> QED BY <1>11, <1>12, <1>13, <1>14, <1>15, <1>16, <1>17 DEF Inv, Local

(* dup onto a slot not in use starts to map the pages at once. *)
LEMMA DupInv ==
  ASSUME Inv, TypeOK', NEW p \in Procs, NEW s \in Slot, NEW t \in Slot, Dup(p, s, t), fd[p][t] = NULL
  PROVE  Inv'
<1>1. CallOK(p) /\ DescOK(p) /\ Alone(p) /\ PagesOK(p) /\ FilledOK(p) /\ TypeOK
  BY DEF Inv, Local
<1>2. /\ p \in alive /\ call[p].op = "none" /\ fd[p][s] # NULL /\ s # t
      /\ UNCHANGED <<alive, fd, page, tab, ff, blk, cut, loose, msg>>
      /\ call' = [call EXCEPT ![p] = AtDup(NoCall, t, s)]
      /\ file' = [file EXCEPT ![p][t] = file[p][s]]
  BY DEF Dup, Start, AtDup, clientVars, tableVars, diskVars
<1>3. /\ call'[p].op = "dup" /\ call'[p].s = t /\ call'[p].dup = s
      /\ \A q \in Procs : q # p => call'[q] = call[q]
  <2>1. call'[p] = AtDup(NoCall, t, s) /\ \A q \in Procs : q # p => call'[q] = call[q]
    BY <1>1, <1>2 DEF TypeOK
  <2> QED BY <2>1, Nulls, AtDupFacts
<1>4. /\ file'[p][t] = file[p][s]
      /\ \A u \in Slot : u # t => file'[p][u] = file[p][u]
      /\ \A q \in Procs : q # p => file'[q] = file[q]
  BY <1>1, <1>2 DEF TypeOK
<1>5. ASSUME NEW q \in Procs, q # p PROVE Local(q)'
  <2>1. Unaffected(p, q)
    BY <1>2, <1>3, <1>4, <1>5 DEF Unaffected
  <2> QED BY <1>5, <2>1, OthersInv
<1>6. CallOK(p)' /\ SizeOK(p)'
  <2>1. msg[p].st # "sent"
    BY <1>1, <1>2 DEF CallOK, Asked
  <2>2. s # NULL
    BY Sets
  <2> QED BY <1>1, <1>2, <1>3, <2>1, <2>2 DEF CallOK, SizeOK, IdOps
<1>7. DescOK(p)'
  <2>1. \A u \in Slot : u # t =>
          /\ fd[p][u] = NULL => file'[p][u] = None
          /\ fd[p][u] # NULL =>
               /\ file'[p][u] # None
               /\ tab[fd[p][u]].page
               /\ ff[fd[p][u]].id = [e |-> fd[p][u], g |-> tab[fd[p][u]].g]
               /\ tab[fd[p][u]].o_file = file'[p][u]
    BY <1>1, <1>2, <1>4 DEF DescOK, Copied
  <2>2. file'[p][t] = file'[p][s]
    BY <1>2, <1>4
  <2> QED BY <1>2, <1>3, <2>1, <2>2 DEF DescOK, Copied, IdOps
<1>8. Alone(p)'
  BY <1>1, <1>2 DEF Alone
<1>9. PagesOK(p)'
  <2> SUFFICES ASSUME NEW u \in Slot, NEW i \in Index, page[p][u][i] \in Block
               PROVE  \/ <<p, u, i>> \in cut
                      \/ /\ file'[p][u] # None /\ page[p][u][i] = blk[file'[p][u]][i]
                         /\ fd[p][u] # NULL /\ <<p, u>> \notin loose => i < ff[fd[p][u]].size
    BY <1>2 DEF PagesOK
  <2>1. \/ <<p, u, i>> \in cut
        \/ /\ file[p][u] # None /\ page[p][u][i] = blk[file[p][u]][i]
           /\ fd[p][u] # NULL /\ <<p, u>> \notin loose => i < ff[fd[p][u]].size
    BY <1>1, <1>2 DEF PagesOK, Pending
  <2>2. file[p][t] = None
    BY <1>1, <1>2 DEF DescOK, Copied
  <2> QED BY <1>4, <2>1, <2>2
<1>10. FilledOK(p)'
  <2> SUFFICES ASSUME NEW u \in Slot, NEW i \in Index, fd[p][u] # NULL, <<p, u>> \notin loose,
                      Reached(p, u, i)'
               PROVE  page[p][u][i] \in Block
    BY <1>2 DEF FilledOK
  <2>1. Reached(p, u, i)
    BY <1>2, <1>3 DEF Reached
  <2> QED BY <1>1, <2>1 DEF FilledOK
<1> QED BY <1>5, <1>6, <1>7, <1>8, <1>9, <1>10 DEF Inv, Local

(* dup maps one page of the slot, or fails to. *)
LEMMA DupPageInv ==
  ASSUME Inv, TypeOK', NEW p \in Procs, DupPage(p)
  PROVE  Inv'
<1> DEFINE s == call[p].dup  t == call[p].s  n == call[p].i
<1>1. CallOK(p) /\ DescOK(p) /\ Alone(p) /\ PagesOK(p) /\ FilledOK(p) /\ TypeOK
  BY DEF Inv, Local
<1>2. /\ call[p].op = "dup" /\ n < MAXBLK /\ call' = [call EXCEPT ![p].i = n + 1]
      /\ UNCHANGED <<alive, fd, tab, ff, blk, msg, file, loose>>
  BY DEF DupPage, tableVars, diskVars
<1>3. s \in Slot /\ t \in Slot /\ fd[p][t] = NULL /\ p \in alive /\ n \in Index /\ n + 1 \in Size
  <2>1. t \in Slot /\ s \in Slot \union {NULL} /\ n \in Size
    BY <1>1, Fields
  <2> QED BY <1>1, <1>2, <2>1 DEF CallOK, Size, Index
<1>4. \/ /\ page' = [page EXCEPT ![p][t][n] = page[p][s][n]]
         /\ cut' = IF <<p, s, n>> \in cut THEN cut \union {<<p, t, n>>} ELSE cut \ {<<p, t, n>>}
      \/ UNCHANGED <<page, cut>>
  BY DEF DupPage
<1>5. /\ \A q \in Procs : q # p => call'[q] = call[q]
      /\ call'[p].op = "dup" /\ call'[p].s = t /\ call'[p].dup = s
  <2>1. call'[p] = AtNext(call[p], n + 1) /\ \A q \in Procs : q # p => call'[q] = call[q]
    BY <1>1, <1>2 DEF TypeOK, AtNext
  <2>2. call[p] \in Call
    BY <1>1, Fields
  <2> QED BY <1>2, <1>3, <2>1, <2>2, AtNextFacts
<1> HIDE DEF s, t, n
<1>6. /\ \A q \in Procs : q # p => page'[q] = page[q]
      /\ \A u \in Slot, i \in Index : u # t \/ i # n => page'[p][u][i] = page[p][u][i]
      /\ \/ page'[p][t][n] = page[p][s][n] /\ (<<p, s, n>> \in cut => <<p, t, n>> \in cut')
         \/ page'[p][t][n] = page[p][t][n] /\ (<<p, t, n>> \in cut => <<p, t, n>> \in cut')
  BY <1>1, <1>3, <1>4 DEF TypeOK
<1>7. \A q \in Procs, u \in Slot, i \in Index :
        (q # p \/ u # t \/ i # n) /\ <<q, u, i>> \in cut => <<q, u, i>> \in cut'
  BY <1>4
<1>8. ASSUME NEW q \in Procs, q # p PROVE Local(q)'
  <2>1. Unaffected(p, q)
    BY <1>2, <1>5, <1>6, <1>7, <1>8 DEF Unaffected
  <2> QED BY <1>8, <2>1, OthersInv
<1>9. CallOK(p)' /\ SizeOK(p)'
  <2>1. msg[p].st # "sent"
    BY <1>1, <1>2 DEF CallOK, Asked
  <2>2. s # NULL
    BY <1>3, Sets
  <2> QED BY <1>1, <1>2, <1>3, <1>5, <2>1, <2>2 DEF CallOK, SizeOK, IdOps
<1>10. DescOK(p)' /\ Alone(p)'
  <2>1. file[p][t] = file[p][s]
    BY <1>1, <1>2 DEF DescOK, s, t
  <2>2. \A u \in Slot : Copied(p, u)' <=> Copied(p, u)
    BY <1>2, <1>5 DEF Copied, t
  <2>3. DescOK(p)'
    BY <1>1, <1>2, <1>5, <2>1, <2>2 DEF DescOK, IdOps
  <2> QED BY <1>1, <1>2, <2>3 DEF Alone
<1>11. PagesOK(p)'
  <2> SUFFICES ASSUME NEW u \in Slot, NEW i \in Index, page'[p][u][i] \in Block
               PROVE  \/ <<p, u, i>> \in cut'
                      \/ /\ file[p][u] # None /\ page'[p][u][i] = blk[file[p][u]][i]
                         /\ fd[p][u] # NULL /\ <<p, u>> \notin loose => i < ff[fd[p][u]].size
    BY <1>2 DEF PagesOK
  <2>1. \A v \in Slot : page[p][v][i] \in Block =>
          \/ <<p, v, i>> \in cut
          \/ /\ file[p][v] # None /\ page[p][v][i] = blk[file[p][v]][i]
             /\ fd[p][v] # NULL /\ <<p, v>> \notin loose => i < ff[fd[p][v]].size
    BY <1>1, <1>2 DEF PagesOK, Pending
  <2>2. CASE u # t \/ i # n
    <3>1. page'[p][u][i] = page[p][u][i]
      BY <1>6, <2>2
    <3>2. <<p, u, i>> \in cut => <<p, u, i>> \in cut'
      BY <1>7, <2>2
    <3> QED BY <2>1, <3>1, <3>2
  <2>3. CASE u = t /\ i = n
    <3>1. file[p][t] = file[p][s]
      BY <1>1, <1>2 DEF DescOK, s, t
    <3>2. CASE page'[p][t][n] = page[p][s][n] /\ (<<p, s, n>> \in cut => <<p, t, n>> \in cut')
      BY <1>3, <2>1, <2>3, <3>1, <3>2
    <3>3. CASE page'[p][t][n] = page[p][t][n] /\ (<<p, t, n>> \in cut => <<p, t, n>> \in cut')
      BY <1>3, <2>1, <2>3, <3>3
    <3> QED BY <1>6, <3>2, <3>3
  <2> QED BY <2>2, <2>3
<1>12. FilledOK(p)'
  <2> SUFFICES ASSUME NEW u \in Slot, NEW i \in Index, fd[p][u] # NULL, <<p, u>> \notin loose,
                      Reached(p, u, i)'
               PROVE  page'[p][u][i] \in Block
    BY <1>2 DEF FilledOK
  <2>1. u # t /\ page'[p][u][i] = page[p][u][i]
    BY <1>3, <1>6
  <2>2. Reached(p, u, i)
    BY <1>2, <1>5, <2>1 DEF Reached, t
  <2> QED BY <1>1, <2>1, <2>2 DEF FilledOK
<1> QED BY <1>8, <1>9, <1>10, <1>11, <1>12 DEF Inv, Local

(* dup cannot map the descriptor: all of the slot is unmapped. *)
LEMMA DupFailsInv ==
  ASSUME Inv, TypeOK', NEW p \in Procs, call[p].op = "dup", Return(p),
         Unmap(p, call[p].s, 0, MAXBLK), cut' = StillCut(p, call[p].s, 0, MAXBLK),
         file' = [file EXCEPT ![p][call[p].s] = None],
         UNCHANGED <<alive, fd, tab, ff, blk, loose>>
  PROVE  Inv'
<1> DEFINE t == call[p].s
<1>1. CallOK(p) /\ DescOK(p) /\ Alone(p) /\ PagesOK(p) /\ FilledOK(p) /\ TypeOK
  BY DEF Inv, Local
<1>2. /\ Unmap(p, t, 0, MAXBLK) /\ cut' = StillCut(p, t, 0, MAXBLK)
      /\ file' = [file EXCEPT ![p][t] = None]
  OBVIOUS
<1>3. t \in Slot /\ fd[p][t] = NULL /\ p \in alive
  BY <1>1, Fields DEF CallOK
<1>4. \A u \in Slot : u # t => ~ Copied(p, u)
  BY DEF Copied
<1> HIDE DEF t
<1>5. /\ \A q \in Procs : q # p => page'[q] = page[q] /\ file'[q] = file[q]
      /\ \A u \in Slot : u # t => page'[p][u] = page[p][u] /\ file'[p][u] = file[p][u]
      /\ \A i \in Index : page'[p][t][i] = None
      /\ file'[p][t] = None
  BY <1>1, <1>2, <1>3, Sets DEF Unmap, TypeOK
<1>6. \A q \in Procs, u \in Slot, i \in Index : (q # p \/ u # t) /\ <<q, u, i>> \in cut => <<q, u, i>> \in cut'
  BY <1>2 DEF StillCut
<1>7. /\ call'[p] = NoCall /\ msg'[p] = NoMsg
      /\ \A q \in Procs : q # p => call'[q] = call[q] /\ msg'[q] = msg[q]
  BY <1>1 DEF Return, TypeOK
<1>8. ASSUME NEW q \in Procs, q # p PROVE Local(q)'
  <2>1. Unaffected(p, q)
    BY <1>5, <1>6, <1>7, <1>8 DEF Unaffected
  <2> QED BY <1>8, <2>1, OthersInv
<1>9. CallOK(p)' /\ SizeOK(p)'
  BY <1>3, <1>7, Nulls DEF CallOK, SizeOK, IdOps
<1>10. DescOK(p)' /\ Alone(p)'
  <2>1. \A u \in Slot : u # t =>
          /\ fd[p][u] = NULL => file'[p][u] = None
          /\ fd[p][u] # NULL =>
               /\ file'[p][u] # None
               /\ tab[fd[p][u]].page
               /\ ff[fd[p][u]].id = [e |-> fd[p][u], g |-> tab[fd[p][u]].g]
               /\ tab[fd[p][u]].o_file = file'[p][u]
    BY <1>1, <1>5, <1>4 DEF DescOK
  <2>2. DescOK(p)'
    BY <1>3, <1>5, <1>7, <2>1, Nulls DEF DescOK, IdOps
  <2> QED BY <1>1, <2>2 DEF Alone
<1>11. PagesOK(p)'
  <2> SUFFICES ASSUME NEW u \in Slot, NEW i \in Index, page'[p][u][i] \in Block
               PROVE  \/ <<p, u, i>> \in cut'
                      \/ /\ file'[p][u] # None /\ page'[p][u][i] = blk[file'[p][u]][i]
                         /\ fd[p][u] # NULL /\ <<p, u>> \notin loose => i < ff[fd[p][u]].size
    BY DEF PagesOK
  <2>1. u # t /\ page'[p][u][i] = page[p][u][i] /\ file'[p][u] = file[p][u]
    BY <1>5, Sets
  <2>2. ~ Pending(p, u, i)
    BY DEF Pending
  <2> QED BY <1>1, <1>6, <2>1, <2>2 DEF PagesOK
<1>12. FilledOK(p)'
  <2> SUFFICES ASSUME NEW u \in Slot, NEW i \in Index, fd[p][u] # NULL, <<p, u>> \notin loose,
                      Reached(p, u, i)'
               PROVE  page'[p][u][i] \in Block
    BY DEF FilledOK
  <2>1. u # t /\ i < ff[fd[p][u]].size
    BY <1>3, <1>7, Nulls DEF Reached
  <2>2. Reached(p, u, i)
    BY <2>1 DEF Reached, t
  <2> QED BY <1>1, <1>5, <2>1, <2>2 DEF FilledOK
<1> QED BY <1>8, <1>9, <1>10, <1>11, <1>12 DEF Inv, Local

(* dup maps the descriptor a second time. *)
LEMMA DupFdInv ==
  ASSUME Inv, TypeOK', NEW p \in Procs, call[p].op = "dup", Return(p), fd[p][call[p].dup] # NULL,
         fd' = [fd EXCEPT ![p][call[p].s] = fd[p][call[p].dup]],
         loose' = loose \union {<<p, call[p].dup>>, <<p, call[p].s>>},
         UNCHANGED <<alive, page, tab, ff, blk, cut, file>>
  PROVE  Inv'
<1> DEFINE s == call[p].dup  t == call[p].s
<1>1. CallOK(p) /\ DescOK(p) /\ Alone(p) /\ PagesOK(p) /\ FilledOK(p) /\ TypeOK
  BY DEF Inv, Local
<1>2. fd' = [fd EXCEPT ![p][t] = fd[p][s]] /\ loose' = loose \union {<<p, s>>, <<p, t>>}
  OBVIOUS
<1>3. /\ s \in Slot /\ t \in Slot /\ fd[p][t] = NULL /\ fd[p][s] # NULL /\ s # t /\ p \in alive
      /\ file[p][t] = file[p][s]
  <2>1. t \in Slot /\ s \in Slot \union {NULL}
    BY <1>1, Fields
  <2>2. file[p][t] = file[p][s]
    BY <1>1 DEF DescOK
  <2> QED BY <1>1, <2>1, <2>2 DEF CallOK
<1>4. \A u \in Slot : u # t => ~ Copied(p, u)
  BY DEF Copied
<1> HIDE DEF s, t
<1>5. /\ \A q \in Procs : q # p => fd'[q] = fd[q]
      /\ \A u \in Slot : u # t => fd'[p][u] = fd[p][u]
      /\ fd'[p][t] = fd[p][s]
  BY <1>1, <1>2, <1>3 DEF TypeOK
<1>6. /\ call'[p] = NoCall /\ msg'[p] = NoMsg
      /\ \A q \in Procs : q # p => call'[q] = call[q] /\ msg'[q] = msg[q]
  BY <1>1 DEF Return, TypeOK
<1>7. /\ \A q \in Procs, u \in Slot : q # p => (<<q, u>> \in loose' <=> <<q, u>> \in loose)
      /\ \A u \in Slot : u \notin {s, t} => (<<p, u>> \in loose' <=> <<p, u>> \in loose)
      /\ <<p, s>> \in loose' /\ <<p, t>> \in loose'
  BY <1>2
<1>8. \A q \in Procs, u \in Slot : fd'[q][u] = fd[q][u] \/ (q = p /\ u = t /\ fd'[q][u] = fd[p][s])
  BY <1>5
<1>9. ASSUME NEW q \in Procs, q # p PROVE Local(q)'
  <2>1. \A r \in Procs, u \in Slot : fd'[r][u] = fd[r][u] \/ \E v \in Slot : fd'[r][u] = fd[p][v]
    BY <1>3, <1>8
  <2>2. Unaffected(p, q)
    BY <1>5, <1>6, <1>7, <1>9, <2>1 DEF Unaffected
  <2> QED BY <1>9, <2>2, OthersInv
<1>10. CallOK(p)' /\ SizeOK(p)'
  BY <1>3, <1>6, Nulls DEF CallOK, SizeOK, IdOps
<1>11. DescOK(p)'
  <2>1. call'[p].op \notin IdOps /\ call'[p].op # "dup"
    BY <1>6, Nulls DEF IdOps
  <2>2. ASSUME NEW u \in Slot
        PROVE  /\ fd'[p][u] = NULL => file[p][u] = None
               /\ fd'[p][u] # NULL =>
                    /\ file[p][u] # None
                    /\ tab[fd'[p][u]].page
                    /\ ff[fd'[p][u]].id = [e |-> fd'[p][u], g |-> tab[fd'[p][u]].g]
                    /\ tab[fd'[p][u]].o_file = file[p][u]
    <3>1. CASE u = t
      BY <1>1, <1>3, <1>5, <3>1 DEF DescOK
    <3>2. CASE u # t
      BY <1>1, <1>5, <1>4, <3>2 DEF DescOK
    <3> QED BY <3>1, <3>2
  <2> QED BY <2>1, <2>2 DEF DescOK
<1>12. Alone(p)'
  <2> SUFFICES ASSUME NEW u \in Slot, fd'[p][u] # NULL, <<p, u>> \notin loose',
                      NEW q \in Procs, NEW v \in Slot, fd'[q][v] = fd'[p][u]
               PROVE  q = p /\ v = u
    BY DEF Alone
  <2>1. u \notin {s, t} /\ <<p, u>> \notin loose /\ fd'[p][u] = fd[p][u]
    BY <1>5, <1>7
  <2>2. \A r \in Procs, w \in Slot : fd[r][w] = fd[p][u] => r = p /\ w = u
    BY <1>1, <2>1 DEF Alone
  <2>3. fd[p][s] # fd[p][u]
    BY <1>3, <2>1, <2>2
  <2> QED BY <1>8, <2>1, <2>2, <2>3
<1>13. PagesOK(p)'
  <2> SUFFICES ASSUME NEW u \in Slot, NEW i \in Index, page[p][u][i] \in Block
               PROVE  \/ <<p, u, i>> \in cut
                      \/ /\ file[p][u] # None /\ page[p][u][i] = blk[file[p][u]][i]
                         /\ fd'[p][u] # NULL /\ <<p, u>> \notin loose' => i < ff[fd'[p][u]].size
    BY DEF PagesOK
  <2>1. \/ <<p, u, i>> \in cut
        \/ /\ file[p][u] # None /\ page[p][u][i] = blk[file[p][u]][i]
           /\ fd[p][u] # NULL /\ <<p, u>> \notin loose => i < ff[fd[p][u]].size
    BY <1>1 DEF PagesOK, Pending
  <2> QED BY <1>5, <1>7, <2>1
<1>14. FilledOK(p)'
  <2> SUFFICES ASSUME NEW u \in Slot, NEW i \in Index, fd'[p][u] # NULL, <<p, u>> \notin loose',
                      Reached(p, u, i)'
               PROVE  page[p][u][i] \in Block
    BY DEF FilledOK
  <2>1. u # t /\ <<p, u>> \notin loose /\ fd'[p][u] = fd[p][u]
    BY <1>5, <1>7
  <2>2. i < ff[fd[p][u]].size
    BY <1>6, <2>1, Nulls DEF Reached
  <2>3. Reached(p, u, i)
    BY <2>1, <2>2 DEF Reached, t
  <2> QED BY <1>1, <2>1, <2>3 DEF FilledOK
<1> QED BY <1>9, <1>10, <1>11, <1>12, <1>13, <1>14 DEF Inv, Local

(* The descriptors of a process that exits are gone. *)
LEMMA ExitInv ==
  ASSUME Inv, TypeOK', NEW p \in Procs, Exit(p)
  PROVE  Inv'
<1>1. CallOK(p) /\ TypeOK
  BY DEF Inv, Local
<1>2. call[p].op = "none" /\ UNCHANGED <<tab, ff, blk, call, msg>>
  BY DEF Exit, Start, tableVars, diskVars
<1>3. /\ \A q \in Procs : q # p => page'[q] = page[q] /\ fd'[q] = fd[q] /\ file'[q] = file[q]
      /\ \A s \in Slot : fd'[p][s] = NULL /\ file'[p][s] = None
      /\ \A s \in Slot, i \in Index : page'[p][s][i] = None
  BY <1>1 DEF Exit, TypeOK
<1>4. /\ \A q \in Procs : q # p => (q \in alive' <=> q \in alive)
      /\ \A q \in Procs, s \in Slot : q # p => (<<q, s>> \in loose' <=> <<q, s>> \in loose)
      /\ \A q \in Procs, s \in Slot, i \in Index : q # p /\ <<q, s, i>> \in cut => <<q, s, i>> \in cut'
  BY DEF Exit
<1>5. ASSUME NEW q \in Procs, q # p PROVE Local(q)'
  <2>1. \A r \in Procs, t \in Slot : fd'[r][t] # NULL => fd'[r][t] = fd[r][t]
    BY <1>3
  <2>2. Unaffected(p, q)
    BY <1>2, <1>3, <1>4, <1>5, <2>1 DEF Unaffected
  <2> QED BY <1>5, <2>2, OthersInv
<1>6. CallOK(p)' /\ SizeOK(p)'
  BY <1>1, <1>2, <1>3 DEF CallOK, Asked, SizeOK, IdOps
<1>7. DescOK(p)' /\ Alone(p)' /\ FilledOK(p)'
  BY <1>2, <1>3, <1>1 DEF DescOK, Alone, FilledOK, IdOps, Copied
<1>8. PagesOK(p)'
  BY <1>3, Sets DEF PagesOK
<1> QED BY <1>5, <1>6, <1>7, <1>8 DEF Inv, Local

(* fork: the child shares every descriptor. *)
LEMMA ForkInv ==
  ASSUME Inv, TypeOK', NEW p \in Procs, NEW q \in Procs, Fork(p, q)
  PROVE  Inv'
<1>1. /\ CallOK(p) /\ DescOK(p) /\ PagesOK(p) /\ CallOK(q) /\ TypeOK
      /\ p \in alive /\ q \notin alive /\ p # q /\ call[p].op = "none"
  BY DEF Inv, Local, Fork, Start
<1>2. call[q].op = "none" /\ UNCHANGED <<tab, ff, blk, call, msg>>
  BY <1>1 DEF Fork, tableVars, diskVars, CallOK
<1>3. /\ \A r \in Procs : r # q => page'[r] = page[r] /\ fd'[r] = fd[r] /\ file'[r] = file[r]
      /\ page'[q] = page[p] /\ fd'[q] = fd[p] /\ file'[q] = file[p]
  BY <1>1 DEF Fork, TypeOK
<1>4. \A r \in Procs : r \in alive' <=> r \in alive \/ r = q
  BY DEF Fork
<1>5. /\ \A r \in Procs, s \in Slot : r \notin {p, q} => (<<r, s>> \in loose' <=> <<r, s>> \in loose)
      /\ \A s \in Slot : fd[p][s] # NULL => <<p, s>> \in loose' /\ <<q, s>> \in loose'
  BY DEF Fork
<1>6. /\ \A r \in Procs, s \in Slot, i \in Index : <<r, s, i>> \in cut => <<r, s, i>> \in cut'
      /\ \A s \in Slot, i \in Index : <<p, s, i>> \in cut => <<q, s, i>> \in cut'
  <2>1. cut' = cut \union {<<q, x[2], x[3]>> : x \in {y \in cut : y[1] = p}}
    BY DEF Fork
  <2>2. ASSUME NEW s \in Slot, NEW i \in Index, <<p, s, i>> \in cut
        PROVE  <<q, s, i>> \in cut'
    <3>1. <<p, s, i>> \in {y \in cut : y[1] = p}
      BY <2>2
    <3>2. <<q, <<p, s, i>>[2], <<p, s, i>>[3]>> \in cut'
      BY <2>1, <3>1
    <3> QED BY <3>2
  <2> QED BY <2>1, <2>2
<1>7. ASSUME NEW r \in Procs, r \notin {p, q} PROVE Local(r)'
  <2>1. \A x \in Procs, t \in Slot : fd'[x][t] = fd[x][t] \/ \E u \in Slot : fd'[x][t] = fd[p][u]
    BY <1>3
  <2>2. Unaffected(p, r)
    BY <1>2, <1>3, <1>4, <1>5, <1>6, <1>7, <2>1 DEF Unaffected
  <2> QED BY <1>7, <2>2, OthersInv
<1>8. ASSUME NEW r \in {p, q} PROVE Local(r)'
  <2>1. /\ fd'[r] = fd[p] /\ file'[r] = file[p] /\ page'[r] = page[p]
        /\ call'[r].op = "none" /\ r \in alive' /\ r \in Procs
    BY <1>1, <1>2, <1>3, <1>4
  <2>2. CallOK(r)' /\ SizeOK(r)'
    <3>1. CallOK(r)
      BY <1>1
    <3> QED BY <1>2, <2>1, <3>1 DEF CallOK, Asked, SizeOK, IdOps
  <2>3. DescOK(r)'
    BY <1>1, <1>2, <2>1 DEF DescOK, Copied, IdOps
  <2>4. Alone(r)' /\ FilledOK(r)'
    BY <1>5, <2>1 DEF Alone, FilledOK
  <2>5. PagesOK(r)'
    <3> SUFFICES ASSUME NEW s \in Slot, NEW i \in Index, page[p][s][i] \in Block
                 PROVE  \/ <<r, s, i>> \in cut'
                        \/ /\ file[p][s] # None /\ page[p][s][i] = blk[file[p][s]][i]
                           /\ fd[p][s] # NULL /\ <<r, s>> \notin loose' => i < ff[fd[p][s]].size
      BY <1>2, <2>1 DEF PagesOK
    <3>1. <<p, s, i>> \in cut \/ (file[p][s] # None /\ page[p][s][i] = blk[file[p][s]][i])
      BY <1>1 DEF PagesOK, Pending
    <3>2. fd[p][s] # NULL => <<r, s>> \in loose'
      BY <1>5
    <3> QED BY <1>6, <3>1, <3>2
  <2> QED BY <2>2, <2>3, <2>4, <2>5 DEF Local
<1> QED BY <1>7, <1>8 DEF Inv

-----------------------------------------------------------------------------
(* Type correctness: what each step assigns *)

(* An answer is a request with its types. *)
LEMMA AnswerType ==
  ASSUME TypeOK, NEW p \in Procs, NEW r \in {"ok", "inval", "fail"}, Answer(p, r)
  PROVE  msg' \in [Procs -> Msg]
<1>1. PICK m \in Msg : msg' = [msg EXCEPT ![p] = m]
  BY AnswerFacts
<1> QED BY <1>1 DEF TypeOK

(* Types, for the requests that touch nothing else. *)
LEMMA PlainType ==
  ASSUME Inv, NEW p \in Procs, UNCHANGED <<call, ops>>,
         \/ OpenNoEntry(p) \/ CloseFile(p) \/ CreateFile(p) \/ PathFails(p) \/ Sync(p)
         \/ Panics(p) \/ BlockFails(p)
  PROVE  TypeOK'
<1>1. TypeOK /\ msg[p].path \in Paths \union {NULL} /\ call[p].s \in Slot
  BY Fields DEF Inv
<1>2. CASE OpenNoEntry(p) \/ CloseFile(p) \/ PathFails(p) \/ Sync(p)
  <2>1. msg' \in [Procs -> Msg]
    BY <1>1, <1>2, AnswerType DEF OpenNoEntry, CloseFile, PathFails, Sync
  <2>2. UNCHANGED <<clientVars, tableVars, diskVars, history>>
    BY <1>2 DEF OpenNoEntry, CloseFile, PathFails, Sync
  <2> QED BY <1>1, <2>1, <2>2 DEF TypeOK, clientVars, tableVars, diskVars, history
<1>3. CASE CreateFile(p)
  <2>1. msg' \in [Procs -> Msg]
    BY <1>1, <1>3, AnswerType DEF CreateFile
  <2>2. name' \in [File -> Paths \union {NULL}]
    BY <1>1, <1>3 DEF CreateFile, TypeOK
  <2> QED BY <1>1, <1>3, <2>1, <2>2 DEF CreateFile, TypeOK, clientVars, tableVars, history
<1>4. CASE Panics(p)
  BY <1>1, <1>4 DEF Panics, TypeOK, clientVars, tableVars, history
<1>5. CASE BlockFails(p)
  <2>1. msg' \in [Procs -> Msg]
    BY <1>1, <1>5, AnswerType DEF BlockFails
  <2>2. loose' \subseteq Procs \X Slot
    BY <1>1, <1>5 DEF BlockFails, TypeOK
  <2> QED BY <1>1, <1>5, <2>1, <2>2 DEF BlockFails, TypeOK, clientVars, tableVars, diskVars
<1> QED BY <1>2, <1>3, <1>4, <1>5

(* The id of an entry is an id, also when its count wraps. *)
LEMMA NewIdType ==
  ASSUME TypeOK, NEW e \in Entry
  PROVE  NewId(e) \in FileId /\ NewId(e).g \in 0 .. NGEN - 1
<1>1. tab[e].g \in 0 .. NGEN - 1
  BY Fields
<1>2. (tab[e].g + 1) % NGEN \in 0 .. NGEN - 1
  BY <1>1
<1> QED BY <1>2 DEF NewId, FileId

(* The entry that open_alloc has given a new id *)
AtEntry(x, g) == [x EXCEPT !.page = TRUE, !.g = g]

(* An entry with another count. *)
LEMMA AtEntryType == \A x \in TabType, g \in 0 .. NGEN - 1 : AtEntry(x, g) \in TabType
BY DEF AtEntry, TabType

(* Types, for serve_open. *)
LEMMA OpenType ==
  ASSUME Inv, NEW p \in Procs, UNCHANGED <<call, ops>>, OpenNoFile(p) \/ OpenFile(p)
  PROVE  TypeOK'
<1>1. TypeOK /\ call[p].s \in Slot
  BY Fields DEF Inv
<1>2. CASE OpenNoFile(p)
  <2>1. PICK e \in Entry :
          /\ tab' = [tab EXCEPT ![e].page = TRUE, ![e].g = NewId(e).g]
          /\ ff' = [ff EXCEPT ![e] = NoFf]
    BY <1>2 DEF OpenNoFile
  <2>2. NewId(e).g \in 0 .. NGEN - 1
    BY <1>1, NewIdType
  <2>3. tab' \in [Entry -> TabType]
    <3>1. tab \in [Entry -> TabType]
      BY <1>1 DEF TypeOK, TabType
    <3>2. tab' = [tab EXCEPT ![e] = AtEntry(tab[e], NewId(e).g)]
      BY <2>1, <3>1 DEF AtEntry
    <3>3. AtEntry(tab[e], NewId(e).g) \in TabType
      BY <2>2, <3>1, AtEntryType
    <3> QED BY <3>1, <3>2, <3>3
  <2>4. NoFf \in [id : FileId, size : Size, off : Nat]
    BY Nulls, Sets DEF NoFf
  <2>5. ff' \in [Entry -> [id : FileId, size : Size, off : Nat]]
    BY <1>1, <2>1, <2>4 DEF TypeOK
  <2>6. msg' \in [Procs -> Msg]
    BY <1>1, <1>2, AnswerType DEF OpenNoFile
  <2>7. UNCHANGED <<clientVars, diskVars, history>>
    BY <1>2 DEF OpenNoFile
  <2> QED BY <1>1, <2>3, <2>5, <2>6, <2>7 DEF TypeOK, TabType, clientVars, diskVars, history
<1>3. CASE OpenFile(p)
  <2>1. PICK e \in Entry, f \in File :
          /\ tab' = [tab EXCEPT ![e] = [page |-> TRUE, g |-> NewId(e).g, o_file |-> f]]
          /\ ff' = [ff EXCEPT ![e] = [id |-> NewId(e), size |-> fsize[f], off |-> 0]]
          /\ fd' = [fd EXCEPT ![p][call[p].s] = e]
          /\ file' = [file EXCEPT ![p][call[p].s] = f]
          /\ loose' = loose \ {<<p, call[p].s>>}
          /\ Answer(p, "ok")
          /\ UNCHANGED <<alive, page, diskVars, cut>>
    BY <1>3 DEF OpenFile
  <2>2. NewId(e) \in FileId /\ NewId(e).g \in 0 .. NGEN - 1
    BY <1>1, NewIdType
  <2>3. tab' \in [Entry -> [page : BOOLEAN, g : 0 .. NGEN - 1, o_file : File \union {None}]]
    BY <1>1, <2>1, <2>2 DEF TypeOK
  <2>4. fsize[f] \in Size
    BY <1>1 DEF TypeOK
  <2>5. ff' \in [Entry -> [id : FileId, size : Size, off : Nat]]
    BY <1>1, <2>1, <2>2, <2>4 DEF TypeOK
  <2>6. /\ fd' \in [Procs -> [Slot -> Entry \union {NULL}]]
        /\ file' \in [Procs -> [Slot -> File \union {None}]]
        /\ loose' \subseteq Procs \X Slot
    BY <1>1, <2>1 DEF TypeOK
  <2>7. msg' \in [Procs -> Msg]
    BY <1>1, <2>1, AnswerType
  <2>8. UNCHANGED <<alive, page, diskVars, cut>>
    BY <2>1
  <2> QED BY <1>1, <2>3, <2>5, <2>6, <2>7, <2>8 DEF TypeOK, diskVars
<1> QED BY <1>2, <1>3

(* Types, for serve_map and serve_dirty. *)
LEMMA BlockType ==
  ASSUME Inv, NEW p \in Procs, UNCHANGED <<call, ops>>, msg[p].st = "sent",
         \/ msg[p].type = "MAP" /\ MapBlock(p)
         \/ msg[p].type = "DIRTY" /\ DirtyBlock(p)
  PROVE  TypeOK'
<1> DEFINE f == tab[msg[p].id.e].o_file  n == msg[p].n
<1>1. TypeOK /\ call[p].s \in Slot
  BY Fields DEF Inv
<1>2. f \in File
  BY LookupFinds
<1>3. PICK b \in Block \union {Boot} :
        /\ GetBlock(f, n, b)
        /\ \/ UNCHANGED <<page, cut, loose>>
           \/ /\ page' = [page EXCEPT ![p][call[p].s][n] = b]
              /\ cut' = cut \ {<<p, call[p].s, n>>}
              /\ loose' = IF b = Boot THEN loose \union {<<p, call[p].s>>} ELSE loose
  BY DEF MapBlock, DirtyBlock, clientVars, history
<1>4. msg' \in [Procs -> Msg]
  BY <1>1, AnswerType DEF MapBlock, DirtyBlock
<1> HIDE DEF f, n
<1>5. blk' \in [File -> [Index -> Block \union {None}]] /\ used' \subseteq Block
  <2>1. CASE UNCHANGED <<blk, used>>
    BY <1>1, <2>1 DEF TypeOK
  <2>2. CASE b \in Block /\ blk' = [blk EXCEPT ![f][n] = b] /\ used' = used \union {b}
    BY <1>1, <1>2, <2>2 DEF TypeOK
  <2> QED BY <1>3, <2>1, <2>2 DEF GetBlock
<1>6. page' \in [Procs -> [Slot -> [Index -> Block \union {None, Priv, Boot}]]]
  <2>1. page \in [Procs -> [Slot -> [Index -> Block \union {None, Priv, Boot}]]]
    BY <1>1 DEF TypeOK
  <2>2. CASE page' = [page EXCEPT ![p][call[p].s][n] = b]
    <3>1. [page[p][call[p].s] EXCEPT ![n] = b] \in [Index -> Block \union {None, Priv, Boot}]
      <4>1. \A x \in [Index -> Block \union {None, Priv, Boot}] :
              [x EXCEPT ![n] = b] \in [Index -> Block \union {None, Priv, Boot}]
        OBVIOUS
      <4>2. page[p][call[p].s] \in [Index -> Block \union {None, Priv, Boot}]
        BY <1>1, <2>1
      <4> QED BY <4>1, <4>2
    <3>2. page' = [page EXCEPT ![p][call[p].s] = [page[p][call[p].s] EXCEPT ![n] = b]]
      BY <1>1, <2>1, <2>2
    <3> QED BY <1>1, <2>1, <3>1, <3>2
  <2> QED BY <1>3, <2>1, <2>2
<1>7. cut' \subseteq Procs \X Slot \X Index /\ loose' \subseteq Procs \X Slot
  BY <1>1, <1>3 DEF TypeOK
<1>8. UNCHANGED <<alive, fd, tab, ff, file, name, fsize, up>>
  BY <1>3 DEF MapBlock, DirtyBlock, clientVars, tableVars, history, GetBlock
<1> QED BY <1>1, <1>4, <1>5, <1>6, <1>7, <1>8 DEF TypeOK

(* Types, for file_truncate. *)
LEMMA TruncateType ==
  ASSUME TypeOK, NEW p \in Procs, NEW f \in File, NEW n \in Size, Truncate(f, n),
         cut' = cut \union LeftMapped(p, f, n)
  PROVE  /\ blk' \in [File -> [Index -> Block \union {None}]] /\ used' \subseteq Block
         /\ cut' \subseteq Procs \X Slot \X Index
<1>1. [i \in Index |-> IF i \in {n, n + 1} THEN None ELSE blk[f][i]] \in [Index -> Block \union {None}]
  BY Fields
<1>2. blk' \in [File -> [Index -> Block \union {None}]]
  BY <1>1 DEF Truncate, TypeOK
<1>3. used' \subseteq Block
  BY DEF Truncate, TypeOK
<1>4. cut' \subseteq Procs \X Slot \X Index
  BY DEF LeftMapped, TypeOK
<1> QED BY <1>2, <1>3, <1>4

(* Types, for serve_set_size and serve_remove. *)
LEMMA TruncatingType ==
  ASSUME Inv, NEW p \in Procs, UNCHANGED <<call, ops>>, msg[p].st = "sent",
         \/ msg[p].type = "SET_SIZE" /\ SetSize(p)
         \/ msg[p].type = "REMOVE" /\ RemoveFile(p)
  PROVE  TypeOK'
<1>1. TypeOK /\ msg[p].n \in Size
  BY Fields DEF Inv
<1>2. PICK f \in File, n \in Size :
        /\ \/ Truncate(f, n) /\ cut' = cut \union LeftMapped(p, f, n)
           \/ UNCHANGED <<blk, used, cut>>
        /\ fsize' = [fsize EXCEPT ![f] = n]
        /\ name' \in {name, [name EXCEPT ![f] = NULL]}
  <2>1. CASE msg[p].type = "SET_SIZE" /\ SetSize(p)
    <3>1. tab[msg[p].id.e].o_file \in File
      BY <2>1, LookupFinds
    <3> QED BY <1>1, <2>1, <3>1 DEF SetSize
  <2>2. CASE msg[p].type = "REMOVE" /\ RemoveFile(p)
    BY <2>2, Sets DEF RemoveFile
  <2> QED BY <2>1, <2>2
<1>3. /\ blk' \in [File -> [Index -> Block \union {None}]] /\ used' \subseteq Block
      /\ cut' \subseteq Procs \X Slot \X Index
  <2>1. CASE UNCHANGED <<blk, used, cut>>
    BY <1>1, <2>1 DEF TypeOK
  <2>2. CASE Truncate(f, n) /\ cut' = cut \union LeftMapped(p, f, n)
    BY <1>1, <2>2, TruncateType
  <2> QED BY <1>2, <2>1, <2>2
<1>4. fsize' \in [File -> Size] /\ name' \in [File -> Paths \union {NULL}]
  BY <1>1, <1>2 DEF TypeOK
<1>5. msg' \in [Procs -> Msg]
  BY <1>1, AnswerType DEF SetSize, RemoveFile
<1>6. UNCHANGED <<clientVars, tableVars, up, file, loose>>
  BY DEF SetSize, RemoveFile
<1> QED BY <1>1, <1>3, <1>4, <1>5, <1>6 DEF TypeOK, clientVars, tableVars

(* Types, for every request. *)
LEMMA ServeType ==
  ASSUME Inv, NEW p \in Procs, Serve(p)
  PROVE  TypeOK'
<1>1. msg[p].st = "sent" /\ UNCHANGED <<call, ops>>
  BY DEF Serve
<1>2. CASE msg[p].type \in {"MAP", "DIRTY", "SET_SIZE", "CLOSE"} /\ ServeId(p)
  <2>1. Lookup(msg[p].id)
    BY <1>1, <1>2, LookupFinds
  <2>2. \/ BlockFails(p) \/ CloseFile(p)
        \/ msg[p].type = "MAP" /\ MapBlock(p)
        \/ msg[p].type = "DIRTY" /\ DirtyBlock(p)
        \/ msg[p].type = "SET_SIZE" /\ SetSize(p)
    BY <1>2, <2>1 DEF ServeId
  <2> QED BY <1>1, <2>2, PlainType, BlockType, TruncatingType
<1>3. CASE OpenNoFile(p) \/ OpenFile(p)
  BY <1>1, <1>3, OpenType
<1>4. CASE msg[p].type = "REMOVE" /\ RemoveFile(p)
  BY <1>1, <1>4, TruncatingType
<1>5. CASE OpenNoEntry(p) \/ CreateFile(p) \/ PathFails(p) \/ Sync(p) \/ Panics(p)
  BY <1>1, <1>5, PlainType
<1> QED BY <1>2, <1>3, <1>4, <1>5 DEF Serve

PageType == [Index -> Block \union {None, Priv, Boot}]

(* The count of calls keeps its bound. *)
LEMMA StartType ==
  ASSUME TypeOK, NEW p, NEW a, Start(p, a)
  PROVE  ops' \in 0 .. MaxOps
BY DEF TypeOK, Start

(* The pages of one slot are replaced. *)
LEMMA SlotType ==
  ASSUME TypeOK, NEW p \in Procs, NEW s \in Slot, NEW x \in PageType, page' = [page EXCEPT ![p][s] = x]
  PROVE  page' \in [Procs -> [Slot -> PageType]]
<1>1. page \in [Procs -> [Slot -> PageType]]
  BY DEF TypeOK, PageType
<1> QED BY <1>1

(* An access maps at most a private page. *)
LEMMA TouchType ==
  ASSUME TypeOK, NEW p \in Procs, NEW s \in Slot, NEW i, Touch(p, s, i)
  PROVE  page' \in [Procs -> [Slot -> PageType]]
<1> DEFINE x == [page[p][s] EXCEPT ![i] = IF @ = None THEN Priv ELSE @]
<1>1. page \in [Procs -> [Slot -> PageType]]
  BY DEF TypeOK, PageType
<1>2. page[p][s] \in PageType
  BY <1>1
<1>3. x \in PageType
  BY <1>2 DEF PageType
<1>4. page' = [page EXCEPT ![p][s] = x]
  BY <1>1 DEF Touch
<1> QED BY <1>3, <1>4, SlotType

(* The pages that unmapping leaves, and the cut ones among them. *)
LEMMA UnmapType ==
  ASSUME TypeOK, NEW p \in Procs, NEW s \in Slot, NEW a, NEW b, Unmap(p, s, a, b)
  PROVE  page' \in [Procs -> [Slot -> PageType]] /\ StillCut(p, s, a, b) \subseteq Procs \X Slot \X Index
<1> DEFINE x == [i \in Index |-> IF a <= i /\ i < b THEN None ELSE page[p][s][i]]
<1>1. x \in PageType
  BY Fields DEF PageType
<1>2. page' = [page EXCEPT ![p][s] = x]
  BY DEF Unmap
<1>3. page' \in [Procs -> [Slot -> PageType]]
  BY <1>1, <1>2, SlotType
<1>4. StillCut(p, s, a, b) \subseteq Procs \X Slot \X Index
  BY DEF StillCut, TypeOK
<1> QED BY <1>3, <1>4

(* An offset is written to a Filefd. *)
LEMMA OffsetType ==
  ASSUME TypeOK, NEW e \in Entry, NEW n \in Nat, ff' = [ff EXCEPT ![e].off = n]
  PROVE  ff' \in [Entry -> FfType]
<1>1. ff \in [Entry -> FfType]
  BY DEF TypeOK, FfType
<1>2. \A x \in FfType : [x EXCEPT !.off = n] \in FfType
  BY DEF FfType
<1>3. ff' = [ff EXCEPT ![e] = [ff[e] EXCEPT !.off = n]]
  BY <1>1
<1> QED BY <1>1, <1>2, <1>3

(* A size is written to a Filefd. *)
LEMMA SizeType ==
  ASSUME TypeOK, NEW e \in Entry, NEW n \in Size, ff' = [ff EXCEPT ![e].size = n]
  PROVE  ff' \in [Entry -> FfType]
<1>1. ff \in [Entry -> FfType]
  BY DEF TypeOK, FfType
<1>2. \A x \in FfType : [x EXCEPT !.size = n] \in FfType
  BY DEF FfType
<1>3. ff' = [ff EXCEPT ![e] = [ff[e] EXCEPT !.size = n]]
  BY <1>1
<1> QED BY <1>1, <1>2, <1>3

(* Types, for seek. *)
LEMMA SeekType ==
  ASSUME Inv, NEW p \in Procs, NEW s \in Slot, NEW n \in Size, Seek(p, s, n)
  PROVE  TypeOK'
<1>1. TypeOK /\ fd[p][s] \in Entry /\ n \in Nat
  BY Fields DEF Inv, Seek, Size
<1>2. ff' \in [Entry -> FfType]
  BY <1>1, OffsetType DEF Seek
<1>3. ops' \in 0 .. MaxOps
  BY <1>1, StartType DEF Seek
<1>4. UNCHANGED <<clientVars, tab, diskVars, call, msg, history>>
  BY DEF Seek
<1> QED BY <1>1, <1>2, <1>3, <1>4 DEF TypeOK, FfType, clientVars, diskVars, history

(* Types, for the transfer of a block. *)
LEMMA AdvanceType ==
  ASSUME TypeOK, NEW p \in Procs, NEW s \in Slot, fd[p][s] # NULL, NEW i, Advance(p, s, i)
  PROVE  page' \in [Procs -> [Slot -> PageType]] /\ ff' \in [Entry -> FfType]
<1>1. fd[p][s] \in Entry /\ ff[fd[p][s]].off \in Nat
  BY Fields
<1>2. Touch(p, s, i) /\ ff' = [ff EXCEPT ![fd[p][s]].off = ff[fd[p][s]].off + 1]
  BY <1>1 DEF Advance, TypeOK
<1>3. ff[fd[p][s]].off + 1 \in Nat
  BY <1>1
<1> QED BY <1>1, <1>2, <1>3, TouchType, OffsetType

(* Types, for the first part of ftruncate. *)
LEMMA SizeFromType ==
  ASSUME TypeOK, NEW p \in Procs, NEW s \in Slot, fd[p][s] # NULL, NEW n \in Size,
         NEW w \in Index \union {NULL}, SizeFrom(p, s, n, w)
  PROVE  ff' \in [Entry -> FfType] /\ call' \in [Procs -> Call] /\ msg' \in [Procs -> Msg]
<1> DEFINE e == fd[p][s]  c == AtSize(NoCall, s, ff[e].id, ff[e].size, n, w)
<1>1. e \in Entry /\ ff[e].id \in FileId /\ ff[e].size \in Size
  BY Fields
<1>2. ff' = [ff EXCEPT ![e].size = n] /\ Ask(p, c, "SET_SIZE", ff[e].id, n, NULL)
  BY DEF SizeFrom, AtSize
<1> HIDE DEF e
<1>3. c \in Call
  BY <1>1, Nulls, AtSizeFacts
<1> HIDE DEF c
<1>4. PICK m \in Msg : Sets1(p, c, m)
  BY <1>1, <1>2, <1>3, AskFacts, Types
<1>5. call' \in [Procs -> Call] /\ msg' \in [Procs -> Msg]
  BY <1>3, <1>4 DEF Sets1, TypeOK
<1> QED BY <1>1, <1>2, <1>5, SizeType

(* Types, for read, write and ftruncate. *)
LEMMA ReadWriteType ==
  ASSUME Inv, NEW p \in Procs, NEW s \in Slot, NEW n \in Size,
         Read(p, s) \/ Write(p, s) \/ Ftruncate(p, s, n)
  PROVE  TypeOK'
<1>1. TypeOK /\ fd[p][s] # NULL
  BY DEF Inv, Read, Write, Ftruncate
<1>2. ops' \in 0 .. MaxOps
  BY <1>1, StartType DEF Read, Write, Ftruncate
<1>3. UNCHANGED <<alive, fd, tab, diskVars, history>>
  BY DEF Read, Write, Ftruncate, clientVars
<1>4. CASE (\E i : Advance(p, s, i)) /\ UNCHANGED <<call, msg>>
  <2>1. page' \in [Procs -> [Slot -> PageType]] /\ ff' \in [Entry -> FfType]
    BY <1>1, <1>4, AdvanceType
  <2> QED BY <1>1, <1>2, <1>3, <1>4, <2>1 DEF TypeOK, PageType, FfType, diskVars, history
<1>5. CASE (\E k \in Size, w \in Index \union {NULL} : SizeFrom(p, s, k, w)) /\ UNCHANGED page
  <2>1. ff' \in [Entry -> FfType] /\ call' \in [Procs -> Call] /\ msg' \in [Procs -> Msg]
    BY <1>1, <1>5, SizeFromType
  <2> QED BY <1>1, <1>2, <1>3, <1>5, <2>1 DEF TypeOK, FfType, diskVars, history
<1>6. CASE Read(p, s)
  BY <1>4, <1>6 DEF Read
<1>7. CASE Ftruncate(p, s, n)
  BY <1>5, <1>7 DEF Ftruncate, clientVars
<1>8. CASE Write(p, s)
  <2>1. fd[p][s] \in Entry /\ ff[fd[p][s]].off \in Nat
    BY <1>1, Fields
  <2>2. ff[fd[p][s]].off \in Index /\ ff[fd[p][s]].off + 1 \in Size
    BY <1>8, <2>1 DEF Write, Index, Size
  <2>3. \/ SizeFrom(p, s, ff[fd[p][s]].off + 1, ff[fd[p][s]].off) /\ UNCHANGED page
        \/ Advance(p, s, ff[fd[p][s]].off) /\ UNCHANGED <<call, msg>>
    BY <1>8 DEF Write
  <2> QED BY <1>4, <1>5, <2>2, <2>3
<1> QED BY <1>6, <1>7, <1>8

(* Types, for the end of a call. *)
LEMMA ReturnType ==
  ASSUME TypeOK, NEW p \in Procs, Return(p)
  PROVE  call' \in [Procs -> Call] /\ msg' \in [Procs -> Msg]
<1>1. call \in [Procs -> Call] /\ msg \in [Procs -> Msg]
  BY DEF TypeOK
<1> QED BY <1>1, Nulls DEF Return

(* Types, for the second part of file_write. *)
LEMMA WriteMoreType ==
  ASSUME Inv, NEW p \in Procs, WriteMore(p)
  PROVE  TypeOK'
<1>1. TypeOK /\ call[p].s \in Slot /\ fd[p][call[p].s] # NULL
  BY Fields DEF Inv, Local, CallOK, WriteMore
<1>2. page' \in [Procs -> [Slot -> PageType]] /\ ff' \in [Entry -> FfType]
  BY <1>1, AdvanceType DEF WriteMore
<1>3. call' \in [Procs -> Call] /\ msg' \in [Procs -> Msg]
  BY <1>1, ReturnType DEF WriteMore
<1>4. UNCHANGED <<alive, fd, tab, diskVars, ops, history>>
  BY DEF WriteMore
<1> QED BY <1>1, <1>2, <1>3, <1>4 DEF TypeOK, PageType, FfType, diskVars, history

(* Types, for the unmapping of ftruncate. *)
LEMMA ShrinkType ==
  ASSUME Inv, NEW p \in Procs, Shrink(p)
  PROVE  TypeOK'
<1>1. TypeOK /\ call[p] \in Call /\ call[p].s \in Slot
  BY Fields DEF Inv
<1>2. page' \in [Procs -> [Slot -> PageType]] /\ cut' \subseteq Procs \X Slot \X Index
  BY <1>1, UnmapType DEF Shrink
<1>3. call' \in [Procs -> Call] /\ msg' \in [Procs -> Msg]
  <2>1. CASE call[p].write = NULL
    BY <1>1, <2>1, ReturnType DEF Shrink
  <2>2. CASE call[p].write # NULL
    <3>1. call' = [call EXCEPT ![p] = AtOp(call[p], "write")] /\ msg' = msg
      BY <1>1, <2>2 DEF Shrink, AtOp, TypeOK
    <3>2. AtOp(call[p], "write") \in Call
      BY <1>1, AtOpFacts DEF CallOp
    <3> QED BY <1>1, <3>1, <3>2 DEF TypeOK
  <2> QED BY <2>1, <2>2
<1>4. UNCHANGED <<alive, fd, tableVars, diskVars, ops, file, loose>>
  BY DEF Shrink
<1> QED BY <1>1, <1>2, <1>3, <1>4 DEF TypeOK, PageType, tableVars, diskVars

(* Types, for the end of file_close. *)
LEMMA CloseReplyType ==
  ASSUME Inv, NEW p \in Procs, CloseReply(p)
  PROVE  TypeOK'
<1> DEFINE s == call[p].s
<1>1. TypeOK /\ s \in Slot /\ call[p].dup \in Slot \union {NULL}
  BY Fields DEF Inv
<1>2. page' \in [Procs -> [Slot -> PageType]] /\ cut' \subseteq Procs \X Slot \X Index
  <2>1. LeftBehind(p, s, CloseEnd(p)) \subseteq Procs \X Slot \X Index
    BY <1>1 DEF LeftBehind
  <2>2. /\ Unmap(p, s, 0, CloseEnd(p))
        /\ cut' = StillCut(p, s, 0, CloseEnd(p)) \union LeftBehind(p, s, CloseEnd(p))
    BY DEF CloseReply
  <2>3. StillCut(p, s, 0, CloseEnd(p)) \subseteq Procs \X Slot \X Index
    BY <1>1, <2>2, UnmapType
  <2>4. page' \in [Procs -> [Slot -> PageType]]
    BY <1>1, <2>2, UnmapType
  <2> QED BY <2>1, <2>2, <2>3, <2>4
<1>3. call' \in [Procs -> Call] /\ msg' \in [Procs -> Msg]
  <2>1. CASE call[p].dup = NULL
    BY <1>1, <2>1, ReturnType DEF CloseReply
  <2>2. CASE call[p].dup # NULL
    <3>1. Sets1(p, AtDup(NoCall, s, call[p].dup), NoMsg)
      BY <2>2 DEF CloseReply, AtDup, Sets1
    <3>2. AtDup(NoCall, s, call[p].dup) \in Call
      BY <1>1, <2>2, Nulls, AtDupFacts
    <3> QED BY <1>1, <3>1, <3>2, Nulls DEF Sets1, TypeOK
  <2> QED BY <2>1, <2>2
<1>4. /\ fd' \in [Procs -> [Slot -> Entry \union {NULL}]]
      /\ file' \in [Procs -> [Slot -> File \union {None}]]
      /\ loose' \subseteq Procs \X Slot
  <2>1. \A x \in Slot : file[p][x] \in File \union {None}
    BY <1>1, Fields
  <2> QED BY <1>1, <2>1 DEF CloseReply, TypeOK
<1>5. UNCHANGED <<alive, ops, tableVars, diskVars>>
  BY DEF CloseReply, Answered
<1> QED BY <1>1, <1>2, <1>3, <1>4, <1>5 DEF TypeOK, PageType, tableVars, diskVars

(* Types, for dup. *)
LEMMA DupType ==
  ASSUME Inv, NEW p \in Procs, NEW s \in Slot, NEW t \in Slot, Dup(p, s, t), fd[p][t] = NULL
  PROVE  TypeOK'
<1>1. TypeOK /\ file[p][s] \in File \union {None}
  BY Fields DEF Inv
<1>2. ops' \in 0 .. MaxOps
  BY <1>1, StartType DEF Dup
<1>3. call' \in [Procs -> Call]
  <2>1. call' = [call EXCEPT ![p] = AtDup(NoCall, t, s)]
    BY DEF Dup, AtDup
  <2> QED BY <1>1, <2>1, Nulls, AtDupFacts DEF TypeOK
<1>4. file' \in [Procs -> [Slot -> File \union {None}]]
  <2>1. file' = [file EXCEPT ![p][t] = file[p][s]]
    BY DEF Dup
  <2> QED BY <1>1, <2>1 DEF TypeOK
<1>5. UNCHANGED <<clientVars, tableVars, diskVars, cut, loose, msg>>
  BY DEF Dup
<1> QED BY <1>1, <1>2, <1>3, <1>4, <1>5 DEF TypeOK, clientVars, tableVars, diskVars

(* Types, for the mappings of dup. *)
LEMMA DupPageType ==
  ASSUME Inv, NEW p \in Procs, DupPage(p)
  PROVE  TypeOK'
<1> DEFINE s == call[p].dup  t == call[p].s  n == call[p].i
<1>1. TypeOK /\ s \in Slot /\ t \in Slot /\ n \in Index /\ n + 1 \in Size /\ call[p] \in Call
  <2>1. TypeOK /\ CallOK(p) /\ call[p].op = "dup" /\ n < MAXBLK
    BY DEF Inv, Local, DupPage
  <2> QED BY <2>1, Fields DEF CallOK, Size, Index
<1>2. call' \in [Procs -> Call]
  <2>1. call' = [call EXCEPT ![p] = AtNext(call[p], n + 1)]
    BY <1>1 DEF DupPage, AtNext, TypeOK
  <2> QED BY <1>1, <2>1, AtNextFacts DEF TypeOK
<1>3. UNCHANGED <<alive, fd, tableVars, diskVars, msg, ops, file, loose>>
  BY DEF DupPage
<1>4. \/ /\ page' = [page EXCEPT ![p][t][n] = page[p][s][n]]
         /\ cut' = IF <<p, s, n>> \in cut THEN cut \union {<<p, t, n>>} ELSE cut \ {<<p, t, n>>}
      \/ UNCHANGED <<page, cut>>
  BY DEF DupPage
<1> HIDE DEF s, t, n
<1>5. page' \in [Procs -> [Slot -> PageType]]
  <2>1. page \in [Procs -> [Slot -> PageType]]
    BY <1>1 DEF TypeOK, PageType
  <2>2. CASE page' = [page EXCEPT ![p][t][n] = page[p][s][n]]
    <3> DEFINE x == [page[p][t] EXCEPT ![n] = page[p][s][n]]
    <3>1. page[p][t] \in PageType /\ page[p][s][n] \in Block \union {None, Priv, Boot}
      BY <1>1, <2>1 DEF PageType
    <3>2. x \in PageType
      BY <3>1 DEF PageType
    <3>3. page' = [page EXCEPT ![p][t] = x]
      BY <1>1, <2>1, <2>2
    <3> QED BY <1>1, <3>2, <3>3, SlotType
  <2> QED BY <1>4, <2>1, <2>2
<1>6. cut' \subseteq Procs \X Slot \X Index
  BY <1>1, <1>4 DEF TypeOK
<1> QED BY <1>1, <1>2, <1>3, <1>5, <1>6 DEF TypeOK, PageType, tableVars, diskVars

(* Types, for the end of dup. *)
LEMMA DupFdType ==
  ASSUME Inv, NEW p \in Procs, DupFd(p)
  PROVE  TypeOK'
<1> DEFINE s == call[p].dup  t == call[p].s
<1>1. TypeOK /\ s \in Slot /\ t \in Slot
  <2>1. TypeOK /\ CallOK(p) /\ call[p].op = "dup"
    BY DEF Inv, Local, DupFd
  <2> QED BY <2>1, Fields DEF CallOK
<1>2. call' \in [Procs -> Call] /\ msg' \in [Procs -> Msg]
  BY <1>1, ReturnType DEF DupFd
<1>3. UNCHANGED <<alive, ops, tableVars, diskVars>>
  BY DEF DupFd
<1>4. CASE Unmap(p, t, 0, MAXBLK) /\ cut' = StillCut(p, t, 0, MAXBLK)
           /\ file' = [file EXCEPT ![p][t] = None] /\ UNCHANGED <<fd, loose>>
  <2>1. page' \in [Procs -> [Slot -> PageType]] /\ cut' \subseteq Procs \X Slot \X Index
    BY <1>1, <1>4, UnmapType
  <2>2. file' \in [Procs -> [Slot -> File \union {None}]]
    BY <1>1, <1>4 DEF TypeOK
  <2> QED BY <1>1, <1>2, <1>3, <1>4, <2>1, <2>2 DEF TypeOK, PageType, tableVars, diskVars
<1>5. CASE fd' = [fd EXCEPT ![p][t] = fd[p][s]] /\ loose' = loose \union {<<p, s>>, <<p, t>>}
           /\ UNCHANGED <<page, cut, file>>
  <2>1. fd[p][s] \in Entry \union {NULL}
    BY <1>1, Fields
  <2>2. fd' \in [Procs -> [Slot -> Entry \union {NULL}]] /\ loose' \subseteq Procs \X Slot
    BY <1>1, <1>5, <2>1 DEF TypeOK
  <2> QED BY <1>1, <1>2, <1>3, <1>5, <2>2 DEF TypeOK, tableVars, diskVars
<1> QED BY <1>4, <1>5 DEF DupFd

(* Types, for fork and exit. *)
LEMMA ForkExitType ==
  ASSUME Inv, NEW p \in Procs, NEW q \in Procs, Fork(p, q) \/ Exit(p)
  PROVE  TypeOK'
<1>1. TypeOK
  BY DEF Inv
<1>2. ops' \in 0 .. MaxOps /\ UNCHANGED <<tableVars, diskVars, call, msg>>
  BY <1>1, StartType DEF Fork, Exit
<1>3. alive' \subseteq Procs
  BY <1>1 DEF Fork, Exit, TypeOK
<1>4. /\ fd' \in [Procs -> [Slot -> Entry \union {NULL}]]
      /\ file' \in [Procs -> [Slot -> File \union {None}]]
  <2>1. /\ fd \in [Procs -> [Slot -> Entry \union {NULL}]]
        /\ file \in [Procs -> [Slot -> File \union {None}]]
    BY <1>1 DEF TypeOK
  <2>2. CASE Fork(p, q)
    BY <2>1, <2>2 DEF Fork
  <2>3. CASE Exit(p)
    BY <2>1, <2>3 DEF Exit
  <2> QED BY <2>2, <2>3
<1>5. page' \in [Procs -> [Slot -> PageType]]
  <2>1. page \in [Procs -> [Slot -> PageType]]
    BY <1>1 DEF TypeOK, PageType
  <2>2. CASE Fork(p, q)
    BY <2>1, <2>2 DEF Fork
  <2>3. CASE Exit(p)
    <3>1. [s \in Slot |-> [i \in Index |-> None]] \in [Slot -> PageType]
      BY DEF PageType
    <3> QED BY <2>1, <2>3, <3>1 DEF Exit
  <2> QED BY <2>2, <2>3
<1>6. cut' \subseteq Procs \X Slot \X Index
  <2>1. CASE Fork(p, q)
    <3>1. \A x \in cut : x[2] \in Slot /\ x[3] \in Index
      BY <1>1 DEF TypeOK
    <3> QED BY <1>1, <2>1, <3>1 DEF Fork, TypeOK
  <2>2. CASE Exit(p)
    BY <1>1, <2>2 DEF Exit, TypeOK
  <2> QED BY <2>1, <2>2
<1>7. loose' \subseteq Procs \X Slot
  BY <1>1 DEF Fork, Exit, TypeOK
<1> QED BY <1>1, <1>2, <1>3, <1>4, <1>5, <1>6, <1>7 DEF TypeOK, PageType, tableVars, diskVars

-----------------------------------------------------------------------------
(* The invariant and the theorems *)

(* At first nothing is open. *)
LEMMA InitInv == Init => Inv
<1> SUFFICES ASSUME Init PROVE Inv
  OBVIOUS
<1>1. fsize \in [File -> Size]
  <2>1. \A f \in File : Cardinality({i \in Index : Blk0[f][i] # None}) \in Size
    <3> TAKE f \in File
    <3> DEFINE S == {i \in Index : Blk0[f][i] # None}
    <3>1. IsFiniteSet(Index) /\ Cardinality(Index) = MAXBLK
      <4>1. IsFiniteSet(0 .. MAXBLK - 1) /\ Cardinality(0 .. MAXBLK - 1) = MAXBLK
        BY FS_Interval, 0 \in Int, MAXBLK - 1 \in Int
      <4> QED BY <4>1 DEF Index
    <3>2. S \subseteq Index
      OBVIOUS
    <3>3. Cardinality(S) \in Nat /\ Cardinality(S) <= MAXBLK
      BY <3>1, <3>2, FS_Subset, FS_CardinalityType
    <3> HIDE DEF S
    <3>4. Cardinality(S) \in Size
      BY <3>3 DEF Size
    <3> QED BY <3>4 DEF S
  <2> QED BY <2>1 DEF Init
<1>2. call \in [Procs -> Call] /\ msg \in [Procs -> Msg]
  BY Nulls DEF Init
<1>3. tab \in [Entry -> [page : BOOLEAN, g : 0 .. NGEN - 1, o_file : File \union {None}]]
  BY DEF Init
<1>4. ff \in [Entry -> [id : FileId, size : Size, off : Nat]]
  BY Nulls, Sets DEF Init, NoFf
<1>5. /\ fd \in [Procs -> [Slot -> Entry \union {NULL}]]
      /\ page \in [Procs -> [Slot -> [Index -> Block \union {None, Priv, Boot}]]]
      /\ file \in [Procs -> [Slot -> File \union {None}]]
  BY DEF Init
<1>6. TypeOK
  BY <1>1, <1>2, <1>3, <1>4, <1>5 DEF Init, TypeOK
<1>7. ASSUME NEW p \in Procs PROVE Local(p)
  <2>1. /\ call[p] = NoCall /\ msg[p] = NoMsg
        /\ \A s \in Slot : fd[p][s] = NULL /\ file[p][s] = None
        /\ \A s \in Slot, i \in Index : page[p][s][i] = None
    BY DEF Init
  <2>2. CallOK(p) /\ SizeOK(p)
    BY <2>1, Nulls DEF CallOK, SizeOK, IdOps
  <2>3. DescOK(p) /\ Alone(p) /\ FilledOK(p)
    BY <2>1, Nulls DEF DescOK, Copied, Alone, FilledOK, IdOps
  <2>4. PagesOK(p)
    BY <2>1, Sets DEF PagesOK
  <2> QED BY <2>2, <2>3, <2>4 DEF Local
<1> QED BY <1>6, <1>7 DEF Inv

(* What a library call begins with *)
LEMMA BeginInv ==
  ASSUME Inv, NEW p \in Procs, Begin(p)
  PROVE  Inv'
<1>1. TypeOK
  BY DEF Inv
<1>2. CASE \E path \in Paths : Open(p, path) \/ Remove(p, path) \/ Create(p, path)
  <2>1. PICK path \in Paths : Open(p, path) \/ Remove(p, path) \/ Create(p, path)
    BY <1>2
  <2>2. RestOK'
    <3>1. ops' \in 0 .. MaxOps
      BY <1>1, <2>1, StartType DEF Open, Remove, Create
    <3>2. UNCHANGED diskVars
      BY <2>1 DEF Open, Remove, Create
    <3> QED BY <1>1, <3>1, <3>2 DEF TypeOK, RestOK, diskVars
  <2> QED BY <2>1, <2>2, OpenInv, PathInv
<1>3. CASE \E s \in Slot : Close(p, s)
  <2>1. PICK s \in Slot : Close(p, s)
    BY <1>3
  <2>2. RestOK'
    <3>1. ops' \in 0 .. MaxOps
      BY <1>1, <2>1, StartType DEF Close
    <3> QED BY <1>1, <2>1, <3>1 DEF Close, TypeOK, RestOK, diskVars
  <2> QED BY <2>1, <2>2, CloseDupInv
<1>4. CASE \E s, t \in Slot : Dup(p, s, t)
  <2>1. PICK s \in Slot, t \in Slot : Dup(p, s, t)
    BY <1>4
  <2>2. RestOK'
    <3>1. ops' \in 0 .. MaxOps
      BY <1>1, <2>1, StartType DEF Dup
    <3>2. UNCHANGED diskVars
      BY <2>1 DEF Dup
    <3> QED BY <1>1, <3>1, <3>2 DEF TypeOK, RestOK, diskVars
  <2>3. CASE fd[p][t] # NULL
    BY <2>1, <2>2, <2>3, CloseDupInv
  <2>4. CASE fd[p][t] = NULL
    BY <2>1, <2>4, DupType, DupInv
  <2> QED BY <2>3, <2>4
<1>5. CASE SyncAll(p)
  <2>1. RestOK'
    <3>1. ops' \in 0 .. MaxOps
      BY <1>1, <1>5, StartType DEF SyncAll
    <3> QED BY <1>1, <1>5, <3>1 DEF SyncAll, TypeOK, RestOK, diskVars
  <2> QED BY <1>5, <2>1, PathInv
<1>6. CASE \E s \in Slot, n \in Size : Read(p, s) \/ Write(p, s) \/ Ftruncate(p, s, n)
  <2>1. PICK s \in Slot, n \in Size : Read(p, s) \/ Write(p, s) \/ Ftruncate(p, s, n)
    BY <1>6
  <2>2. TypeOK'
    BY <2>1, ReadWriteType
  <2>3. p \in alive /\ call[p].op = "none" /\ fd[p][s] # NULL
    BY <2>1 DEF Read, Write, Ftruncate, Start
  <2>4. fd[p][s] \in Entry /\ ff[fd[p][s]].off \in Nat /\ ff[fd[p][s]].size \in Size
    BY <1>1, <2>3, Fields
  <2>5. UNCHANGED <<alive, fd, tab, blk, file, cut, loose>>
    BY <2>1 DEF Read, Write, Ftruncate, clientVars, diskVars, history
  <2>6. CASE Read(p, s)
    <3>1. ff[fd[p][s]].off < MAXBLK
      BY <2>4, <2>6 DEF Read, Size
    <3> QED BY <2>2, <2>3, <2>5, <2>6, <3>1, AdvanceInv DEF Read
  <2>7. CASE Ftruncate(p, s, n)
    BY <2>2, <2>3, <2>5, <2>7, SizeFromInv DEF Ftruncate, clientVars
  <2>8. CASE Write(p, s)
    <3>1. ff[fd[p][s]].off \in Index /\ ff[fd[p][s]].off + 1 \in Size
      BY <2>4, <2>8 DEF Write, Index, Size
    <3>2. \/ SizeFrom(p, s, ff[fd[p][s]].off + 1, ff[fd[p][s]].off) /\ UNCHANGED page
          \/ Advance(p, s, ff[fd[p][s]].off) /\ UNCHANGED <<call, msg>>
      BY <2>8 DEF Write
    <3>3. ff[fd[p][s]].off < MAXBLK
      BY <2>8 DEF Write
    <3>4. ASSUME SizeFrom(p, s, ff[fd[p][s]].off + 1, ff[fd[p][s]].off), UNCHANGED page
          PROVE  Inv'
      BY <2>2, <2>3, <2>5, <3>1, <3>4, SizeFromInv
    <3>5. ASSUME Advance(p, s, ff[fd[p][s]].off), UNCHANGED <<call, msg>>
          PROVE  Inv'
      BY <2>2, <2>3, <2>5, <3>3, <3>5, AdvanceInv
    <3> QED BY <3>2, <3>4, <3>5
  <2> QED BY <2>1, <2>6, <2>7, <2>8
<1>7. CASE \E s \in Slot, n \in Size : Seek(p, s, n)
  BY <1>7, SeekType, SeekInv
<1>8. CASE Exit(p) \/ \E q \in Procs : Fork(p, q)
  BY <1>8, ForkExitType, ExitInv, ForkInv
<1>9. 0 \in Size
  BY Sets
<1> QED BY <1>2, <1>3, <1>4, <1>5, <1>6, <1>7, <1>8, <1>9 DEF Begin

(* How it goes on *)
LEMMA ContinueInv ==
  ASSUME Inv, NEW p \in Procs, Continue(p)
  PROVE  Inv'
<1>1. TypeOK
  BY DEF Inv
<1>2. CASE \/ OpenReply(p) \/ MapReply(p) \/ DirtyReply(p) \/ SizeReply(p)
           \/ GrowReply(p) \/ UndoReply(p) \/ PathReply(p)
  <2>1. UNCHANGED <<ops, diskVars>>
    BY <1>2 DEF OpenReply, MapReply, DirtyReply, SizeReply, GrowReply, UndoReply, PathReply, Answered
  <2>2. RestOK'
    BY <1>1, <2>1 DEF TypeOK, RestOK, diskVars
  <2> QED BY <1>2, <2>2, OpenReplyInv, MapReplyInv, DirtyReplyInv, SizeReplyInv, GrowReplyInv, LastReplyInv
<1>3. CASE CloseReply(p)
  BY <1>3, CloseReplyType, CloseReplyInv
<1>4. CASE DupPage(p)
  BY <1>4, DupPageType, DupPageInv
<1>5. CASE DupFd(p)
  <2>1. TypeOK' /\ call[p].op = "dup" /\ Return(p) /\ UNCHANGED <<alive, tab, ff, blk>>
    BY <1>5, DupFdType DEF DupFd, tableVars, diskVars
  <2>2. \/ /\ fd[p][call[p].dup] # NULL
           /\ fd' = [fd EXCEPT ![p][call[p].s] = fd[p][call[p].dup]]
           /\ loose' = loose \union {<<p, call[p].dup>>, <<p, call[p].s>>}
           /\ UNCHANGED <<page, cut, file>>
        \/ /\ Unmap(p, call[p].s, 0, MAXBLK) /\ cut' = StillCut(p, call[p].s, 0, MAXBLK)
           /\ file' = [file EXCEPT ![p][call[p].s] = None]
           /\ UNCHANGED <<fd, loose>>
    BY <1>5 DEF DupFd
  <2>3. ASSUME fd[p][call[p].dup] # NULL,
               fd' = [fd EXCEPT ![p][call[p].s] = fd[p][call[p].dup]],
               loose' = loose \union {<<p, call[p].dup>>, <<p, call[p].s>>},
               UNCHANGED <<page, cut, file>>
        PROVE  Inv'
    BY <2>1, <2>3, DupFdInv
  <2>4. ASSUME Unmap(p, call[p].s, 0, MAXBLK), cut' = StillCut(p, call[p].s, 0, MAXBLK),
               file' = [file EXCEPT ![p][call[p].s] = None],
               UNCHANGED <<fd, loose>>
        PROVE  Inv'
    BY <2>1, <2>4, DupFailsInv
  <2> QED BY <2>2, <2>3, <2>4
<1>6. CASE Shrink(p)
  BY <1>6, ShrinkType, ShrinkInv
<1>7. CASE WriteMore(p)
  BY <1>7, WriteMoreType, WriteMoreInv
<1> QED BY <1>2, <1>3, <1>4, <1>5, <1>6, <1>7 DEF Continue

(* A step that changes nothing. *)
LEMMA StutterInv ==
  ASSUME Inv, UNCHANGED vars
  PROVE  Inv'
BY DEF Inv, Local, TypeOK, CallOK, Asked, DescOK, Copied, Alone, SizeOK, PagesOK, Pending, FilledOK, Reached,
       vars, clientVars, tableVars, diskVars, history

(* Every step keeps the invariant. *)
LEMMA NextInv == Inv /\ [Next]_vars => Inv'
<1> SUFFICES ASSUME Inv, [Next]_vars PROVE Inv'
  OBVIOUS
<1>1. CASE \E p \in Procs : Begin(p)
  BY <1>1, BeginInv
<1>2. CASE \E p \in Procs : Serve(p)
  BY <1>2, ServeType, ServeInv
<1>3. CASE \E p \in Procs : Continue(p)
  BY <1>3, ContinueInv
<1>4. CASE UNCHANGED vars
  BY <1>4, StutterInv
<1> QED BY <1>1, <1>2, <1>3, <1>4 DEF Next, Finished

(***************************************************************************)
(* The invariant of the open files, of every number of processes, slots,   *)
(* entries of opentab, file ids and blocks: the calls under way and the    *)
(* requests they wait for, the descriptors, and what their pages show.     *)
(***************************************************************************)
THEOREM Invariant == Spec => []Inv
<1>1. Init => Inv
  BY InitInv
<1>2. Inv /\ [Next]_vars => Inv'
  BY NextInv
<1> QED BY <1>1, <1>2, PTL DEF Spec

(* The values of all variables keep their types: ids wrap in their 32 bits *)
(* and no loop of the library leaves the blocks of a largest file.         *)
THEOREM TypeCorrect == Spec => []TypeOK
<1>1. Inv => TypeOK
  BY DEF Inv
<1> QED BY <1>1, Invariant, PTL

(***************************************************************************)
(* A descriptor denotes the file it was opened on while anybody maps it,   *)
(* the id that a call has read stays good until it is used, and            *)
(* open_lookup refuses no request: the entry of opentab that open_alloc    *)
(* takes over is never one a client still maps.                            *)
(***************************************************************************)
THEOREM DescriptorDenotesFile == Spec => []IdDenotesFile
<1>1. Inv => IdDenotesFile
  <2> SUFFICES ASSUME Inv, NEW p \in Procs
               PROVE  /\ \A s \in Slot : fd[p][s] # NULL =>
                           /\ tab[fd[p][s]].page
                           /\ ff[fd[p][s]].id = [e |-> fd[p][s], g |-> tab[fd[p][s]].g]
                           /\ tab[fd[p][s]].o_file = file[p][s]
                      /\ call[p].op \in {"map", "dirty", "close", "size", "grow", "undo"} =>
                           /\ fd[p][call[p].s] = call[p].id.e
                           /\ call[p].id = ff[call[p].id.e].id
                      /\ msg[p].r # "inval"
    BY DEF IdDenotesFile
  <2>1. DescOK(p) /\ CallOK(p)
    BY DEF Inv, Local
  <2>2. \A s \in Slot : fd[p][s] # NULL =>
          /\ tab[fd[p][s]].page
          /\ ff[fd[p][s]].id = [e |-> fd[p][s], g |-> tab[fd[p][s]].g]
          /\ tab[fd[p][s]].o_file = file[p][s]
    BY <2>1 DEF DescOK
  <2>3. call[p].op \in IdOps =>
          fd[p][call[p].s] = call[p].id.e /\ call[p].id = ff[fd[p][call[p].s]].id
    BY <2>1 DEF DescOK
  <2>4. msg[p].r # "inval"
    BY <2>1 DEF CallOK
  <2> QED BY <2>2, <2>3, <2>4 DEF IdOps
<1> QED BY <1>1, Invariant, PTL

(***************************************************************************)
(* What a slot maps are blocks that its file has at these places, and      *)
(* nothing stays mapped behind a close, except for block 0, which stands   *)
(* for a hole, the pages of cut and those an ftruncate under way unmaps.   *)
(***************************************************************************)
THEOREM PagesAreOfTheFile == Spec => []MappedIsFile
<1>1. Inv => MappedIsFile
  <2> SUFFICES ASSUME Inv, NEW p \in Procs, NEW s \in Slot, NEW i \in Index, page[p][s][i] \in Block
               PROVE  \/ <<p, s, i>> \in cut
                      \/ file[p][s] # None /\ page[p][s][i] = blk[file[p][s]][i]
                      \/ /\ call[p].op \in {"size", "grow", "shrink"} /\ call[p].s = s
                         /\ call[p].new <= i /\ i < call[p].old
    BY DEF MappedIsFile
  <2>1. PagesOK(p)
    BY DEF Inv, Local
  <2> QED BY <2>1 DEF PagesOK, Pending
<1> QED BY <1>1, Invariant, PTL

(***************************************************************************)
(* Between calls, read and write reach the blocks of the file: all blocks  *)
(* below the size the Filefd tells are mapped in a descriptor that is not  *)
(* shared, on which no request failed and that was not given block 0.      *)
(***************************************************************************)
THEOREM WhatIsReadIsMapped == Spec => []WrittenIsMapped
<1>1. Inv => WrittenIsMapped
  <2> SUFFICES ASSUME Inv, NEW p \in Procs, NEW s \in Slot, fd[p][s] # NULL, <<p, s>> \notin loose,
                      call[p].op = "none" \/ call[p].s # s,
                      NEW i \in Index, i < ff[fd[p][s]].size
               PROVE  page[p][s][i] \in Block
    BY DEF WrittenIsMapped
  <2>1. Reached(p, s, i)
    BY DEF Reached
  <2> QED BY <2>1 DEF Inv, Local, FilledOK
<1> QED BY <1>1, Invariant, PTL
=============================================================================
