----------------------------- MODULE FileClient -----------------------------
(***************************************************************************)
(* Open files: the client library (user/file.c, user/fsipc.c, the file     *)
(* side of user/fd.c) and the open-file table of the server (fs/serv.c).   *)
(*                                                                         *)
(* The server gives every open file an entry of opentab, a file id and a   *)
(* page, the Filefd, which it maps into the client as the descriptor.      *)
(* The Filefd is shared by the server and by every process and every slot  *)
(* that inherits or duplicates the descriptor, and the entry is free when  *)
(* only the server still maps it.  The blocks of the file are mapped into  *)
(* the client one by one; read and write copy to and from these pages and  *)
(* the server is asked again only when the size changes.                   *)
(*                                                                         *)
(* The server takes one request at a time and the client sleeps until the  *)
(* answer: a request is sent, then received, handled and answered in one   *)
(* step (Serve), then the client goes on.  Sizes and offsets count blocks, *)
(* which are as large as pages; a call reads or writes one.  Every file is *)
(* opened for reading and writing: omode is left out.                      *)
(***************************************************************************)
EXTENDS Integers, FiniteSets

CONSTANTS
  Procs, First,  \* environments, and the one that runs at first
  NSLOT,         \* descriptor slots (MAXFD)
  NOPEN,         \* entries of opentab (MAXOPEN)
  NGEN,          \* ids an entry can have: 2^32 \div MAXOPEN
  NFILE,         \* File structures of the directory
  Paths,         \* path names
  Named, Blk0,   \* names and block numbers of the files at first
  MAXBLK,        \* blocks of the largest file (MAXFILESIZE)
  NBLK,          \* data blocks of the disk
  Api,           \* the calls in use
  MaxOps,        \* bound: library calls in all
  NULL

Slot  == 0 .. NSLOT - 1
Entry == 0 .. NOPEN - 1
File  == 1 .. NFILE
Index == 0 .. MAXBLK - 1   \* of a block in its file
Block == 1 .. NBLK
Size  == 0 .. MAXBLK

None == 0    \* no file, no block
Priv == -1   \* a page of the process itself, which page_out has mapped
Boot == -2   \* block 0 of the disk

ASSUME FileClientAssumption ==
  /\ First \in Procs
  /\ NSLOT \in Nat \ {0} /\ NOPEN \in Nat \ {0} /\ NGEN \in Nat \ {0}
  /\ NFILE \in Nat /\ MAXBLK \in Nat \ {0} /\ NBLK \in Nat /\ MaxOps \in Nat
  /\ NULL \notin Paths /\ NULL \notin Entry /\ NULL \notin Slot /\ NULL \notin Index
  /\ Named \in [File -> Paths \union {NULL}]
  /\ Blk0 \in [File -> [Index -> Block \union {None}]]

(* A file id is entry + MAXOPEN * generation (open_alloc). *)
FileId == [e : Entry, g : 0 .. NGEN - 1]

VARIABLES
  alive,    \* the processes there are
  fd,       \* the entry whose Filefd page is mapped at each slot
  page,     \* what is mapped at each page of the data area of a slot
  tab,      \* opentab: the page exists, o_fileid, o_file
  ff,       \* the contents of the Filefd page of each entry
  name, fsize, blk,  \* File structures: f_name, f_size, f_direct
  used,     \* blocks not marked free in the bitmap
  up,       \* the server has not panicked
  call,     \* the library call a process is in, see Call
  msg,      \* its request and the answer
  ops,      \* library calls so far
  file,     \* history: the File each descriptor was opened on
  cut,      \* history: pages that stayed mapped when the block left the file
  loose     \* history: descriptors that are shared, or that a call failed on
            \* or has been given block 0 for

clientVars == <<alive, fd, page>>
tableVars  == <<tab, ff>>
diskVars   == <<name, fsize, blk, used, up>>
history    == <<file, cut, loose>>
vars == <<clientVars, tableVars, diskVars, call, msg, ops, history>>

(***************************************************************************)
(* op: where the call is; s: its slot; id, i, end, old, new: the local     *)
(* variables fileid, i, the bound of the loop, oldsize, size; write: the   *)
(* offset at which file_write goes on after ftruncate; dup: the slot dup   *)
(* copies once its close is done.                                          *)
(***************************************************************************)
Call == [op : {"none", "open", "map", "dirty", "close", "size", "grow", "undo", "shrink", "write", "dup", "path"},
         s : Slot, id : FileId, i : Size, end : Size, old : Size, new : Size,
         write : Index \union {NULL}, dup : Slot \union {NULL}]
NoId   == [e |-> 0, g |-> 0]
NoCall == [op |-> "none", s |-> 0, id |-> NoId, i |-> 0, end |-> 0, old |-> 0, new |-> 0,
           write |-> NULL, dup |-> NULL]

(* type; the id; n: the offset or the size; path; r: the answer. *)
Msg == [st : {"none", "sent", "done"},
        type : {"OPEN", "MAP", "SET_SIZE", "CLOSE", "DIRTY", "REMOVE", "CREATE", "SYNC"},
        id : FileId, n : Size, path : Paths \union {NULL}, r : {"ok", "inval", "fail"}]
NoMsg == [st |-> "none", type |-> "SYNC", id |-> NoId, n |-> 0, path |-> NULL, r |-> "ok"]

TypeOK ==
  /\ alive \subseteq Procs
  /\ fd \in [Procs -> [Slot -> Entry \union {NULL}]]
  /\ page \in [Procs -> [Slot -> [Index -> Block \union {None, Priv, Boot}]]]
  /\ tab \in [Entry -> [page : BOOLEAN, g : 0 .. NGEN - 1, o_file : File \union {None}]]
  /\ ff \in [Entry -> [id : FileId, size : Size, off : Nat]]
  /\ name \in [File -> Paths \union {NULL}]
  /\ fsize \in [File -> Size]
  /\ blk \in [File -> [Index -> Block \union {None}]]
  /\ used \subseteq Block
  /\ up \in BOOLEAN
  /\ call \in [Procs -> Call]
  /\ msg \in [Procs -> Msg]
  /\ ops \in 0 .. MaxOps
  /\ file \in [Procs -> [Slot -> File \union {None}]]
  /\ cut \subseteq Procs \X Slot \X Index
  /\ loose \subseteq Procs \X Slot

NoFf == [id |-> NoId, size |-> 0, off |-> 0]

(* serve_init: entry i has id i. *)
Init ==
  /\ alive = {First}
  /\ fd = [p \in Procs |-> [s \in Slot |-> NULL]]
  /\ page = [p \in Procs |-> [s \in Slot |-> [i \in Index |-> None]]]
  /\ tab = [e \in Entry |-> [page |-> FALSE, g |-> 0, o_file |-> None]]
  /\ ff = [e \in Entry |-> NoFf]
  /\ name = Named
  /\ fsize = [f \in File |-> Cardinality({i \in Index : Blk0[f][i] # None})]
  /\ blk = Blk0
  /\ used = {b \in Block : \E f \in File, i \in Index : Blk0[f][i] = b}
  /\ up = TRUE
  /\ call = [p \in Procs |-> NoCall]
  /\ msg = [p \in Procs |-> NoMsg]
  /\ ops = 0
  /\ file = [p \in Procs |-> [s \in Slot |-> None]]
  /\ cut = {}
  /\ loose = {}

-----------------------------------------------------------------------------
(* The server *)

(* Clients that map the Filefd of e: pageref is one more, for the server. *)
Mapped(e) == {x \in Procs \X Slot : fd[x[1]][x[2]] = e}

(* Mutant: an entry is taken that one client still maps. *)
FreeEntryTwo(e) == Cardinality(Mapped(e)) <= 1

(* Cases 0 and 1 of open_alloc. *)
FreeEntry(e) == Mapped(e) = {}

FirstFree(e) == FreeEntry(e) /\ \A d \in Entry : d < e => ~ FreeEntry(d)

(* open_lookup: pageref is not 1 and the id is that of the entry. *)
Lookup(id) == (tab[id.e].page => Mapped(id.e) # {}) /\ tab[id.e].g = id.g

(* Mutant: the id grows past 32 bits. *)
NewIdWide(e) == [e |-> e, g |-> tab[e].g + 1]

(* o_fileid += MAXOPEN, in 32 bits. *)
NewId(e) == [e |-> e, g |-> (tab[e].g + 1) % NGEN]

Answer(p, r) == msg' = [msg EXCEPT ![p].st = "done", ![p].r = r]

(***************************************************************************)
(* serve_open.  Allocating the page of a new entry can fail; a path that   *)
(* is not found leaves an entry with a new id and an empty Filefd.         *)
(***************************************************************************)
OpenNoEntry(p) ==
  /\ \A e \in Entry : FirstFree(e) => ~ tab[e].page
  /\ Answer(p, "fail")
  /\ UNCHANGED <<clientVars, tableVars, diskVars, history>>

OpenNoFile(p) ==
  /\ \A f \in File : name[f] # msg[p].path
  /\ \E e \in Entry :
       /\ FirstFree(e)
       /\ tab' = [tab EXCEPT ![e].page = TRUE, ![e].g = NewId(e).g]
       /\ ff' = [ff EXCEPT ![e] = NoFf]
  /\ Answer(p, "fail")
  /\ UNCHANGED <<clientVars, diskVars, history>>

OpenFile(p) ==
  \E e \in Entry, f \in File :
    /\ FirstFree(e)
    /\ name[f] = msg[p].path
    /\ tab' = [tab EXCEPT ![e] = [page |-> TRUE, g |-> NewId(e).g, o_file |-> f]]
    /\ ff' = [ff EXCEPT ![e] = [id |-> NewId(e), size |-> fsize[f], off |-> 0]]
    /\ fd' = [fd EXCEPT ![p][call[p].s] = e]
    /\ file' = [file EXCEPT ![p][call[p].s] = f]
    /\ loose' = loose \ {<<p, call[p].s>>}
    /\ Answer(p, "ok")
    /\ UNCHANGED <<alive, page, diskVars, cut>>

BlkAt(f, i) == IF i \in Index THEN blk[f][i] ELSE None

(***************************************************************************)
(* file_map_block tests and returns the number of a block as a u64 that    *)
(* ends in the number of the next block: a missing block before one there  *)
(* is exists, as block 0.                                                  *)
(***************************************************************************)
Hole(f, i) == blk[f][i] = None /\ BlkAt(f, i + 1) # None

(***************************************************************************)
(* file_get_block: block i of f is b, taken from the bitmap if the file    *)
(* has none there; it does not look at the size of the file.               *)
(***************************************************************************)
GetBlock(f, i, b) ==
  /\ \/ Hole(f, i) /\ b = Boot /\ UNCHANGED <<blk, used>>
     \/ /\ ~ Hole(f, i) /\ b \in Block
        /\ IF blk[f][i] # None THEN b = blk[f][i]
           ELSE b \in Block \ used /\ \A c \in Block \ used : b <= c
        /\ blk' = [blk EXCEPT ![f][i] = b]
        /\ used' = used \union {b}
  /\ UNCHANGED <<name, fsize, up>>

Refused(p) ==
  /\ Answer(p, "inval")
  /\ UNCHANGED <<clientVars, tableVars, diskVars, history>>

(* No block is free, or there is no memory to hold it. *)
BlockFails(p) ==
  /\ loose' = loose \union {<<p, call[p].s>>}
  /\ Answer(p, "fail")
  /\ UNCHANGED <<clientVars, tableVars, diskVars, file, cut>>

(* serve_map, with the page mapped over what the client had there. *)
MapBlock(p) ==
  /\ \E b \in Block \union {Boot} :
       /\ GetBlock(tab[msg[p].id.e].o_file, msg[p].n, b)
       /\ page' = [page EXCEPT ![p][call[p].s][msg[p].n] = b]
       /\ cut' = cut \ {<<p, call[p].s, msg[p].n>>}
       /\ loose' = IF b = Boot THEN loose \union {<<p, call[p].s>>} ELSE loose
  /\ Answer(p, "ok")
  /\ UNCHANGED <<alive, fd, tableVars, file>>

(* serve_dirty: file_dirty gets the block, too, and writes a byte of it. *)
DirtyBlock(p) ==
  /\ \E b \in Block \union {Boot} : GetBlock(tab[msg[p].id.e].o_file, msg[p].n, b)
  /\ Answer(p, "ok")
  /\ UNCHANGED <<clientVars, tableVars, history>>

(***************************************************************************)
(* file_truncate(f, n) with the two block numbers that file_clear_block    *)
(* clears at a time (FsBlocks): the first block goes back to the bitmap,   *)
(* the second number is forgotten, and a third block makes free_block      *)
(* panic, as does a missing first block before a second one.               *)
(***************************************************************************)
ClearPanics(f, n) ==
  \/ fsize[f] > n /\ BlkAt(f, n) = None /\ BlkAt(f, n + 1) # None
  \/ fsize[f] > n + 1 /\ BlkAt(f, n + 2) # None

Truncate(f, n) ==
  /\ fsize[f] > n
  /\ ~ ClearPanics(f, n)
  /\ blk' = [blk EXCEPT ![f] = [i \in Index |-> IF i \in {n, n + 1} THEN None ELSE blk[f][i]]]
  /\ used' = used \ {BlkAt(f, n)}

(***************************************************************************)
(* The pages of f from n on that stay mapped when the file is cut there:   *)
(* all but those that the caller's own ftruncate is about to unmap.        *)
(***************************************************************************)
LeftMapped(p, f, n) ==
  {x \in Procs \X Slot \X Index :
     /\ page[x[1]][x[2]][x[3]] \in Block /\ x[3] >= n
     /\ file[x[1]][x[2]] = f
     /\ ~ (x[1] = p /\ x[2] = call[p].s /\ call[p].op = "size" /\ x[3] < call[p].old)}

(* serve_set_size, through file_set_size. *)
SetSize(p) ==
  LET f == tab[msg[p].id.e].o_file  n == msg[p].n IN
  /\ \/ Truncate(f, n) /\ cut' = cut \union LeftMapped(p, f, n)
     \/ fsize[f] <= n /\ UNCHANGED <<blk, used, cut>>
  /\ fsize' = [fsize EXCEPT ![f] = n]
  /\ Answer(p, "ok")
  /\ UNCHANGED <<clientVars, tableVars, name, up, file, loose>>

(* serve_close: the blocks are flushed to the disk. *)
CloseFile(p) ==
  /\ Answer(p, "ok")
  /\ UNCHANGED <<clientVars, tableVars, diskVars, history>>

(* serve_remove: the File keeps its entries of opentab. *)
RemoveFile(p) ==
  \E f \in File :
    /\ name[f] = msg[p].path
    /\ \/ Truncate(f, 0) /\ cut' = cut \union LeftMapped(p, f, 0)
       \/ fsize[f] = 0 /\ UNCHANGED <<blk, used, cut>>
    /\ fsize' = [fsize EXCEPT ![f] = 0]
    /\ name' = [name EXCEPT ![f] = NULL]
    /\ Answer(p, "ok")
    /\ UNCHANGED <<clientVars, tableVars, up, file, loose>>

(* free_block panics: the server is gone and nobody is answered any more. *)
Panics(p) ==
  /\ \E f \in File :
       \/ msg[p].type = "SET_SIZE" /\ Lookup(msg[p].id)
          /\ f = tab[msg[p].id.e].o_file /\ ClearPanics(f, msg[p].n)
       \/ msg[p].type = "REMOVE" /\ name[f] = msg[p].path /\ ClearPanics(f, 0)
  /\ up' = FALSE
  /\ UNCHANGED <<clientVars, tableVars, name, fsize, blk, used, msg, history>>

(* serve_create: the first File without a name (dir_alloc_file). *)
CreateFile(p) ==
  /\ \A f \in File : name[f] # msg[p].path
  /\ \E f \in File :
       /\ name[f] = NULL /\ \A g \in File : g < f => name[g] # NULL
       /\ name' = [name EXCEPT ![f] = msg[p].path]
  /\ Answer(p, "ok")
  /\ UNCHANGED <<clientVars, tableVars, fsize, blk, used, up, history>>

(* Not found, already there, or no room in the directory. *)
PathFails(p) ==
  /\ \/ msg[p].type = "REMOVE" /\ \A f \in File : name[f] # msg[p].path
     \/ msg[p].type = "CREATE" /\ \/ \E f \in File : name[f] = msg[p].path
                                  \/ \A f \in File : name[f] # NULL
  /\ Answer(p, "fail")
  /\ UNCHANGED <<clientVars, tableVars, diskVars, history>>

(* serve_sync *)
Sync(p) ==
  /\ Answer(p, "ok")
  /\ UNCHANGED <<clientVars, tableVars, diskVars, history>>

(* The requests that name an open file. *)
ServeId(p) ==
  IF ~ Lookup(msg[p].id) THEN Refused(p)
  ELSE \/ msg[p].type \in {"MAP", "DIRTY"} /\ BlockFails(p)
       \/ msg[p].type = "MAP" /\ MapBlock(p)
       \/ msg[p].type = "DIRTY" /\ DirtyBlock(p)
       \/ msg[p].type = "SET_SIZE" /\ SetSize(p)
       \/ msg[p].type = "CLOSE" /\ CloseFile(p)

(* serve: the request of p is received, handled and answered. *)
Serve(p) ==
  /\ up /\ msg[p].st = "sent"
  /\ \/ msg[p].type = "OPEN" /\ (OpenNoEntry(p) \/ OpenNoFile(p) \/ OpenFile(p))
     \/ msg[p].type \in {"MAP", "DIRTY", "SET_SIZE", "CLOSE"} /\ ServeId(p)
     \/ msg[p].type = "REMOVE" /\ RemoveFile(p)
     \/ msg[p].type = "CREATE" /\ CreateFile(p)
     \/ msg[p].type \in {"REMOVE", "CREATE"} /\ PathFails(p)
     \/ msg[p].type = "SYNC" /\ Sync(p)
     \/ Panics(p)
  /\ UNCHANGED <<call, ops>>

-----------------------------------------------------------------------------
(* The client library *)

(* fsipc: the request is sent; p sleeps until it is answered. *)
Ask(p, c, type, id, n, path) ==
  /\ call' = [call EXCEPT ![p] = c]
  /\ msg' = [msg EXCEPT ![p] = [NoMsg EXCEPT !.st = "sent", !.type = type, !.id = id,
                                             !.n = n, !.path = path]]

Return(p) ==
  /\ call' = [call EXCEPT ![p] = NoCall]
  /\ msg' = [msg EXCEPT ![p] = NoMsg]

(* A process starts a library call of kind a. *)
Start(p, a) ==
  /\ p \in alive /\ call[p].op = "none"
  /\ a \in Api /\ ops < MaxOps /\ ops' = ops + 1

Answered(p, op) == call[p].op = op /\ msg[p].st = "done" /\ UNCHANGED <<alive, ops>>

(* fd_alloc leaves out the last slot (fdno < MAXFD - 1). *)
FdAlloc(p, s) ==
  /\ s < NSLOT - 1 /\ fd[p][s] = NULL
  /\ \A t \in Slot : t < s => fd[p][t] # NULL

Open(p, path) ==
  /\ Start(p, "open")
  /\ \E s \in Slot :
       /\ FdAlloc(p, s)
       /\ Ask(p, [NoCall EXCEPT !.op = "open", !.s = s], "OPEN", NoId, 0, path)
  /\ UNCHANGED <<clientVars, tableVars, diskVars, history>>

(* open maps the blocks i .. end - 1. *)
MapFrom(p, c) ==
  IF c.i < c.end THEN Ask(p, c, "MAP", c.id, c.i, NULL) ELSE Return(p)

OpenReply(p) ==
  LET e == fd[p][call[p].s] IN
  /\ Answered(p, "open")
  /\ IF msg[p].r = "ok"
     THEN MapFrom(p, [call[p] EXCEPT !.op = "map", !.id = ff[e].id, !.end = ff[e].size])
     ELSE Return(p)
  /\ UNCHANGED <<fd, page, tableVars, diskVars, history>>

(* On an error open returns and leaves descriptor and pages mapped. *)
MapReply(p) ==
  /\ Answered(p, "map")
  /\ IF msg[p].r = "ok" THEN MapFrom(p, [call[p] EXCEPT !.i = @ + 1]) ELSE Return(p)
  /\ UNCHANGED <<fd, page, tableVars, diskVars, history>>

(***************************************************************************)
(* file_close: each page is reported dirty, whatever the answers, then the *)
(* file is closed.                                                         *)
(***************************************************************************)
DirtyFrom(p, c) ==
  IF c.i < c.end THEN Ask(p, c, "DIRTY", c.id, c.i, NULL)
  ELSE Ask(p, [c EXCEPT !.op = "close"], "CLOSE", c.id, 0, NULL)

CloseFrom(p, s, d) ==
  DirtyFrom(p, [NoCall EXCEPT !.op = "dirty", !.s = s, !.id = ff[fd[p][s]].id,
                              !.end = ff[fd[p][s]].size, !.dup = d])

Close(p, s) ==
  /\ Start(p, "close") /\ fd[p][s] # NULL
  /\ CloseFrom(p, s, NULL)
  /\ UNCHANGED <<clientVars, tableVars, diskVars, history>>

DirtyReply(p) ==
  /\ Answered(p, "dirty")
  /\ DirtyFrom(p, [call[p] EXCEPT !.i = @ + 1])
  /\ UNCHANGED <<fd, page, tableVars, diskVars, history>>

(* Pages a .. b - 1 of a slot are unmapped. *)
Unmap(p, s, a, b) ==
  page' = [page EXCEPT ![p][s] = [i \in Index |-> IF a <= i /\ i < b THEN None ELSE page[p][s][i]]]

StillCut(p, s, a, b) == {x \in cut : ~ (x[1] = p /\ x[2] = s /\ a <= x[3] /\ x[3] < b)}

(* The blocks file_close leaves mapped when the size in a shared Filefd    *)
(* has become smaller than what this process has mapped.                   *)
LeftBehind(p, s, a) ==
  {<<p, s, i>> : i \in {j \in Index : <<p, s>> \in loose /\ a <= j /\ page[p][s][j] \in Block}}

(* Mutant: the pages of the file stay mapped. *)
CloseEndKept(p) == 0

(* file_close unmaps the size it has read, unless the server has refused. *)
CloseEnd(p) == IF msg[p].r = "ok" THEN call[p].end ELSE 0

(* The end of file_close, and fd_close. *)
CloseReply(p) ==
  LET c == call[p] IN
  /\ Answered(p, "close")
  /\ Unmap(p, c.s, 0, CloseEnd(p))
  /\ cut' = StillCut(p, c.s, 0, CloseEnd(p)) \union LeftBehind(p, c.s, CloseEnd(p))
  /\ fd' = [fd EXCEPT ![p][c.s] = NULL]
  /\ file' = [file EXCEPT ![p][c.s] = IF c.dup \in {NULL, c.s} THEN None ELSE file[p][c.dup]]
  /\ loose' = loose \ {<<p, c.s>>}
  /\ IF c.dup = NULL THEN Return(p)
     ELSE call' = [call EXCEPT ![p] = [NoCall EXCEPT !.op = "dup", !.s = c.s, !.dup = c.dup]]
          /\ msg' = [msg EXCEPT ![p] = NoMsg]
  /\ UNCHANGED <<tableVars, diskVars>>

(* dup(s, t) closes t first. *)
Dup(p, s, t) ==
  /\ Start(p, "dup") /\ fd[p][s] # NULL
  /\ IF fd[p][t] # NULL THEN CloseFrom(p, t, s) /\ UNCHANGED file
     ELSE /\ call' = [call EXCEPT ![p] = [NoCall EXCEPT !.op = "dup", !.s = t, !.dup = s]]
          /\ file' = [file EXCEPT ![p][t] = file[p][s]]
          /\ UNCHANGED msg
  /\ UNCHANGED <<clientVars, tableVars, diskVars, cut, loose>>

(***************************************************************************)
(* The rest of dup: the pages of slot s are mapped at slot t one by one,   *)
(* a failure is ignored, then the descriptor.  When there is no memory for *)
(* it, or close(t) has closed s itself, all of slot t is unmapped.         *)
(***************************************************************************)
DupPage(p) ==
  LET s == call[p].dup  t == call[p].s  i == call[p].i IN
  /\ call[p].op = "dup" /\ i < MAXBLK
  /\ \/ /\ page[p][s][i] # None
        /\ page' = [page EXCEPT ![p][t][i] = page[p][s][i]]
        /\ cut' = IF <<p, s, i>> \in cut THEN cut \union {<<p, t, i>>} ELSE cut \ {<<p, t, i>>}
     \/ UNCHANGED <<page, cut>>
  /\ call' = [call EXCEPT ![p].i = i + 1]
  /\ UNCHANGED <<alive, fd, tableVars, diskVars, msg, ops, file, loose>>

DupFd(p) ==
  LET s == call[p].dup  t == call[p].s IN
  /\ call[p].op = "dup" /\ call[p].i = MAXBLK
  /\ \/ /\ fd[p][s] # NULL
        /\ fd' = [fd EXCEPT ![p][t] = fd[p][s]]
        /\ loose' = loose \union {<<p, s>>, <<p, t>>}
        /\ UNCHANGED <<page, cut, file>>
     \/ /\ Unmap(p, t, 0, MAXBLK)
        /\ cut' = StillCut(p, t, 0, MAXBLK)
        /\ file' = [file EXCEPT ![p][t] = None]
        /\ UNCHANGED <<fd, loose>>
  /\ Return(p)
  /\ UNCHANGED <<alive, tableVars, diskVars, ops>>

(* A page that is not mapped is made one of the process (page_out). *)
Touch(p, s, i) ==
  page' = [page EXCEPT ![p][s][i] = IF @ = None THEN Priv ELSE @]

(* file_read, file_write: the page is used and the offset moves on. *)
Advance(p, s, i) ==
  /\ Touch(p, s, i)
  /\ ff' = [ff EXCEPT ![fd[p][s]].off = @ + 1]

(* file_read: offset + n is cut to the size the Filefd tells. *)
Read(p, s) ==
  /\ Start(p, "read") /\ fd[p][s] # NULL
  /\ LET e == fd[p][s] IN
       /\ ff[e].off < ff[e].size
       /\ Advance(p, s, ff[e].off)
  /\ UNCHANGED <<alive, fd, tab, diskVars, call, msg, history>>

Seek(p, s, n) ==
  /\ Start(p, "seek") /\ fd[p][s] # NULL
  /\ ff' = [ff EXCEPT ![fd[p][s]].off = n]
  /\ UNCHANGED <<clientVars, tab, diskVars, call, msg, history>>

(* ftruncate sets the size in the Filefd and then asks the server. *)
SizeFrom(p, s, n, w) ==
  LET e == fd[p][s] IN
  /\ ff' = [ff EXCEPT ![e].size = n]
  /\ Ask(p, [NoCall EXCEPT !.op = "size", !.s = s, !.id = ff[e].id, !.old = ff[e].size,
                           !.new = n, !.write = w],
         "SET_SIZE", ff[e].id, n, NULL)

Ftruncate(p, s, n) ==
  /\ Start(p, "ftruncate") /\ fd[p][s] # NULL
  /\ SizeFrom(p, s, n, NULL)
  /\ UNCHANGED <<clientVars, tab, diskVars, history>>

(* file_write asks for a larger file when the Filefd says it ends before. *)
Write(p, s) ==
  /\ Start(p, "write") /\ fd[p][s] # NULL
  /\ LET e == fd[p][s] IN
       /\ ff[e].off < MAXBLK
       /\ IF ff[e].off + 1 > ff[e].size
          THEN SizeFrom(p, s, ff[e].off + 1, ff[e].off) /\ UNCHANGED page
          ELSE Advance(p, s, ff[e].off) /\ UNCHANGED <<call, msg>>
  /\ UNCHANGED <<alive, fd, tab, diskVars, history>>

(* ftruncate maps the blocks i .. new - 1, then unmaps, see Shrink. *)
GrowFrom(p, c) ==
  IF c.i < c.new THEN Ask(p, [c EXCEPT !.op = "grow"], "MAP", c.id, c.i, NULL)
  ELSE /\ call' = [call EXCEPT ![p] = [c EXCEPT !.op = "shrink"]]
       /\ msg' = [msg EXCEPT ![p] = NoMsg]

(* Mutant: the first new block is not mapped. *)
GrowStartLate(c) == c.old + 1

(* The first block that the client does not map yet. *)
GrowStart(c) == c.old

SizeReply(p) ==
  /\ Answered(p, "size")
  /\ IF msg[p].r = "ok" THEN GrowFrom(p, [call[p] EXCEPT !.i = GrowStart(call[p])]) ELSE Return(p)
  /\ UNCHANGED <<fd, page, tableVars, diskVars, history>>

(* On an error the size is set back at the server, not in the Filefd, and  *)
(* the blocks mapped so far stay mapped.                                   *)
GrowReply(p) ==
  /\ Answered(p, "grow")
  /\ IF msg[p].r = "ok" THEN GrowFrom(p, [call[p] EXCEPT !.i = @ + 1])
     ELSE Ask(p, [call[p] EXCEPT !.op = "undo"], "SET_SIZE", call[p].id, call[p].old, NULL)
  /\ UNCHANGED <<fd, page, tableVars, diskVars, history>>

UndoReply(p) ==
  /\ Answered(p, "undo")
  /\ Return(p)
  /\ UNCHANGED <<fd, page, tableVars, diskVars, history>>

(* ftruncate unmaps the blocks new .. old - 1 and is done. *)
Shrink(p) ==
  /\ call[p].op = "shrink"
  /\ Unmap(p, call[p].s, call[p].new, call[p].old)
  /\ cut' = StillCut(p, call[p].s, call[p].new, call[p].old)
  /\ IF call[p].write = NULL THEN Return(p)
     ELSE call' = [call EXCEPT ![p].op = "write"] /\ UNCHANGED msg
  /\ UNCHANGED <<alive, fd, tableVars, diskVars, ops, file, loose>>

(* file_write goes on after ftruncate. *)
WriteMore(p) ==
  /\ call[p].op = "write"
  /\ Advance(p, call[p].s, call[p].write)
  /\ Return(p)
  /\ UNCHANGED <<alive, fd, tab, diskVars, ops, history>>

(* create, remove and sync: one request each. *)
Remove(p, path) ==
  /\ Start(p, "remove")
  /\ Ask(p, [NoCall EXCEPT !.op = "path"], "REMOVE", NoId, 0, path)
  /\ UNCHANGED <<clientVars, tableVars, diskVars, history>>

Create(p, path) ==
  /\ Start(p, "create")
  /\ Ask(p, [NoCall EXCEPT !.op = "path"], "CREATE", NoId, 0, path)
  /\ UNCHANGED <<clientVars, tableVars, diskVars, history>>

SyncAll(p) ==
  /\ Start(p, "sync")
  /\ Ask(p, [NoCall EXCEPT !.op = "path"], "SYNC", NoId, 0, NULL)
  /\ UNCHANGED <<clientVars, tableVars, diskVars, history>>

PathReply(p) ==
  /\ Answered(p, "path")
  /\ Return(p)
  /\ UNCHANGED <<fd, page, tableVars, diskVars, history>>

(* fork: Filefd and blocks are PTE_LIBRARY pages and shared; a page of the *)
(* process itself is copied (module Fork).                                 *)
Fork(p, q) ==
  /\ Start(p, "fork") /\ q \in Procs \ alive
  /\ alive' = alive \union {q}
  /\ fd' = [fd EXCEPT ![q] = fd[p]]
  /\ page' = [page EXCEPT ![q] = page[p]]
  /\ file' = [file EXCEPT ![q] = file[p]]
  /\ cut' = cut \union {<<q, x[2], x[3]>> : x \in {y \in cut : y[1] = p}}
  /\ loose' = loose \union ({p, q} \X {s \in Slot : fd[p][s] # NULL})
  /\ UNCHANGED <<tableVars, diskVars, call, msg>>

(* exit: env_free unmaps everything and no file is closed. *)
Exit(p) ==
  /\ Start(p, "exit")
  /\ alive' = alive \ {p}
  /\ fd' = [fd EXCEPT ![p] = [s \in Slot |-> NULL]]
  /\ page' = [page EXCEPT ![p] = [s \in Slot |-> [i \in Index |-> None]]]
  /\ file' = [file EXCEPT ![p] = [s \in Slot |-> None]]
  /\ cut' = {x \in cut : x[1] # p}
  /\ loose' = {x \in loose : x[1] # p}
  /\ UNCHANGED <<tableVars, diskVars, call, msg>>

(* The server is gone, or no process is left, or the bound is reached. *)
Finished ==
  /\ ~ up \/ ((alive = {} \/ ops = MaxOps) /\ \A p \in alive : call[p].op = "none")
  /\ UNCHANGED vars

Begin(p) ==
  \/ \E path \in Paths : Open(p, path) \/ Remove(p, path) \/ Create(p, path)
  \/ \E s \in Slot : Close(p, s) \/ Read(p, s) \/ Write(p, s)
  \/ \E s \in Slot, n \in Size : Seek(p, s, n) \/ Ftruncate(p, s, n)
  \/ \E s, t \in Slot : Dup(p, s, t)
  \/ \E q \in Procs : Fork(p, q)
  \/ SyncAll(p) \/ Exit(p)

Continue(p) ==
  \/ OpenReply(p) \/ MapReply(p) \/ DirtyReply(p) \/ CloseReply(p) \/ DupPage(p) \/ DupFd(p)
  \/ SizeReply(p) \/ GrowReply(p) \/ UndoReply(p) \/ Shrink(p) \/ WriteMore(p)
  \/ PathReply(p)

Next == (\E p \in Procs : Begin(p) \/ Serve(p) \/ Continue(p)) \/ Finished

Spec == Init /\ [][Next]_vars

-----------------------------------------------------------------------------
(* Properties *)

(***************************************************************************)
(* A descriptor denotes the file it was opened on as long as anybody maps  *)
(* it: its id is the current id of its entry, whose o_file is that file,   *)
(* although entries are taken over by what pageref says while processes    *)
(* inherit, duplicate and drop the page.  A call under way uses that id,   *)
(* and open_lookup refuses no request of the library.                      *)
(***************************************************************************)
IdDenotesFile ==
  \A p \in Procs :
    /\ \A s \in Slot : fd[p][s] # NULL =>
         /\ tab[fd[p][s]].page
         /\ ff[fd[p][s]].id = [e |-> fd[p][s], g |-> tab[fd[p][s]].g]
         /\ tab[fd[p][s]].o_file = file[p][s]
    /\ call[p].op \in {"map", "dirty", "close", "size", "grow", "undo"} =>
         /\ fd[p][call[p].s] = call[p].id.e
         /\ call[p].id = ff[call[p].id.e].id
    /\ msg[p].r # "inval"

(***************************************************************************)
(* A page of the data area of a slot that is a block of the disk is the    *)
(* block the file of the descriptor has at that index, and no block stays  *)
(* mapped after close: a freed block that another file takes over is not   *)
(* within reach.  The exceptions are blocks that left the file by another  *)
(* client's ftruncate or remove, or that stay after a growth that failed   *)
(* or after the close of a descriptor shared with somebody who shortened   *)
(* the file (cut), and those an ftruncate under way has yet to unmap.      *)
(* Block 0, which a hole in the file stands for, is none of these blocks.  *)
(***************************************************************************)
MappedIsFile ==
  \A p \in Procs, s \in Slot, i \in Index :
    page[p][s][i] \in Block =>
      \/ <<p, s, i>> \in cut
      \/ file[p][s] # None /\ page[p][s][i] = blk[file[p][s]][i]
      \/ /\ call[p].op \in {"size", "grow", "shrink"} /\ call[p].s = s
         /\ call[p].new <= i /\ i < call[p].old

(***************************************************************************)
(* Between calls every page below the size the Filefd tells is a block of  *)
(* a file, so that read and write reach the file and not a page that       *)
(* page_out makes up.  It is not so for a descriptor that is shared        *)
(* (another process extends the file and maps the block only in its own    *)
(* slot), on which a request failed (open and ftruncate give up half way)  *)
(* or that has been given block 0 for a hole: those are loose.             *)
(***************************************************************************)
WrittenIsMapped ==
  \A p \in Procs, s \in Slot :
    fd[p][s] # NULL /\ <<p, s>> \notin loose /\ (call[p].op = "none" \/ call[p].s # s) =>
      \A i \in Index : i < ff[fd[p][s]].size => page[p][s][i] \in Block

(***************************************************************************)
(* file_map_block: "If alloc is set and the block does not exist, allocate *)
(* it."  What a client is given for a block of a file is never block 0.    *)
(***************************************************************************)
MissingIsAllocated == \A p \in Procs, s \in Slot, i \in Index : page[p][s][i] # Boot

(***************************************************************************)
(* file.c:196 says that file_write may "Increase the file's size if        *)
(* necessary": no write makes a file smaller.                              *)
(***************************************************************************)
WriteNeverShrinks ==
  [][\A p \in Procs, f \in File :
       call[p].op = "size" /\ call[p].write # NULL /\ msg[p].st = "sent" /\ msg'[p].st = "done"
         => fsize'[f] >= fsize[f]]_vars
=============================================================================
