-------------------------------- MODULE Pipe --------------------------------
(***************************************************************************)
(* A pipe between processes: user/pipe.c, close, dup, read and write of    *)
(* user/fd.c, and the copying of shared pages by fork (user/fork.c) and    *)
(* spawn (user/spawn.c).                                                   *)
(*                                                                         *)
(* A pipe is three shared pages: a descriptor page for each end and the    *)
(* data page with the ring buffer, mapped once for every descriptor slot   *)
(* that is open.  Whether the other end is closed is told from the         *)
(* reference counts of these pages (sys_get_pageref), which count the page *)
(* table entries (Pmap, RefExact).  Mapping and unmapping are one system   *)
(* call per page; between any two of them, and between any two accesses to *)
(* the shared pages, the timer can switch to another process.              *)
(*                                                                         *)
(* The k-th byte written is the number k.                                  *)
(***************************************************************************)
EXTENDS Integers, FiniteSets, FiniteSetsExt

CONSTANTS
  Proc,      \* environments
  NSLOT,     \* descriptor slots of a process (MAXFD)
  BY2PIPE,   \* size of the ring buffer (32)
  MaxByte,   \* bound: bytes written in all
  Chunk,     \* sizes n of a read or a write
  Reader, Writer,  \* the processes that read and that write
  Start,     \* the descriptors each process starts with
  Api,       \* the calls in use besides read and write
  NULL

Slot == 0 .. NSLOT - 1
End  == {"r", "w"}

ASSUME PipeAssumption ==
  /\ IsFiniteSet(Proc) /\ Proc # {}
  /\ NSLOT \in Nat \ {0} /\ BY2PIPE \in Nat \ {0} /\ MaxByte \in Nat
  /\ Chunk \subseteq Nat \ {0}
  /\ Reader \subseteq Proc /\ Writer \subseteq Proc
  /\ Start \in [Proc -> [Slot -> End \union {NULL}]]
  /\ Api \subseteq {"close", "dup", "fork", "exit", "test"}
  /\ NULL \notin Proc /\ NULL \notin End

VARIABLES
  fdm,               \* the descriptor page mapped at each slot
  data,              \* the slots at which the data page is mapped
  torn,              \* history: a dup has left a descriptor without its data page
  p_rpos, p_wpos, p_buf,
  pc,                \* control, see Pc
  loc,               \* arguments and local variables of the call under way
  cur                \* the running process

fdVars  == <<fdm, data, torn>>
bufVars == <<p_rpos, p_wpos, p_buf>>
vars    == <<fdVars, bufVars, pc, loc, cur>>

(***************************************************************************)
(* op: the call; slot, new: its descriptor and the target of dup; i, n and *)
(* byte: of piperead and pipewrite, with the byte read; fdref: of          *)
(* _pipeisclosed, and fresh: env_runs is as it has read it; child, k: of   *)
(* fork, the next page.                                                    *)
(***************************************************************************)
Local == [op : {"none", "read", "write", "test", "close", "dup", "fork"},
          slot : Slot, new : Slot, i : Nat, n : Nat, byte : Nat,
          fdref : Nat, fresh : BOOLEAN, child : Proc \union {NULL}, k : Nat]
NoCall == [op |-> "none", slot |-> 0, new |-> 0, i |-> 0, n |-> 0, byte |-> 0,
           fdref |-> 0, fresh |-> FALSE, child |-> NULL, k |-> 0]

(***************************************************************************)
(* "none" is a process that does not exist yet, "new" one that is being    *)
(* built by fork, "run" one that is in no call.                            *)
(***************************************************************************)
Pc == {"none", "new", "run", "dead", "close", "dupdata", "dupfd", "fork",
       "rtest", "rget", "rinc", "wtest", "wput", "winc", "fdref", "pref", "closed"}

TypeOK ==
  /\ fdm \in [Proc -> [Slot -> End \union {NULL}]]
  /\ data \in [Proc -> SUBSET Slot]
  /\ torn \in BOOLEAN
  /\ p_rpos \in 0 .. MaxByte /\ p_wpos \in 0 .. MaxByte
  /\ p_buf \in [0 .. BY2PIPE - 1 -> 0 .. MaxByte]
  /\ pc \in [Proc -> Pc]
  /\ loc \in [Proc -> Local]
  /\ cur \in Proc

(* A pipe just made, after the forks and closes that lead to Start. *)
Init ==
  /\ fdm = Start
  /\ data = [p \in Proc |-> {s \in Slot : Start[p][s] # NULL}]
  /\ torn = FALSE
  /\ p_rpos = 0 /\ p_wpos = 0
  /\ p_buf = [x \in 0 .. BY2PIPE - 1 |-> 0]
  /\ pc = [p \in Proc |-> IF \E s \in Slot : Start[p][s] # NULL THEN "run" ELSE "none"]
  /\ loc = [p \in Proc |-> NoCall]
  /\ cur \in {p \in Proc : pc[p] = "run"}

-----------------------------------------------------------------------------
(* sys_get_pageref of the page of an end and of the data page. *)
Refs(end) == Cardinality({x \in Proc \X Slot : fdm[x[1]][x[2]] = end})
DataRefs  == Cardinality({x \in Proc \X Slot : x[2] \in data[x[1]]})

(* pageref of the data page of a descriptor: 0 when it is not mapped. *)
Pref(p, s) == IF s \in data[p] THEN DataRefs ELSE 0

At(p, l) == cur = p /\ pc[p] = l

(* Process p enters a call, goes on in it, leaves it. *)
Enter(p, l, call) ==
  /\ pc' = [pc EXCEPT ![p] = l]
  /\ loc' = [loc EXCEPT ![p] = call]
Goto(p, l) == pc' = [pc EXCEPT ![p] = l] /\ UNCHANGED loc
Return(p)  == Enter(p, "run", NoCall)

(* The timer, or sys_yield: env_run increments env_runs. *)
Switch(p) ==
  /\ pc[p] \notin {"none", "new", "dead"}
  /\ cur' = p
  /\ loc' = [loc EXCEPT ![p].fresh = FALSE]
  /\ UNCHANGED <<fdVars, bufVars, pc>>

-----------------------------------------------------------------------------
(* close: fd_lookup, and pipeclose, which unmaps the descriptor page first *)
(* and the data page second.  dup closes its target first.                 *)
Unmap(p, s) == fdm' = [fdm EXCEPT ![p][s] = NULL]

Close(p, s) ==
  /\ At(p, "run") /\ "close" \in Api
  /\ fdm[p][s] # NULL
  /\ Unmap(p, s)
  /\ Enter(p, "close", [NoCall EXCEPT !.op = "close", !.new = s])
  /\ UNCHANGED <<data, torn, bufVars, cur>>

(* Mutant: the data page stays mapped. *)
CloseDataKept(p) ==
  /\ At(p, "close")
  /\ IF loc[p].op = "dup" THEN Goto(p, "dupdata") ELSE Return(p)
  /\ UNCHANGED <<fdVars, bufVars, cur>>

CloseData(p) ==
  /\ At(p, "close")
  /\ data' = [data EXCEPT ![p] = @ \ {loc[p].new}]
  /\ IF loc[p].op = "dup" THEN Goto(p, "dupdata") ELSE Return(p)
  /\ UNCHANGED <<fdm, torn, bufVars, cur>>

Dup(p, s, t) ==
  /\ At(p, "run") /\ "dup" \in Api
  /\ fdm[p][s] # NULL
  /\ LET call == [NoCall EXCEPT !.op = "dup", !.slot = s, !.new = t]
     IN  \/ fdm[p][t] # NULL /\ Unmap(p, t) /\ Enter(p, "close", call)
         \/ fdm[p][t] = NULL /\ UNCHANGED fdm /\ Enter(p, "dupdata", call)
  /\ UNCHANGED <<data, torn, bufVars, cur>>

(* The result of mapping the data page goes to "r ==": when there is no    *)
(* memory for its page table, dup goes on without it.                      *)
DupData(p) ==
  /\ At(p, "dupdata")
  /\ \/ data' = [data EXCEPT ![p] = IF loc[p].slot \in @ THEN @ \union {loc[p].new} ELSE @]
     \/ UNCHANGED data
  /\ Goto(p, "dupfd")
  /\ UNCHANGED <<fdm, torn, bufVars, cur>>

(* The descriptor page itself.  When that fails, as in dup(s, s), which    *)
(* has closed it, both pages of the target are unmapped as by close.       *)
DupFd(p) ==
  /\ At(p, "dupfd")
  /\ LET s == loc[p].slot
         t == loc[p].new
     IN  \/ /\ fdm[p][s] # NULL
            /\ fdm' = [fdm EXCEPT ![p][t] = fdm[p][s]]
            /\ torn' = (torn \/ (s \in data[p] /\ t \notin data[p]))
            /\ Return(p)
         \/ /\ Unmap(p, t)
            /\ Enter(p, "close", [NoCall EXCEPT !.op = "close", !.new = t])
            /\ UNCHANGED torn
  /\ UNCHANGED <<data, bufVars, cur>>

-----------------------------------------------------------------------------
(* Mutant: only the descriptor pages are shared. *)
SharedFds(p) == {s \in Slot : fdm[p][s] # NULL}

(* fork, and the end of spawn: the shared pages in the order of their      *)
(* virtual addresses.  The descriptor pages are below FILEBASE, the data   *)
(* pages above it.                                                         *)
SharedPages(p) == {s \in Slot : fdm[p][s] # NULL} \union {NSLOT + s : s \in data[p]}

Fork(p, c) ==
  /\ At(p, "run") /\ "fork" \in Api
  /\ pc[c] = "none"
  /\ pc' = [pc EXCEPT ![p] = "fork", ![c] = "new"]
  /\ loc' = [loc EXCEPT ![p] = [NoCall EXCEPT !.op = "fork", !.child = c]]
  /\ UNCHANGED <<fdVars, bufVars, cur>>

ForkPage(p) ==
  /\ At(p, "fork")
  /\ LET c    == loc[p].child
         rest == {x \in SharedPages(p) : x >= loc[p].k}
         x    == Min(rest)
     IN  \/ /\ rest # {}
            /\ IF x < NSLOT
                 THEN fdm' = [fdm EXCEPT ![c][x] = fdm[p][x]] /\ UNCHANGED data
                 ELSE data' = [data EXCEPT ![c] = @ \union {x - NSLOT}] /\ UNCHANGED fdm
            /\ UNCHANGED torn
            /\ loc' = [loc EXCEPT ![p].k = x + 1]
            /\ UNCHANGED pc
         \/ /\ rest = {}
            /\ pc' = [pc EXCEPT ![p] = "run", ![c] = "run"]
            /\ loc' = [loc EXCEPT ![p] = NoCall]
            /\ UNCHANGED fdVars
  /\ UNCHANGED <<bufVars, cur>>

(* exit: env_free gives back every page in one system call. *)
Exit(p) ==
  /\ At(p, "run") /\ "exit" \in Api
  /\ fdm' = [fdm EXCEPT ![p] = [s \in Slot |-> NULL]]
  /\ data' = [data EXCEPT ![p] = {}]
  /\ Goto(p, "dead")
  /\ UNCHANGED <<torn, bufVars, cur>>

-----------------------------------------------------------------------------
(* pipeisclosed *)
PipeIsClosed(p, s) ==
  /\ At(p, "run") /\ "test" \in Api
  /\ fdm[p][s] # NULL
  /\ Enter(p, "fdref", [NoCall EXCEPT !.op = "test", !.slot = s])
  /\ UNCHANGED <<fdVars, bufVars, cur>>

(* _pipeisclosed: the two counts, then env_runs once more. *)
ReadFdref(p) ==
  /\ At(p, "fdref")
  /\ Enter(p, "pref", [loc[p] EXCEPT !.fdref = Refs(fdm[p][loc[p].slot]), !.fresh = TRUE])
  /\ UNCHANGED <<fdVars, bufVars, cur>>

(* Mutant: env_runs is not read again. *)
UnchangedUntested(p) == TRUE

Unchanged(p) == loc[p].fresh

ReadPref(p) ==
  /\ At(p, "pref")
  /\ LET call == [loc[p] EXCEPT !.fdref = 0, !.fresh = FALSE]
     IN  IF ~ Unchanged(p)               THEN Enter(p, "fdref", call)
         ELSE IF loc[p].fdref = Pref(p, loc[p].slot) THEN Enter(p, "closed", call)
         ELSE IF call.op = "read"        THEN Enter(p, "rtest", call)
         ELSE IF call.op = "write"       THEN Enter(p, "wtest", call)
         ELSE Return(p)
  /\ UNCHANGED <<fdVars, bufVars, cur>>

(* The call returns 0, or 1 from pipeisclosed. *)
ReturnClosed(p) ==
  /\ At(p, "closed")
  /\ Return(p)
  /\ UNCHANGED <<fdVars, bufVars, cur>>

-----------------------------------------------------------------------------
(* piperead.  The ring is that of the data page: a descriptor without it   *)
(* leads to a page of its own (page_out), which is not followed.           *)
Read(p, s, n) ==
  /\ At(p, "run") /\ p \in Reader
  /\ fdm[p][s] = "r" /\ s \in data[p]
  /\ Enter(p, "rtest", [NoCall EXCEPT !.op = "read", !.slot = s, !.n = n])
  /\ UNCHANGED <<fdVars, bufVars, cur>>

(* Mutant: an empty pipe is not tested for a closed end. *)
RTestSpin(p) ==
  /\ At(p, "rtest")
  /\ IF p_rpos # p_wpos THEN Goto(p, "rget")
     ELSE IF loc[p].i > 0 THEN Return(p) ELSE Goto(p, "rtest")
  /\ UNCHANGED <<fdVars, bufVars, cur>>

RTest(p) ==
  /\ At(p, "rtest")
  /\ IF p_rpos # p_wpos THEN Goto(p, "rget")
     ELSE IF loc[p].i > 0 THEN Return(p) ELSE Goto(p, "fdref")
  /\ UNCHANGED <<fdVars, bufVars, cur>>

RGet(p) ==
  /\ At(p, "rget")
  /\ Enter(p, "rinc", [loc[p] EXCEPT !.byte = p_buf[p_rpos % BY2PIPE]])
  /\ UNCHANGED <<fdVars, bufVars, cur>>

(* The end of a turn of the for loop. *)
NextByte(p, l) ==
  IF loc[p].i + 1 = loc[p].n THEN Return(p)
  ELSE Enter(p, l, [loc[p] EXCEPT !.i = @ + 1, !.byte = 0])

RInc(p) ==
  /\ At(p, "rinc")
  /\ p_rpos' = p_rpos + 1
  /\ NextByte(p, "rtest")
  /\ UNCHANGED <<fdVars, p_wpos, p_buf, cur>>

(* pipewrite *)
Write(p, s, n) ==
  /\ At(p, "run") /\ p \in Writer
  /\ fdm[p][s] = "w" /\ s \in data[p]
  /\ p_wpos + n <= MaxByte
  /\ Enter(p, "wtest", [NoCall EXCEPT !.op = "write", !.slot = s, !.n = n])
  /\ UNCHANGED <<fdVars, bufVars, cur>>

(* Mutant: the ring is taken for full one byte too late. *)
WTestLate(p) ==
  /\ At(p, "wtest")
  /\ Goto(p, IF p_wpos - p_rpos > BY2PIPE THEN "fdref" ELSE "wput")
  /\ UNCHANGED <<fdVars, bufVars, cur>>

WTest(p) ==
  /\ At(p, "wtest")
  /\ Goto(p, IF p_wpos - p_rpos = BY2PIPE THEN "fdref" ELSE "wput")
  /\ UNCHANGED <<fdVars, bufVars, cur>>

WPut(p) ==
  /\ At(p, "wput")
  /\ p_buf' = [p_buf EXCEPT ![p_wpos % BY2PIPE] = p_wpos + 1]
  /\ Goto(p, "winc")
  /\ UNCHANGED <<fdVars, p_rpos, p_wpos, cur>>

WInc(p) ==
  /\ At(p, "winc")
  /\ p_wpos' = p_wpos + 1
  /\ NextByte(p, "wtest")
  /\ UNCHANGED <<fdVars, p_rpos, p_buf, cur>>

-----------------------------------------------------------------------------
(* The next step of a call under way. *)
Step(p) ==
  \/ CloseData(p) \/ DupData(p) \/ DupFd(p) \/ ForkPage(p)
  \/ ReadFdref(p) \/ ReadPref(p) \/ ReturnClosed(p)
  \/ RTest(p) \/ RGet(p) \/ RInc(p)
  \/ WTest(p) \/ WPut(p) \/ WInc(p)

Call(p) ==
  \/ Exit(p)
  \/ \E s \in Slot : Close(p, s) \/ PipeIsClosed(p, s)
  \/ \E s, t \in Slot : Dup(p, s, t)
  \/ \E c \in Proc : Fork(p, c)
  \/ \E s \in Slot, m \in Chunk : Read(p, s, m) \/ Write(p, s, m)

(* The processes of the pipe have all exited. *)
AllGone == (\A p \in Proc : pc[p] \in {"none", "dead"}) /\ UNCHANGED vars

Next == AllGone \/ \E p \in Proc : Switch(p) \/ Step(p) \/ Call(p)

Spec == Init /\ [][Next]_vars

(***************************************************************************)
(* The scheduler runs every process (EnvSched, RunnableRuns), one that is  *)
(* run again and again gets on with its call, and a quantum is much longer *)
(* than the two system calls of _pipeisclosed.                             *)
(***************************************************************************)
Fairness ==
  \A p \in Proc :
    WF_vars(Switch(p)) /\ SF_vars(Step(p)) /\ SF_vars(Unchanged(p) /\ ReadPref(p))

FairSpec == Spec /\ Fairness

-----------------------------------------------------------------------------
(* Properties *)

Other(end) == IF end = "r" THEN "w" ELSE "r"

(***************************************************************************)
(* When _pipeisclosed answers yes nobody has the other end: testpiperace.c *)
(* calls the opposite "RACE: pipe appears closed".                         *)
(***************************************************************************)
ClosedIsClosed ==
  \A p \in Proc : pc[p] = "closed" => Refs(Other(fdm[p][loc[p].slot])) = 0

(***************************************************************************)
(* The same up to the one cause other than fork: dup maps the data page    *)
(* before the descriptor and close unmaps it after, so no step of theirs,  *)
(* also of a dup that fails, makes an open end look closed, unless dup     *)
(* went on after a data page that could not be mapped (fd.c:168).          *)
(***************************************************************************)
ClosedUnlessTorn == torn \/ ClosedIsClosed

(***************************************************************************)
(* Whatever was duplicated, closed, inherited and lost by exits: with no   *)
(* such call under way the data page has one reference for each reference  *)
(* to an end, so the test of _pipeisclosed can succeed again; also after a *)
(* dup that failed, unless it ignored that the data page was not mapped.   *)
(***************************************************************************)
Remapping == {"close", "dupdata", "dupfd", "fork"}

RefsAgree ==
  ~ torn /\ (\A p \in Proc : pc[p] \notin Remapping) => DataRefs = Refs("r") + Refs("w")

(***************************************************************************)
(* The bytes of the ring between p_rpos and p_wpos are those written and   *)
(* not read, and piperead takes each byte once and in order, whatever the  *)
(* interleaving of one reader and one writer.                              *)
(***************************************************************************)
Fifo ==
  /\ p_wpos - p_rpos \in 0 .. BY2PIPE
  /\ \A x \in p_rpos .. p_wpos - 1 : p_buf[x % BY2PIPE] = x + 1
  /\ \A p \in Proc : pc[p] = "rinc" => loc[p].byte = p_rpos + 1

(***************************************************************************)
(* testpipe.c: a reader that gets 0 has read all that was written ("pipe   *)
(* read closed properly").                                                 *)
(***************************************************************************)
EofAtEnd == \A p \in Proc : pc[p] = "closed" /\ loc[p].op = "read" => p_rpos = p_wpos

(***************************************************************************)
(* A reader, or a writer of a full pipe, does not wait for ever once the   *)
(* other end is closed.                                                    *)
(***************************************************************************)
InIo(p) == loc[p].op \in {"read", "write"}
           /\ pc[p] \in {"rtest", "wtest", "fdref", "pref"}

WakesWhenClosed ==
  \A p \in Proc : InIo(p) /\ Refs(Other(fdm[p][loc[p].slot])) = 0 ~> pc[p] = "run"
=============================================================================
