-------------------------------- MODULE Fork --------------------------------
(***************************************************************************)
(* Copy on write: fork, duppage and pgfault of user/fork.c,                *)
(* set_pgfault_handler of user/pgfault.c and the delivery of a permission  *)
(* fault by kernel/exception_handler.c.                                    *)
(*                                                                         *)
(* fork is a loop of system calls of the parent over its own page table,   *)
(* and so is the repair of a fault by the process that meets it: between   *)
(* any two of them another process runs, and the parent itself goes on     *)
(* writing its stack, whose page is being shared.                          *)
(*                                                                         *)
(* A page holds one word; page_alloc takes the first free page and zeroes  *)
(* it (PageAlloc), a page is free when no entry denotes it (Pmap).         *)
(***************************************************************************)
EXTENDS Integers

CONSTANTS
  Procs, Root,   \* environments, and the one that runs at first
  NVA,           \* user pages 1 .. NVA in the order of addresses
  Stack, Xst,    \* of these, the stack and the exception stack
  Lib,           \* of these, the PTE_LIBRARY pages
  NPAGE,         \* physical pages
  Vals           \* words that are written

Tmp  == 0        \* the page at USTACKTOP
Va   == 1 .. NVA
Page == 1 .. NPAGE
Own  == Va \ (Lib \union {Xst})   \* pages that fork must not let be shared

ASSUME ForkAssumption ==
  /\ Root \in Procs
  /\ NVA \in Nat /\ NPAGE \in Nat
  /\ Xst \in Va /\ Lib \subseteq Va \ {Xst} /\ Stack \in Own
  /\ Vals \subseteq Nat /\ 0 \in Vals
  /\ NPAGE >= NVA

VARIABLES
  st,      \* "free", "built" (ENV_NOT_RUNNABLE), "run", or "stuck" in user_panic or a fault
  pte,     \* the page table of each process
  word,    \* the contents of the pages
  hdl,     \* Env.pgfault_handler and xstacktop are set
  uhdl,    \* __pgfault_handler of the process is set
  pc, loc, \* where the process is in fork, and the local variables of fork
  flt,     \* the fault the process is repairing
  view,    \* history: what a process last wrote to, or inherited in, its own pages
  nohdl    \* history: set_pgfault_handler failed when the process, or the one
           \* it has its variables from, called it last

vars == <<st, pte, word, hdl, uhdl, pc, loc, flt, view, nohdl>>

Pte   == [pg : Page \union {0}, ro : BOOLEAN, lib : BOOLEAN]
NoPte == [pg |-> 0, ro |-> FALSE, lib |-> FALSE]

(* va: the page the loop is at; perm: its entry when it was read; child. *)
NoLoc == [va |-> 0, perm |-> NoPte, child |-> Root]
NoFlt == [at |-> "none", va |-> 0, val |-> 0]

TypeOK ==
  /\ st \in [Procs -> {"free", "built", "run", "stuck"}]
  /\ pte \in [Procs -> [Va \union {Tmp} -> Pte]]
  /\ word \in [Page -> Vals]
  /\ hdl \in [Procs -> BOOLEAN] /\ uhdl \in [Procs -> BOOLEAN]
  /\ pc \in [Procs -> {"user", "alloc", "scan", "child", "parent", "xst", "handler", "status"}]
  /\ loc \in [Procs -> [va : 0 .. NVA + 1, perm : Pte, child : Procs]]
  /\ flt \in [Procs -> [at : {"none", "copy", "map", "unmap"}, va : Va \union {0}, val : Vals]]
  /\ view \in [Procs -> [Own -> Vals]]
  /\ nohdl \in [Procs -> BOOLEAN]

(* The first process with its own pages and the library pages mapped. *)
Init ==
  /\ st = [p \in Procs |-> IF p = Root THEN "run" ELSE "free"]
  /\ pte = [p \in Procs |-> [v \in Va \union {Tmp} |->
              IF p = Root /\ v \notin {Xst, Tmp} THEN [pg |-> v, ro |-> FALSE, lib |-> v \in Lib]
              ELSE NoPte]]
  /\ word = [g \in Page |-> 0]
  /\ hdl = [p \in Procs |-> FALSE] /\ uhdl = [p \in Procs |-> FALSE]
  /\ pc = [p \in Procs |-> "user"]
  /\ loc = [p \in Procs |-> NoLoc]
  /\ flt = [p \in Procs |-> NoFlt]
  /\ view = [p \in Procs |-> [v \in Own |-> 0]]
  /\ nohdl = [p \in Procs |-> FALSE]

-----------------------------------------------------------------------------
(* The memory system calls, see Pmap *)

(* Mutant: there is one page less than page_init thinks. *)
FreeOver == {g \in 1 .. NPAGE + 1 : \A p \in Procs, v \in Va \union {Tmp} : pte[p][v].pg # g}

Free == {g \in Page : \A p \in Procs, v \in Va \union {Tmp} : pte[p][v].pg # g}

(* page_alloc *)
Alloc(g) == \A h \in Free : g <= h

Rw(g) == [pg |-> g, ro |-> FALSE, lib |-> FALSE]

(* user_panic stays in its loop; so does a process whose fault nobody handles. *)
GetStuck(p) == st' = [st EXCEPT ![p] = "stuck"]

Runs(p, c) == st[p] = "run" /\ pc[p] = c /\ flt[p].at = "none"

-----------------------------------------------------------------------------
(* Writing, and the fault of a write to a page that is read-only *)

(* fork, too, writes the stack of its caller between its system calls.     *)
(* What library pages hold is left out: they are never copied.             *)
Writable(p, v) == v \in Own /\ (pc[p] = "user" \/ v = Stack)

Put(p, v, x) ==
  /\ word' = [word EXCEPT ![pte[p][v].pg] = x]
  /\ view' = [view EXCEPT ![p][v] = x]

Write(p, v, x) ==
  /\ Runs(p, pc[p]) /\ Writable(p, v)
  /\ pte[p][v].pg # 0 /\ ~ pte[p][v].ro
  /\ Put(p, v, x)
  /\ UNCHANGED <<st, pte, hdl, uhdl, pc, loc, flt, nohdl>>

(***************************************************************************)
(* synchronous_exception_handler sends a permission fault to the handler   *)
(* of the process on its exception stack.  Without a handler, or when the  *)
(* kernel cannot write that stack (page_out leaves a valid entry as it is  *)
(* and the kernel faults again), the process does not come back.  When the *)
(* exception stack is not mapped page_out would map it; a process with a   *)
(* handler has one, see FaultsHandled, so this is asked for here.          *)
(***************************************************************************)
CanHandle(p) == hdl[p] /\ uhdl[p] /\ pte[p][Xst].pg # 0 /\ ~ pte[p][Xst].ro

Faults(p, v) == Runs(p, pc[p]) /\ Writable(p, v) /\ pte[p][v].pg # 0 /\ pte[p][v].ro

(* pgfault takes a page at USTACKTOP. *)
Fault(p, v, x) ==
  /\ Faults(p, v) /\ CanHandle(p)
  /\ \E g \in Free :
       /\ Alloc(g)
       /\ pte' = [pte EXCEPT ![p][Tmp] = Rw(g)]
       /\ word' = [word EXCEPT ![g] = 0]
  /\ flt' = [flt EXCEPT ![p] = [at |-> "copy", va |-> v, val |-> x]]
  /\ UNCHANGED <<st, hdl, uhdl, pc, loc, view, nohdl>>

FaultStuck(p, v) ==
  /\ Faults(p, v) /\ (Free = {} \/ ~ CanHandle(p))
  /\ GetStuck(p)
  /\ UNCHANGED <<pte, word, hdl, uhdl, pc, loc, flt, view, nohdl>>

(* Mutant: the new page is left empty. *)
CopiedNone(p) == 0

(* user_bcopy of the page to the one at USTACKTOP *)
Copied(p) == word[pte[p][flt[p].va].pg]

FaultCopy(p) ==
  /\ st[p] = "run" /\ flt[p].at = "copy"
  /\ word' = [word EXCEPT ![pte[p][Tmp].pg] = Copied(p)]
  /\ flt' = [flt EXCEPT ![p].at = "map"]
  /\ UNCHANGED <<st, pte, hdl, uhdl, pc, loc, view, nohdl>>

FaultMap(p) ==
  /\ st[p] = "run" /\ flt[p].at = "map"
  /\ pte' = [pte EXCEPT ![p][flt[p].va] = Rw(pte[p][Tmp].pg)]
  /\ flt' = [flt EXCEPT ![p].at = "unmap"]
  /\ UNCHANGED <<st, word, hdl, uhdl, pc, loc, view, nohdl>>

(* The temporary page is unmapped and the write is done again. *)
FaultUnmap(p) ==
  /\ st[p] = "run" /\ flt[p].at = "unmap"
  /\ pte' = [pte EXCEPT ![p][Tmp] = NoPte]
  /\ Put(p, flt[p].va, flt[p].val)
  /\ flt' = [flt EXCEPT ![p] = NoFlt]
  /\ UNCHANGED <<st, hdl, uhdl, pc, loc, nohdl>>

-----------------------------------------------------------------------------
(* fork *)

(***************************************************************************)
(* set_pgfault_handler; when there is no memory it returns and fork goes   *)
(* on.  fork, which calls functions, has by then written its frame, so the *)
(* stack can be written; after that nothing forces it to write the stack.  *)
(***************************************************************************)
ForkStart(p) ==
  /\ Runs(p, "user") /\ ~ pte[p][Stack].ro
  /\ pc' = [pc EXCEPT ![p] = "alloc"]
  /\ \/ uhdl[p] /\ UNCHANGED <<pte, word, hdl, uhdl, nohdl>>
     \/ /\ ~ uhdl[p]
        /\ \E g \in Free :
             /\ Alloc(g)
             /\ pte' = [pte EXCEPT ![p][Xst] = Rw(g)]
             /\ word' = [word EXCEPT ![g] = 0]
        /\ hdl' = [hdl EXCEPT ![p] = TRUE]
        /\ uhdl' = [uhdl EXCEPT ![p] = TRUE]
        /\ nohdl' = [nohdl EXCEPT ![p] = FALSE]
     \/ /\ ~ uhdl[p]
        /\ nohdl' = [nohdl EXCEPT ![p] = TRUE]
        /\ UNCHANGED <<pte, word, hdl, uhdl>>
  /\ UNCHANGED <<st, loc, flt, view>>

(* env_alloc takes the slot as it is: Env.pgfault_handler is not reset. *)
ForkAlloc(p) ==
  /\ Runs(p, "alloc")
  /\ \E q \in Procs :
       /\ st[q] = "free"
       /\ st' = [st EXCEPT ![q] = "built"]
       /\ loc' = [loc EXCEPT ![p] = [NoLoc EXCEPT !.va = 1, !.child = q]]
  /\ pc' = [pc EXCEPT ![p] = "scan"]
  /\ UNCHANGED <<pte, word, hdl, uhdl, flt, view, nohdl>>

(* With no slot the id is -1, and the first mem_map to it fails. *)
ForkNoEnv(p) ==
  /\ Runs(p, "alloc") /\ \A q \in Procs : st[q] # "free"
  /\ GetStuck(p)
  /\ UNCHANGED <<pte, word, hdl, uhdl, pc, loc, flt, view, nohdl>>

(* Mutant: the exception stack is shared like any other page. *)
SkippedNone(e, v) == e.pg = 0

(* The entries fork and duppage leave out. *)
Skipped(e, v) == e.pg = 0 \/ v = Xst

GoOn(p) == loc' = [loc EXCEPT ![p].va = @ + 1, ![p].perm = NoPte] /\ pc' = [pc EXCEPT ![p] = "scan"]

(* The loop reads an entry. *)
ForkScan(p) ==
  LET v == loc[p].va IN
  /\ Runs(p, "scan")
  /\ IF v > NVA THEN pc' = [pc EXCEPT ![p] = "xst"] /\ UNCHANGED loc
     ELSE IF Skipped(pte[p][v], v) THEN GoOn(p)
     ELSE /\ loc' = [loc EXCEPT ![p].perm = pte[p][v]]
          /\ pc' = [pc EXCEPT ![p] = "child"]
  /\ UNCHANGED <<st, pte, word, hdl, uhdl, flt, view, nohdl>>

(* Mutants: a library page is copied on write; a page that can be written  *)
(* stays so in the parent.                                                 *)
ChildPermNoLib(e) == [e EXCEPT !.ro = TRUE, !.lib = FALSE]
ParentPermRw(e) == e

(* The entry duppage gives the child, with PTE_RO for copy on write. *)
ChildPerm(e) == IF e.lib THEN e ELSE [e EXCEPT !.ro = TRUE]

(* The entry the parent is left with. *)
ParentPerm(e) == [e EXCEPT !.ro = TRUE]

(* What page the child gets is looked up now, the permissions are those read. *)
ForkChild(p) ==
  LET v == loc[p].va  e == [loc[p].perm EXCEPT !.pg = pte[p][v].pg]  q == loc[p].child IN
  /\ Runs(p, "child")
  /\ pte' = [pte EXCEPT ![q][v] = ChildPerm(e)]
  /\ IF e.lib \/ e.ro
     THEN /\ GoOn(p)
          /\ view' = IF v \in Own THEN [view EXCEPT ![q][v] = view[p][v]] ELSE view
     ELSE pc' = [pc EXCEPT ![p] = "parent"] /\ UNCHANGED <<loc, view>>
  /\ UNCHANGED <<st, word, hdl, uhdl, flt, nohdl>>

(* There is no memory for a page table of the child. *)
ForkChildFails(p) ==
  /\ Runs(p, "child")
  /\ GetStuck(p)
  /\ UNCHANGED <<pte, word, hdl, uhdl, pc, loc, flt, view, nohdl>>

ForkParent(p) ==
  LET v == loc[p].va  q == loc[p].child IN
  /\ Runs(p, "parent")
  /\ pte' = [pte EXCEPT ![p][v] = ParentPerm([loc[p].perm EXCEPT !.pg = pte[p][v].pg])]
  /\ view' = IF v \in Own THEN [view EXCEPT ![q][v] = view[p][v]] ELSE view
  /\ GoOn(p)
  /\ UNCHANGED <<st, word, hdl, uhdl, flt, nohdl>>

ForkXst(p) ==
  /\ Runs(p, "xst")
  /\ \E g \in Free :
       /\ Alloc(g)
       /\ pte' = [pte EXCEPT ![loc[p].child][Xst] = Rw(g)]
       /\ word' = [word EXCEPT ![g] = 0]
  /\ pc' = [pc EXCEPT ![p] = "handler"]
  /\ UNCHANGED <<st, hdl, uhdl, loc, flt, view, nohdl>>

ForkXstFails(p) ==
  /\ Runs(p, "xst") /\ Free = {}
  /\ GetStuck(p)
  /\ UNCHANGED <<pte, word, hdl, uhdl, pc, loc, flt, view, nohdl>>

ChildHandler(q) == [hdl EXCEPT ![q] = TRUE]

ForkHandler(p) ==
  /\ Runs(p, "handler")
  /\ hdl' = ChildHandler(loc[p].child)
  /\ pc' = [pc EXCEPT ![p] = "status"]
  /\ UNCHANGED <<st, pte, word, uhdl, loc, flt, view, nohdl>>

(* The child runs, with the variables of its parent in its copy. *)
ForkStatus(p) ==
  LET q == loc[p].child IN
  /\ Runs(p, "status")
  /\ st' = [st EXCEPT ![q] = "run"]
  /\ uhdl' = [uhdl EXCEPT ![q] = uhdl[p]]
  /\ nohdl' = [nohdl EXCEPT ![q] = nohdl[p]]
  /\ pc' = [pc EXCEPT ![p] = "user"]
  /\ loc' = [loc EXCEPT ![p] = NoLoc]
  /\ UNCHANGED <<pte, word, hdl, flt, view>>

(* exit: env_free takes the mappings; the slot can be used again. *)
Exit(p) ==
  /\ Runs(p, "user")
  /\ st' = [st EXCEPT ![p] = "free"]
  /\ pte' = [pte EXCEPT ![p] = [v \in Va \union {Tmp} |-> NoPte]]
  /\ view' = [view EXCEPT ![p] = [v \in Own |-> 0]]
  /\ uhdl' = [uhdl EXCEPT ![p] = FALSE]
  /\ nohdl' = [nohdl EXCEPT ![p] = FALSE]
  /\ UNCHANGED <<word, hdl, pc, loc, flt>>

(* No process is left that does anything. *)
Finished == (\A p \in Procs : st[p] # "run") /\ UNCHANGED vars

Step(p) ==
  \/ FaultCopy(p) \/ FaultMap(p) \/ FaultUnmap(p)
  \/ ForkAlloc(p) \/ ForkNoEnv(p) \/ ForkScan(p) \/ ForkChild(p) \/ ForkChildFails(p)
  \/ ForkParent(p) \/ ForkXst(p) \/ ForkXstFails(p) \/ ForkHandler(p) \/ ForkStatus(p)

Use(p) ==
  \/ \E v \in Va, x \in Vals : Write(p, v, x) \/ Fault(p, v, x)
  \/ \E v \in Va : FaultStuck(p, v)
  \/ ForkStart(p) \/ Exit(p)

Next == (\E p \in Procs : Step(p) \/ Use(p)) \/ Finished

Spec == Init /\ [][Next]_vars

-----------------------------------------------------------------------------
(* Properties *)

(***************************************************************************)
(* A process that runs finds in each of its own pages what it last wrote   *)
(* there or, before it wrote, what its parent had there when duppage was   *)
(* done with the page: no write of any other process shows through, while  *)
(* pages are shared, copied by several processes at once, given back and   *)
(* used again.                                                             *)
(***************************************************************************)
Isolated ==
  \A p \in Procs, v \in Own :
    st[p] = "run" /\ pte[p][v].pg # 0 => word[pte[p][v].pg] = view[p][v]

(***************************************************************************)
(* A page that a process can write is mapped by no other process, except   *)
(* the library pages and the page duppage is at, which the child, not yet  *)
(* running, shares until the entry of its parent is read-only, too.        *)
(***************************************************************************)
OneWriter ==
  \A p, q \in Procs, v \in Own, w \in Va \union {Tmp} :
    pte[p][v].pg # 0 /\ ~ pte[p][v].ro /\ pte[p][v].pg = pte[q][w].pg =>
      \/ p = q /\ (v = w \/ (w = Tmp /\ flt[p].at = "unmap"))
      \/ v = w /\ pc[p] = "parent" /\ loc[p].va = v /\ loc[p].child = q /\ st[q] = "built"

(***************************************************************************)
(* Whoever runs with a page that is read-only can handle the fault: it has *)
(* a handler and an exception stack the kernel can write, although fork    *)
(* sets these for the child by system calls of the parent.  The exceptions *)
(* are a process whose last fork went on although set_pgfault_handler had  *)
(* failed, and the child of such a fork, which starts without a handler.   *)
(***************************************************************************)
FaultsHandled ==
  \A p \in Procs :
    st[p] = "run" /\ (\E v \in Va : pte[p][v].ro) => CanHandle(p) \/ nohdl[p]

(***************************************************************************)
(* A library page stays the same page in every process that has inherited  *)
(* it, and stays writable: what one writes all see.                        *)
(***************************************************************************)
LibraryShared ==
  \A p \in Procs, v \in Lib :
    pte[p][v].pg # 0 => pte[p][v] = [pg |-> v, ro |-> FALSE, lib |-> TRUE]
=============================================================================
