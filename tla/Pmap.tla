-------------------------------- MODULE Pmap --------------------------------
(***************************************************************************)
(* Address spaces and page reference counts: mm/pmap.c, env_setup_vm and   *)
(* env_free of kernel/env.c, and the memory system calls of                *)
(* kernel/syscall_all.c.                                                   *)
(*                                                                         *)
(* The page tables of an environment are a tree: the page directory DIR,   *)
(* the tables of levels 2 and 3, and the entries of level 3, one for each  *)
(* virtual page.  ent[e][n] is the physical page at node n.  The allocator *)
(* is what PageAllocator promises: some page that is not marked in vis, or *)
(* a failure.                                                              *)
(*                                                                         *)
(* A system call or a fault runs with interrupts masked.  Its allocations, *)
(* any of which can fail, are steps of their own here; op is the call that *)
(* is under way and nothing else happens until it is done.                 *)
(***************************************************************************)
EXTENDS Integers, FiniteSets

CONSTANTS
  Env,       \* slots of environments other than the first one
  Page,      \* physical pages
  VA,        \* virtual pages below KERNBASE and outside UVPT
  Table,     \* the level 2 and level 3 tables that cover VA
  DIR,       \* the page directory
  tab2, tab3,\* the tables that cover a virtual page
  VA0,       \* virtual page 0
  LowVA,     \* virtual pages env_setup_vm maps in every environment
  low,       \* the boot page mapped at each of them
  bootRef,   \* Page.ref and
  bootUsed,  \* the pages marked in vis once the first environment exists
  MaxLost,   \* bound: how often a page's entry is overwritten by page_out
  NULL

Node == VA \union Table \union {DIR}

ASSUME PmapAssumption ==
  /\ IsFiniteSet(Env) /\ IsFiniteSet(Node)
  /\ VA0 \in VA
  /\ VA \cap Table = {} /\ DIR \notin VA \union Table
  /\ tab2 \in [VA -> Table] /\ tab3 \in [VA -> Table]
  /\ \A v, w \in VA : tab2[v] # tab3[w]
  /\ \A v, w \in VA : tab3[v] = tab3[w] => tab2[v] = tab2[w]
  /\ LowVA \subseteq VA
  /\ MaxLost \in Nat
  /\ bootRef \in [Page -> Nat]
  /\ bootUsed \subseteq Page
  /\ \A p \in bootUsed : bootRef[p] > 0
  /\ low \in [LowVA -> bootUsed]
  /\ NULL \notin Env \union VA \union Page

VARIABLES
  ref,     \* Page.ref
  used,    \* the pages whose bit is set in vis
  ent,     \* the page tables
  user,    \* the virtual pages whose entry has PTE_USER
  op,      \* the kernel operation under way
  todo,    \* env_setup_vm: the low pages still to be mapped
  lost     \* history: entries page_out has overwritten

vars == <<ref, used, ent, user, op, todo, lost>>

Stage == {"idle", "insert", "walk2", "walk3", "install", "setup",
          "out2", "out3", "out", "free", "panic"}
Op    == [stage : Stage, env : Env \union {NULL}, va : VA \union {NULL},
          page : Page \union {NULL}, user : BOOLEAN]
Idle  == [stage |-> "idle", env |-> NULL, va |-> NULL, page |-> NULL, user |-> FALSE]

TypeOK ==
  /\ ref \in [Page -> Nat]
  /\ used \subseteq Page
  /\ ent \in [Env -> [Node -> Page \union {NULL}]]
  /\ user \in [Env -> SUBSET VA]
  /\ op \in Op
  /\ todo \subseteq LowVA
  /\ lost \in [Page -> Nat]

(***************************************************************************)
(* The boot code has marked the image, the peripherals and the pages below *)
(* init_end and given each of them but page 0 a reference;                 *)
(* memory_management_test has left a reference to a page it has not        *)
(* marked.  The first environment, the file server, is created before      *)
(* memory can run out and never exits: its references to the low pages,    *)
(* the only ones that keep page 0, are part of bootRef.                    *)
(***************************************************************************)
Init ==
  /\ ref = bootRef
  /\ used = bootUsed
  /\ ent = [e \in Env |-> [n \in Node |-> NULL]]
  /\ user = [e \in Env |-> {}]
  /\ op = Idle
  /\ todo = {}
  /\ lost = [p \in Page |-> 0]

(* The environments that have an address space. *)
Alive(e) == ent[e][DIR] # NULL

-----------------------------------------------------------------------------
(* mm/pmap.c *)

(* Mutants: the bit is not set; a page that is in use is taken. *)
page_alloc_unmarked(p) == p \in Page \ used /\ UNCHANGED used
page_alloc_any(p) == p \in Page /\ used' = used \union {p}

(* page_alloc; the reference count is left as it is. *)
page_alloc(p) == p \in Page \ used /\ used' = used \union {p}

(* A failing page_alloc is possible whatever is free. *)
AllocFails == UNCHANGED used

(* An entry is written and the page it denotes gains a reference. *)
Enter(e, n, p) ==
  /\ ent' = [ent EXCEPT ![e][n] = p]
  /\ ref' = [ref EXCEPT ![p] = @ + 1]

(* page_decref, page_remove: the entry is cleared, ref goes down by d and  *)
(* the page is freed if its count was at most f.                           *)
DropEntry(e, n, d, f) ==
  LET p == ent[e][n]
  IN  /\ ref' = [ref EXCEPT ![p] = @ - d]
      /\ used' = IF ref[p] <= f THEN used \ {p} ELSE used
      /\ ent' = [ent EXCEPT ![e][n] = NULL]

(* Mutants: ref is not decremented, or twice; page_free frees too early,   *)
(* or is not called.                                                       *)
page_decref_kept(e, n)  == DropEntry(e, n, 0, 1)
page_decref_twice(e, n) == DropEntry(e, n, 2, 1)
page_decref_early(e, n) == DropEntry(e, n, 1, 2)
page_decref_leak(e, n)  == DropEntry(e, n, 1, 0)

(* page_decref, and page_remove of a valid entry. *)
page_decref(e, n) == DropEntry(e, n, 1, 1)

(* An operation ends; env_setup_vm goes on with its loop. *)
Done == op' = IF todo = {} THEN Idle ELSE [op EXCEPT !.stage = "setup"]

(* page_insert up to its second pgdir_walk. *)
InsertStart ==
  /\ op.stage = "insert"
  /\ LET e == op.env
         q == ent[e][op.va]
     IN  \/ /\ q = op.page
            /\ user' = [user EXCEPT ![e] = IF op.user THEN @ \union {op.va} ELSE @ \ {op.va}]
            /\ Done
            /\ UNCHANGED <<ref, used, ent>>
         \/ /\ q # op.page /\ q # NULL
            /\ page_decref(e, op.va)
            /\ user' = [user EXCEPT ![e] = @ \ {op.va}]
            /\ op' = [op EXCEPT !.stage = "walk2"]
         \/ /\ q = NULL
            /\ op' = [op EXCEPT !.stage = "walk2"]
            /\ UNCHANGED <<ref, used, ent, user>>
  /\ UNCHANGED <<todo, lost>>

(* One level of pgdir_walk with create: go down, allocate the table, fail. *)
Walk(from, t, to, Fail) ==
  /\ op.stage = from
  /\ \/ /\ ent[op.env][t] # NULL
        /\ op' = [op EXCEPT !.stage = to]
        /\ UNCHANGED <<ref, used, ent>>
     \/ /\ ent[op.env][t] = NULL
        /\ \E p \in Page : page_alloc(p) /\ Enter(op.env, t, p)
        /\ op' = [op EXCEPT !.stage = to]
     \/ /\ ent[op.env][t] = NULL
        /\ AllocFails
        /\ Fail
        /\ UNCHANGED <<ref, ent>>
  /\ UNCHANGED <<user, todo, lost>>

InsertWalk2 == Walk("walk2", tab2[op.va], "walk3", Done)
InsertWalk3 == Walk("walk3", tab3[op.va], "install", Done)

(* The end of page_insert. *)
Install ==
  /\ op.stage = "install"
  /\ Enter(op.env, op.va, op.page)
  /\ user' = [user EXCEPT ![op.env] = IF op.user THEN @ \union {op.va} ELSE @]
  /\ Done
  /\ UNCHANGED <<used, todo, lost>>

(* page_out, for an access of e to va: the three levels of its loop.  An   *)
(* entry of level 3 without PTE_USER is overwritten.                       *)
PageOut(e, va) ==
  /\ op.stage = "idle" /\ Alive(e)
  /\ ent[e][va] # NULL => va \notin user[e] /\ lost[ent[e][va]] < MaxLost
  /\ op' = [Idle EXCEPT !.stage = IF va = VA0 THEN "panic" ELSE "out2",
                        !.env = e, !.va = va]
  /\ UNCHANGED <<ref, used, ent, user, todo, lost>>

Panic == op' = [op EXCEPT !.stage = "panic"]

OutWalk2 == Walk("out2", tab2[op.va], "out3", Panic)
OutWalk3 == Walk("out3", tab3[op.va], "out", Panic)

OutLeaf ==
  /\ op.stage = "out"
  /\ LET e == op.env
         q == ent[e][op.va]
     IN  \/ \E p \in Page :
              /\ page_alloc(p)
              /\ Enter(e, op.va, p)
              /\ lost' = IF q = NULL THEN lost ELSE [lost EXCEPT ![q] = @ + 1]
              /\ user' = [user EXCEPT ![e] = @ \union {op.va}]
              /\ op' = Idle
         \/ /\ AllocFails
            /\ Panic
            /\ UNCHANGED <<ref, ent, user, lost>>
  /\ UNCHANGED todo

-----------------------------------------------------------------------------
(* kernel/env.c *)

(* env_setup_vm: the page directory, then one page_insert per low page,    *)
(* whose failure is ignored.  The entry of the directory for UVPT, which   *)
(* shows the directory and its tables to the program, writable and without *)
(* a reference, is not among the entries (VA).                             *)
EnvSetupVm(e) ==
  /\ op.stage = "idle" /\ ~ Alive(e)
  /\ \/ /\ \E p \in Page : page_alloc(p) /\ Enter(e, DIR, p)
        /\ op' = [Idle EXCEPT !.stage = "setup", !.env = e]
        /\ todo' = LowVA
     \/ /\ AllocFails
        /\ Panic
        /\ UNCHANGED <<ref, ent, todo>>
  /\ UNCHANGED <<user, lost>>

SetupLow ==
  /\ op.stage = "setup"
  /\ \/ /\ todo = {}
        /\ op' = Idle
        /\ UNCHANGED todo
     \/ \E va \in todo :
          /\ todo' = todo \ {va}
          /\ op' = [op EXCEPT !.stage = "insert", !.va = va, !.page = low[va], !.user = TRUE]
  /\ UNCHANGED <<ref, used, ent, user, lost>>

(* env_free: entries, then the level 3 tables, the level 2 tables and the  *)
(* directory; a table goes once what it covers is gone.                    *)
EnvFree(e) ==
  /\ op.stage = "idle" /\ Alive(e)
  /\ op' = [Idle EXCEPT !.stage = "free", !.env = e]
  /\ UNCHANGED <<ref, used, ent, user, todo, lost>>

(* Mutant: a table is freed before what it covers. *)
BelowNothing(n) == {}

Below(n) ==
  CASE n \in VA    -> {}
    [] n \in Table -> {v \in VA : tab3[v] = n} \union {tab3[v] : v \in {w \in VA : tab2[w] = n}}
    [] n = DIR     -> Table

FreeNode(n) ==
  /\ op.stage = "free"
  /\ ent[op.env][n] # NULL
  /\ \A b \in Below(n) : ent[op.env][b] = NULL
  /\ page_decref(op.env, n)
  /\ user' = [user EXCEPT ![op.env] = @ \ {n}]
  /\ op' = IF n = DIR THEN Idle ELSE op
  /\ UNCHANGED <<todo, lost>>

-----------------------------------------------------------------------------
(* kernel/syscall_all.c *)

(* sys_mem_alloc; a page whose insertion fails stays allocated. *)
SysMemAlloc(e, va, u) ==
  /\ op.stage = "idle" /\ Alive(e)
  /\ \E p \in Page :
       /\ page_alloc(p)
       /\ op' = [stage |-> "insert", env |-> e, va |-> va, page |-> p, user |-> u]
  /\ UNCHANGED <<ref, ent, user, todo, lost>>

(* sys_mem_map, and the page that sys_ipc_can_send passes on. *)
SysMemMap(src, srcva, dst, dstva, u) ==
  /\ op.stage = "idle" /\ Alive(src) /\ Alive(dst)
  /\ ent[src][srcva] # NULL
  /\ op' = [stage |-> "insert", env |-> dst, va |-> dstva, page |-> ent[src][srcva], user |-> u]
  /\ UNCHANGED <<ref, used, ent, user, todo, lost>>

(* sys_mem_unmap of a valid entry. *)
SysMemUnmap(e, va) ==
  /\ op.stage = "idle" /\ Alive(e)
  /\ ent[e][va] # NULL
  /\ page_decref(e, va)
  /\ user' = [user EXCEPT ![e] = @ \ {va}]
  /\ UNCHANGED <<op, todo, lost>>

-----------------------------------------------------------------------------
(* panic() loops for ever. *)
Halted == op.stage = "panic" /\ UNCHANGED vars

Next ==
  \/ Halted
  \/ InsertStart \/ InsertWalk2 \/ InsertWalk3 \/ Install
  \/ OutWalk2 \/ OutWalk3 \/ OutLeaf
  \/ SetupLow
  \/ \E n \in Node : FreeNode(n)
  \/ \E e \in Env : EnvSetupVm(e) \/ EnvFree(e)
  \/ \E e \in Env, va \in VA : PageOut(e, va) \/ SysMemUnmap(e, va)
  \/ \E e \in Env, va \in VA, u \in BOOLEAN : SysMemAlloc(e, va, u)
  \/ \E src, dst \in Env, srcva, dstva \in VA, u \in BOOLEAN :
       SysMemMap(src, srcva, dst, dstva, u)

Spec == Init /\ [][Next]_vars

-----------------------------------------------------------------------------
(* Properties *)

(* The entries that denote page p. *)
Refs(p) == {x \in Env \X Node : ent[x[1]][x[2]] = p}

(***************************************************************************)
(* Page.ref counts the entries that denote the page, the references of the *)
(* boot code and the entries page_out has overwritten.  sys_get_pageref,   *)
(* on which pipes rely, returns this number.                               *)
(***************************************************************************)
RefExact == \A p \in Page : ref[p] = Cardinality(Refs(p)) + bootRef[p] + lost[p]

(***************************************************************************)
(* A page that some environment can reach is not in the pool of page_alloc,*)
(* and neither is the page an operation is about to map.                   *)
(***************************************************************************)
Inserting == op.stage \in {"insert", "walk2", "walk3", "install"}

MappedIsUsed ==
  /\ \A e \in Env, n \in Node : ent[e][n] # NULL => ent[e][n] \in used
  /\ Inserting => op.page \in used

(***************************************************************************)
(* The page tables keep to the rules of PageAllocator: page_free returns a *)
(* page to the pool in the step that takes its last reference and in no    *)
(* other, the page was in use until then (no double free), and it is none  *)
(* of the boot code's.                                                     *)
(***************************************************************************)
GivenBackOnce ==
  [][\A p \in Page :
       /\ ref[p] > 0 /\ ref'[p] = 0 => p \in used \ bootUsed
       /\ ref[p] > 0 /\ ref'[p] = 0 <=> p \in used \ used']_vars

(***************************************************************************)
(* A page that holds a table of one environment is no second table, of     *)
(* this environment or another, and no page that an entry outside the self *)
(* map denotes.  (Through the self map at UVPT, which env_setup_vm makes   *)
(* writable, a program reaches its own tables in any case.)                *)
(***************************************************************************)
TablePrivate ==
  \A e, f \in Env, t \in Table \union {DIR}, n \in Node :
    ent[e][t] # NULL /\ ent[e][t] = ent[f][n] => e = f /\ t = n

(***************************************************************************)
(* No dangling table: what is mapped is reached through tables that exist, *)
(* so page_lookup finds it and env_free gives back all of it.              *)
(***************************************************************************)
TreeOK ==
  \A e \in Env :
    /\ \A v \in VA : ent[e][v] # NULL => ent[e][tab3[v]] # NULL
    /\ \A v \in VA : ent[e][tab3[v]] # NULL => ent[e][tab2[v]] # NULL
    /\ \A n \in Node : ent[e][n] # NULL => Alive(e)

(***************************************************************************)
(* The only way to lose a page, marked in vis with no reference to it, is  *)
(* an insertion that runs out of memory for its tables: sys_mem_alloc does *)
(* not give the page back.                                                 *)
(***************************************************************************)
Lost(p) == p \in used /\ ref[p] = 0 /\ ~ (Inserting /\ op.page = p)

LostOnlyWithoutMemory ==
  [][\A p \in Page : ~ Lost(p) /\ Lost(p)' =>
       op.stage \in {"walk2", "walk3"} /\ op'.stage = "idle"]_vars
=============================================================================
