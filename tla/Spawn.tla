------------------------------- MODULE Spawn -------------------------------
(***************************************************************************)
(* Loading a program: spawn, spawn_valist, usr_load_elf and init_stack of  *)
(* user/spawn.c, and at boot load_elf of kernel/kernel_elfloader.c with    *)
(* load_icode and load_icode_mapper of kernel/env.c.                       *)
(*                                                                         *)
(* Both loaders walk the program headers and fill a segment in four parts: *)
(* a first part up to a page boundary, the pages of the file, the rest of  *)
(* the last of these, and the pages of the bss.  Every page taken or       *)
(* mapped on the way can fail.  spawn builds a child that does not run     *)
(* (env_alloc of the system call leaves it ENV_NOT_RUNNABLE), so nobody    *)
(* else touches its pages and one part is one action.                      *)
(*                                                                         *)
(* A byte of the file is <<k, o>>, byte o of the segment of header k.  The *)
(* file is complete and does not change while it is read.                  *)
(***************************************************************************)
EXTENDS Integers, Sequences

CONSTANTS
  PG,        \* BY2PG, bytes of a page
  W,         \* bytes of a u64
  Top,       \* USTACKTOP
  NLIB,      \* PTE_LIBRARY pages of the parent
  Images,    \* programs: sequences of headers [load, va, filesz, memsz]
  Argvs      \* argument lists: sequences of the lengths of the strings

ProgramHeader == [load : BOOLEAN, va : Nat, filesz : Nat, memsz : Nat]

ASSUME SpawnAssumption ==
  /\ PG \in Nat \ {0} /\ W \in Nat /\ W % 2 = 0 /\ W > 0
  /\ Top \in Nat /\ Top >= PG /\ NLIB \in Nat
  /\ Images \subseteq Seq(ProgramHeader) /\ Argvs \subseteq Seq(Nat)
  /\ \A m \in Images : \A j \in DOMAIN m : m[j].filesz <= m[j].memsz
  /\ \A m \in Images : \E j \in DOMAIN m : m[j].load /\ m[j].memsz > 0

VARIABLES
  who,       \* "spawn", "spawn_valist" or "kernel"
  img, argv, \* the program and its arguments
  pc,        \* where the loader is
  child,     \* env_alloc had a slot
  k, i, r,   \* the header, the bytes of its segment done, the size of the last part
  mem,       \* the pages of the child that are mapped
  lost,      \* history: the pages that load_icode_mapper filled and could not map
  stk, esp,  \* the objects on the stack of the child, and the initial stack pointer
  lib,       \* the library pages mapped so far
  entry,     \* the child starts at the entry of the program
  foreign    \* a trap frame was written that is not the child's

vars == <<who, img, argv, pc, child, k, i, r, mem, lost, stk, esp, lib, entry, foreign>>

task == <<who, img, argv>>
set  == <<child, stk, esp, lib, entry, foreign>>

Zero == <<0, 0>>
Byte == {Zero} \union UNION {{<<j, o>> : o \in 0 .. img[j].filesz - 1} : j \in DOMAIN img}
Offset == 0 .. PG - 1

TypeOK ==
  /\ who \in {"spawn", "spawn_valist", "kernel"}
  /\ img \in Images /\ argv \in Argvs
  /\ pc \in {"open", "stack", "phdr", "first", "bin", "tail", "bss", "lib", "start",
             "run", "error", "panic"}
  /\ child \in BOOLEAN /\ entry \in BOOLEAN /\ foreign \in BOOLEAN
  /\ k \in 1 .. Len(img) + 1
  /\ (pc \in {"first", "bin", "tail"} => i \in 0 .. img[k].memsz) /\ r \in Nat
  /\ \A g \in DOMAIN mem : g \in Nat /\ mem[g] \in [Offset -> Byte]
  /\ lost \subseteq Nat /\ (who # "kernel" => lost = {})
  /\ \A x \in stk : x.at \in 0 .. Top /\ x.len \in 1 .. PG
  /\ esp \in 0 .. Top
  /\ lib \in 0 .. NLIB

Init ==
  /\ who \in {"spawn", "spawn_valist", "kernel"} /\ img \in Images /\ argv \in Argvs
  /\ pc = "open" /\ child = FALSE
  /\ k = 1 /\ i = 0 /\ r = 0
  /\ mem = [g \in {} |-> Zero] /\ lost = {}
  /\ stk = {} /\ esp = 0 /\ lib = 0
  /\ entry = FALSE /\ foreign = FALSE

-----------------------------------------------------------------------------
(* Pages and parts of pages *)

Least(m, n) == IF m < n THEN m ELSE n
PageOf(a) == a \div PG
Off(a) == a % PG

Blank == [o \in Offset |-> Zero]

(* The page of the child at a *)
Found(a) == IF PageOf(a) \in DOMAIN mem THEN mem[PageOf(a)] ELSE Blank

(* bcopy of n bytes of segment j from byte f on to offset a of a page *)
Copy(page, a, n, j, f) ==
  [o \in Offset |-> IF o \in a .. a + n - 1 THEN <<j, f + o - a>> ELSE page[o]]

(* bzero *)
Clear(page, a, n) == [o \in Offset |-> IF o \in a .. a + n - 1 THEN Zero ELSE page[o]]

(* page_insert takes the place of a page that was mapped there. *)
Insert(a, page) ==
  mem' = [g \in DOMAIN mem \union {PageOf(a)} |-> IF g = PageOf(a) THEN page ELSE mem[g]]

(***************************************************************************)
(* A filled page is mapped.  load_icode_mapper does not look at the result *)
(* of page_insert: without memory for a page table the page stays away     *)
(* from the child and the loader goes on.                                  *)
(***************************************************************************)
Map(a, page) ==
  \/ Insert(a, page) /\ UNCHANGED lost
  \/ /\ who = "kernel" /\ PageOf(a) \notin DOMAIN mem
     /\ lost' = lost \union {PageOf(a)}
     /\ UNCHANGED mem

Seg == img[k]
At  == Seg.va + i

-----------------------------------------------------------------------------
(* spawn up to the program headers *)

(* spawn returns an error, spawn_valist panics; the child is left as it is. *)
GiveUp == pc' = IF who = "spawn" THEN "error" ELSE "panic"

(* env_create_priority: the first stack pointer is USTACKTOP. *)
Boot ==
  /\ pc = "open" /\ who = "kernel"
  /\ pc' = "phdr" /\ child' = TRUE /\ esp' = Top
  /\ UNCHANGED <<task, k, i, r, mem, lost, stk, lib, entry, foreign>>

(* open, the ELF header and env_alloc; child_envid is a u32 and no failure *)
(* of env_alloc is seen.                                                   *)
Open ==
  /\ pc = "open" /\ who # "kernel"
  /\ pc' = "stack" /\ child' \in BOOLEAN
  /\ UNCHANGED <<task, k, i, r, mem, lost, stk, esp, lib, entry, foreign>>

OpenFails ==
  /\ pc = "open" /\ who # "kernel"
  /\ GiveUp
  /\ UNCHANGED <<task, set, k, i, r, mem, lost>>

Round(n, m) == ((n + m - 1) \div m) * m

(* The bytes of the first n strings of a list, with their ends *)
Bytes(av) ==
  LET upto[n \in 0 .. Len(av)] == IF n = 0 THEN 0 ELSE upto[n - 1] + av[n] + 1 IN upto

Tot(av) == Bytes(av)[Len(av)]

Fits(av) == Round(Tot(av), W) + W * (Len(av) + 3) <= PG

StringAt(av, n) == Top - Tot(av) + Bytes(av)[n - 1]

(* Mutant: the vector ends at the first string, without room for its end. *)
ArgsAtTight(av) == Top - Round(Tot(av), W \div 2) - W * Len(av)

(* args: the vector is aligned to half a word only. *)
ArgsAt(av) == Top - Round(Tot(av), W \div 2) - W * (Len(av) + 1)

Word(a, v) == [at |-> a, len |-> W, str |-> FALSE, val |-> v]
String(a, n, len) == [at |-> a, len |-> len, str |-> TRUE, val |-> n]

(* The strings, argv with its end, and below it the pointer to it and argc *)
Layout(av) ==
  LET n == Len(av) IN
  {String(StringAt(av, j), j, av[j] + 1) : j \in 1 .. n}
    \union {Word(ArgsAt(av) + W * (j - 1), StringAt(av, j)) : j \in 1 .. n}
    \union {Word(ArgsAt(av) + W * n, 0), Word(ArgsAt(av) - W, ArgsAt(av)),
            Word(ArgsAt(av) - 2 * W, n)}

(* init_stack: the list does not fit, or there is no page for it at        *)
(* TMPPAGE, or it cannot be mapped to the child; spawn goes on in any case. *)
InitStack ==
  /\ pc = "stack"
  /\ \/ UNCHANGED <<stk, esp>>
     \/ /\ Fits(argv)
        /\ esp' = ArgsAt(argv) - 2 * W
        /\ stk' \in {{}} \union (IF child THEN {Layout(argv)} ELSE {})
  /\ pc' = "phdr"
  /\ UNCHANGED <<task, k, i, r, mem, lost, child, lib, entry, foreign>>

-----------------------------------------------------------------------------
(* The program headers *)

(* Mutant: text_start stays where it is. *)
SameHeader == k' = k

NextHeader == k' = k + 1

(* A header that is not PT_LOAD is passed over; after the last one the     *)
(* entry is set in the trap frame: for the kernel that of the file, for    *)
(* spawn 0x00a00000, the entry that user.ld gives every program, in the    *)
(* trap frame of envs[ENVX(id)].                                           *)
Header(next) ==
  /\ pc = "phdr"
  /\ \/ /\ k <= Len(img)
        /\ IF Seg.load THEN pc' = "first" /\ k' = k ELSE pc' = "phdr" /\ NextHeader
        /\ UNCHANGED <<entry, foreign>>
     \/ /\ k > Len(img)
        /\ pc' = next
        /\ entry' = TRUE
        /\ foreign' = ~ child
        /\ UNCHANGED k
  /\ i' = 0 /\ r' = 0
  /\ UNCHANGED <<task, mem, lost, child, stk, esp, lib>>

Phdr == who # "kernel" /\ Header("lib")

load_elf == who = "kernel" /\ Header("run")

(* seek or readn of a program header fails. *)
PhdrFails ==
  /\ pc = "phdr" /\ who # "kernel" /\ k <= Len(img)
  /\ GiveUp
  /\ UNCHANGED <<task, set, k, i, r, mem, lost>>

(* Mutant: the error of usr_load_elf is not looked at. *)
LoadGoesOn == pc' = "phdr" /\ NextHeader

LoadGivesUp == GiveUp /\ UNCHANGED k

(* An error of a part ends spawn; load_icode goes on without an entry. *)
LoadFails == IF who = "kernel" THEN pc' = "run" /\ UNCHANGED k ELSE LoadGivesUp

(* A page could not be had; or it was, and could not be mapped at BUFPAGE. *)
PartFails ==
  /\ \/ pc = "first" /\ Off(Seg.va) > 0 /\ ~ (who = "kernel" /\ PageOf(At) \in DOMAIN mem)
     \/ pc = "bin" /\ i < Seg.filesz
     \/ pc = "tail" /\ Off(At) > 0 /\ ~ (who = "kernel" /\ PageOf(At) \in DOMAIN mem)
     \/ pc = "bss" /\ i < Seg.memsz
  /\ \/ UNCHANGED mem
     \/ pc \in {"first", "bin"} /\ who # "kernel" /\ child /\ Insert(At, Blank)
  /\ LoadFails
  /\ UNCHANGED <<task, set, i, r, lost>>

(* Mutant: the first part is the whole segment. *)
FirstSizeAll(s) == s.filesz

FirstSize(s) == Least(s.filesz, PG - Off(s.va))

(* The kernel adds to a page that is there, usr_load_elf takes a new one. *)
FirstPage == IF who = "kernel" THEN Found(At) ELSE Blank

First ==
  /\ pc = "first" /\ (child \/ Off(Seg.va) = 0)
  /\ IF Off(Seg.va) = 0 THEN UNCHANGED <<i, r, mem, lost>>
     ELSE /\ Map(At, Copy(FirstPage, Off(At), FirstSize(Seg), k, 0))
          /\ i' = FirstSize(Seg) /\ r' = FirstSize(Seg)
  /\ pc' = "bin"
  /\ UNCHANGED <<task, set, k>>

Bin ==
  /\ pc = "bin"
  /\ \/ /\ i < Seg.filesz /\ child
        /\ LET n == Least(PG, Seg.filesz - i) IN
             Map(At, Copy(Blank, 0, n, k, i)) /\ i' = i + n /\ r' = n
        /\ UNCHANGED pc
     \/ i >= Seg.filesz /\ pc' = "tail" /\ UNCHANGED <<i, r, mem, lost>>
  /\ UNCHANGED <<task, set, k>>

RestSize(s, n) == Least(s.memsz - n, PG - Off(s.va + n))

(* Without a rest the kernel adds the size of the last part once more:     *)
(* pages of the bss are left out, and page_out makes them up when used.    *)
BssFrom == IF who = "kernel" THEN i + r ELSE i

Rest ==
  /\ pc = "tail"
  /\ IF Off(At) > 0
     THEN /\ child
          /\ Map(At, Clear(Found(At), Off(At), RestSize(Seg, i)))
          /\ i' = i + RestSize(Seg, i) /\ r' = RestSize(Seg, i)
     ELSE i' = BssFrom /\ UNCHANGED <<r, mem, lost>>
  /\ pc' = "bss"
  /\ UNCHANGED <<task, set, k>>

Bss ==
  /\ pc = "bss"
  /\ \/ /\ i < Seg.memsz /\ child
        /\ LET n == Least(PG, Seg.memsz - i) IN Map(At, Blank) /\ i' = i + n /\ r' = n
        /\ UNCHANGED <<pc, k>>
     \/ i >= Seg.memsz /\ pc' = "phdr" /\ NextHeader /\ UNCHANGED <<i, r, mem, lost>>
  /\ UNCHANGED <<task, set>>

-----------------------------------------------------------------------------
(* The library pages, and the start of the child *)

MapLib ==
  /\ pc = "lib" /\ lib < NLIB /\ child
  /\ lib' = lib + 1
  /\ UNCHANGED <<task, pc, k, i, r, mem, lost, child, stk, esp, entry, foreign>>

MapLibFails ==
  /\ pc = "lib" /\ lib < NLIB
  /\ GiveUp
  /\ UNCHANGED <<task, set, k, i, r, mem, lost>>

MapLibDone ==
  /\ pc = "lib" /\ lib = NLIB
  /\ pc' = "start"
  /\ UNCHANGED <<task, set, k, i, r, mem, lost>>

(* set_env_status fails when there is no child. *)
Start ==
  /\ pc = "start"
  /\ IF child THEN pc' = "run" ELSE GiveUp
  /\ UNCHANGED <<task, set, k, i, r, mem, lost>>

Done == pc \in {"run", "error", "panic"} /\ UNCHANGED vars

Next ==
  \/ Boot \/ Open \/ OpenFails \/ InitStack \/ Phdr \/ load_elf
  \/ PhdrFails \/ PartFails \/ First \/ Bin \/ Rest \/ Bss
  \/ MapLib \/ MapLibFails \/ MapLibDone \/ Start \/ Done

Spec == Init /\ [][Next]_vars /\ WF_vars(Next)

-----------------------------------------------------------------------------
(* Properties *)

(* What the child reads at a: a page that is missing is a page of zeros,   *)
(* see page_out.                                                           *)
Reads(a) == Found(a)[Off(a)]

(* What the program header says is at byte n of the segment of header j *)
Says(j, n) == IF n < img[j].filesz THEN <<j, n>> ELSE Zero

(***************************************************************************)
(* A program that was started reads, at every address of each of its       *)
(* segments, the byte of its file or the zero of its bss, and a child of   *)
(* spawn has every library page of its parent, wherever a segment begins   *)
(* and ends in its pages and whichever step failed for want of memory.     *)
(* The exceptions are the kernel's: a program that load_elf gave up, and   *)
(* the pages that load_icode_mapper did not see it could not map.          *)
(***************************************************************************)
LoadedWhole ==
  pc = "run" /\ ~ (who = "kernel" /\ ~ entry) =>
    /\ entry /\ child
    /\ lib = (IF who = "kernel" THEN 0 ELSE NLIB)
    /\ \A j \in DOMAIN img : img[j].load =>
         \A n \in 0 .. img[j].memsz - 1 :
           PageOf(img[j].va + n) \in lost \/ Reads(img[j].va + n) = Says(j, n)

Holds(a, v) == Word(a, v) \in stk

(***************************************************************************)
(* When init_stack succeeded, user_start finds at the stack pointer argc   *)
(* and the address of a vector whose words are the addresses of the        *)
(* strings, in their order and with a zero at the end; all of it is in the *)
(* one page of the stack, and no part of it overlaps another.              *)
(***************************************************************************)
ArgsArrive ==
  pc = "run" /\ stk # {} =>
    /\ Holds(esp, Len(argv))
    /\ \E a \in 0 .. Top :
         /\ Holds(esp + W, a)
         /\ Holds(a + W * Len(argv), 0)
         /\ \A j \in DOMAIN argv : \E b \in 0 .. Top :
              Holds(a + W * (j - 1), b) /\ String(b, j, argv[j] + 1) \in stk
    /\ \A x \in stk : Top - PG <= x.at /\ x.at + x.len <= Top
    /\ \A x, y \in stk : x = y \/ x.at + x.len <= y.at \/ y.at + y.len <= x.at

(***************************************************************************)
(* spawn never writes the trap frame of an environment that is not its     *)
(* child, although it does not see that env_alloc failed: the first page   *)
(* it asks for the child fails before.                                     *)
(***************************************************************************)
OwnTrapframe == ~ foreign

(***************************************************************************)
(* Every spawn comes to an end: the loops over headers, parts and pages    *)
(* make progress whatever the sizes of the segments.                       *)
(***************************************************************************)
SpawnEnds == <>(pc \in {"run", "error", "panic"})
=============================================================================
