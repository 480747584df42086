---------------------------- MODULE SpawnProofs ----------------------------
(***************************************************************************)
(* Proofs about Spawn, for every page size and every program.              *)
(*                                                                         *)
(*   Childless   how far spawn comes when env_alloc has failed: not past a *)
(*               segment that has bytes; from it, OwnTrapframe.            *)
(*   Loading     what of the current segment is in its pages after each of *)
(*               the four parts, what of the others is; from it,           *)
(*               LoadedWhole for programs whose segments share no page.    *)
(*   StackOK     the stack is empty or laid out by init_stack; from it,    *)
(*               ArgsArrive for every list of arguments.  What the sums of *)
(*               the lengths are is shown on a least counterexample.       *)
(***************************************************************************)
EXTENDS Spawn, WellFoundedInduction, TLAPS

-----------------------------------------------------------------------------
(* Invariants *)

Parts == {"first", "bin", "tail", "bss"}

Types ==
  /\ who \in {"spawn", "spawn_valist", "kernel"} /\ img \in Images
  /\ child \in BOOLEAN /\ entry \in BOOLEAN
  /\ k \in Nat \ {0} /\ lib \in Nat

Childless ==
  /\ who = "kernel" /\ pc # "open" => child
  /\ pc \in Parts => k \in DOMAIN img /\ img[k].load
  /\ pc \in {"open", "stack"} => k = 1 /\ ~ entry
  /\ ~ child => /\ \A j \in DOMAIN img : j < k => ~ (img[j].load /\ img[j].memsz > 0)
                /\ pc \in Parts => i = 0
                /\ pc \notin {"lib", "start"} /\ ~ entry
  /\ ~ foreign

(* What is read at a is w, unless its page was lost. *)
Sees(a, w) == PageOf(a) \in lost \/ Reads(a) = w

(* Segment j reads as its program header says. *)
Whole(j) == \A n \in 0 .. img[j].memsz - 1 : Sees(img[j].va + n, Says(j, n))

(* The pages of a segment, with the one it begins in. *)
Span(s) == {PageOf(s.va + n) : n \in 0 .. s.memsz - 1} \union {PageOf(s.va)}

Fresh(j) == Span(img[j]) \intersect DOMAIN mem = {}

(* The pages of the current segment that are ahead are not mapped. *)
Ahead ==
  \A n \in i .. Seg.memsz - 1 :
    Off(At) = 0 \/ PageOf(Seg.va + n) # PageOf(At) => PageOf(Seg.va + n) \notin DOMAIN mem

InFile == \A n \in 0 .. i - 1 : Sees(Seg.va + n, Says(k, n))

PartOK ==
  /\ pc \in Parts => i \in Nat /\ r \in Nat
  /\ pc = "first" => i = 0 /\ r = 0 /\ Fresh(k)
  /\ pc = "bin" => /\ i <= Seg.filesz /\ InFile /\ Ahead
                   /\ i < Seg.filesz => Off(At) = 0
  /\ pc = "tail" => i = Seg.filesz /\ InFile /\ Ahead
  /\ pc = "bss" => /\ Whole(k)
                   /\ i < Seg.memsz => \A n \in 0 .. Seg.filesz - 1 : PageOf(Seg.va + n) < PageOf(At)

(* The loader has not given up. *)
Live == pc \notin {"error", "panic", "run"} \/ (pc = "run" /\ entry)

Flags ==
  /\ entry => pc \in {"lib", "start", "run", "error", "panic"}
  /\ pc \in {"lib", "start"} => entry /\ who # "kernel"
  /\ entry /\ Live => k > Len(img)
  /\ who = "kernel" => lib = 0
  /\ pc = "start" \/ (pc = "run" /\ who # "kernel") => lib = NLIB /\ entry

(* The segments before the current one are loaded, the others not begun. *)
SegsOK ==
  Live => \A j \in DOMAIN img : img[j].load =>
            /\ j < k => Whole(j)
            /\ j > k \/ (j = k /\ pc \notin Parts) => Fresh(j)

Loading == Flags /\ SegsOK /\ PartOK

(***************************************************************************)
(* The linker script (user/user.ld) aligns the sections to pages, so that  *)
(* no page belongs to two segments.                                        *)
(***************************************************************************)
OwnPages ==
  \A m \in Images : \A j, l \in DOMAIN m :
    j # l /\ m[j].load /\ m[l].load => Span(m[j]) \intersect Span(m[l]) = {}

-----------------------------------------------------------------------------
(* Pages and addresses *)

(* The size of a page. *)
LEMMA Consts ==
  /\ PG \in Nat \ {0}
  /\ Zero = <<0, 0>>
BY SpawnAssumption DEF Zero

(* An address is a page and an offset. *)
LEMMA Address ==
  ASSUME NEW a \in Nat
  PROVE  /\ PageOf(a) \in Nat /\ Off(a) \in Nat /\ Off(a) < PG /\ Off(a) \in Offset
         /\ a = PG * PageOf(a) + Off(a)
BY Consts DEF PageOf, Off, Offset

(* The page of an address is the one whose bounds it is in. *)
LEMMA InPage ==
  ASSUME NEW a \in Nat, NEW g \in Nat, NEW o \in Nat, o < PG, a = PG * g + o
  PROVE  PageOf(a) = g /\ Off(a) = o
<1> DEFINE h == PageOf(a)
           x == Off(a)
<1>1. h \in Nat /\ x \in Nat /\ x < PG /\ a = PG * h + x /\ PG \in Nat \ {0}
  BY Address, Consts
<1> HIDE DEF h, x
<1>2. PG * (h - g) = o - x
  BY <1>1
<1>3. CASE h - g >= 1
  <2>1. PG * (h - g) >= PG
    BY <1>1, <1>3
  <2> QED BY <2>1, <1>1, <1>2
<1>4. CASE h - g <= -1
  <2>1. PG * (h - g) <= - PG
    BY <1>1, <1>4
  <2> QED BY <2>1, <1>1, <1>2
<1>5. CASE h = g
  <2>1. x = o
    BY <1>1, <1>5
  <2> QED BY <2>1, <1>5 DEF h, x
<1> QED BY <1>1, <1>3, <1>4, <1>5

(* Addresses up to the end of a page are in it. *)
LEMMA SamePage ==
  ASSUME NEW a \in Nat, NEW d \in Nat, Off(a) + d < PG
  PROVE  PageOf(a + d) = PageOf(a) /\ Off(a + d) = Off(a) + d
<1>1. /\ PageOf(a) \in Nat /\ Off(a) \in Nat /\ a = PG * PageOf(a) + Off(a)
      /\ PG \in Nat
  BY Address, Consts
<1> DEFINE g == PageOf(a)
           o == Off(a) + d
<1>2. g \in Nat /\ o \in Nat /\ o < PG /\ a + d \in Nat /\ a + d = PG * g + o
  BY <1>1
<1> HIDE DEF g, o
<1>3. PageOf(a + d) = g /\ Off(a + d) = o
  BY <1>2, InPage
<1> QED BY <1>3 DEF g, o

(* The first address after a page begins the next one. *)
LEMMA NextPageOf ==
  ASSUME NEW a \in Nat
  PROVE  /\ Off(a + (PG - Off(a))) = 0
         /\ PageOf(a + (PG - Off(a))) = PageOf(a) + 1
<1>1. /\ PageOf(a) \in Nat /\ Off(a) \in Nat /\ Off(a) < PG /\ a = PG * PageOf(a) + Off(a)
      /\ PG \in Nat \ {0}
  BY Address, Consts
<1> DEFINE g == PageOf(a) + 1
           b == a + (PG - Off(a))
<1>2. g \in Nat /\ b \in Nat /\ b = PG * g + 0 /\ 0 < PG
  BY <1>1
<1> HIDE DEF g, b
<1>3. PageOf(b) = g /\ Off(b) = 0
  BY <1>2, InPage
<1> QED BY <1>3 DEF g, b

(* Pages are in the order of their addresses. *)
LEMMA PageOrder ==
  ASSUME NEW a \in Nat, NEW b \in Nat, a <= b
  PROVE  PageOf(a) <= PageOf(b)
<1> DEFINE g == PageOf(a)
           h == PageOf(b)
<1>1. /\ g \in Nat /\ h \in Nat /\ PG \in Nat \ {0}
      /\ PG * g <= a /\ b < PG * h + PG
  <2>1. g \in Nat /\ Off(a) \in Nat /\ a = PG * g + Off(a)
    BY Address
  <2>2. h \in Nat /\ Off(b) \in Nat /\ Off(b) < PG /\ b = PG * h + Off(b)
    BY Address
  <2> HIDE DEF g, h
  <2> QED BY <2>1, <2>2, Consts
<1> HIDE DEF g, h
<1> SUFFICES ASSUME g - h >= 1 PROVE FALSE
  BY <1>1 DEF g, h
<1>2. PG * (g - h) >= PG
  BY <1>1
<1>3. PG * (g - h) = PG * g - PG * h
  BY <1>1
<1> QED BY <1>1, <1>2, <1>3

(* Before the beginning of a page are other pages. *)
LEMMA BeforePage ==
  ASSUME NEW a \in Nat, NEW b \in Nat, a < b, Off(b) = 0
  PROVE  PageOf(a) < PageOf(b)
<1>1. /\ PageOf(a) <= PageOf(b) /\ PageOf(a) \in Nat /\ PageOf(b) \in Nat
      /\ a = PG * PageOf(a) + Off(a) /\ b = PG * PageOf(b) + Off(b) /\ Off(a) \in Nat
  BY PageOrder, Address
<1>2. PageOf(a) # PageOf(b)
  BY <1>1, Consts
<1> QED BY <1>1, <1>2

(* An address that does not begin a page is in the page of the one before. *)
LEMMA PageStays ==
  ASSUME NEW a \in Nat, Off(a + 1) > 0
  PROVE  PageOf(a) = PageOf(a + 1)
<1>1. Off(a) \in Nat /\ Off(a) < PG /\ PG \in Nat
  BY Address, Consts
<1>2. Off(a) + 1 # PG
  <2> SUFFICES ASSUME Off(a) + 1 = PG PROVE FALSE
    OBVIOUS
  <2>1. PG - Off(a) = 1
    BY <1>1
  <2>2. Off(a + 1) = 0
    BY <2>1, NextPageOf
  <2> QED BY <2>2
<1>3. Off(a) + 1 < PG
  BY <1>1, <1>2
<1> QED BY <1>3, SamePage

(* Beyond the end of a page are other pages. *)
LEMMA BeyondPage ==
  ASSUME NEW a \in Nat, NEW d \in Nat, Off(a) + d >= PG
  PROVE  PageOf(a) < PageOf(a + d)
<1>1. PageOf(a) \in Nat /\ Off(a) \in Nat /\ Off(a) < PG /\ PG \in Nat
  BY Address, Consts
<1>2. /\ a + (PG - Off(a)) \in Nat /\ a + d \in Nat /\ a + (PG - Off(a)) <= a + d
  BY <1>1
<1>3. PageOf(a + (PG - Off(a))) <= PageOf(a + d)
  BY <1>2, PageOrder
<1>4. PageOf(a + (PG - Off(a))) = PageOf(a) + 1
  BY NextPageOf
<1>5. PageOf(a + d) \in Nat
  BY <1>2, Address
<1> QED BY <1>1, <1>3, <1>4, <1>5

-----------------------------------------------------------------------------
(* Pages of the child *)

(* A page that is inserted is read, and no other page changes. *)
LEMMA InsertReads ==
  ASSUME NEW a \in Nat, NEW page, Insert(a, page)
  PROVE  /\ DOMAIN mem' = DOMAIN mem \union {PageOf(a)}
         /\ \A b \in Nat : PageOf(b) = PageOf(a) => Reads(b)' = page[Off(b)]
         /\ \A b \in Nat : PageOf(b) # PageOf(a) => Reads(b)' = Reads(b)
<1>1. mem' = [g \in DOMAIN mem \union {PageOf(a)} |-> IF g = PageOf(a) THEN page ELSE mem[g]]
  BY DEF Insert
<1>2. DOMAIN mem' = DOMAIN mem \union {PageOf(a)}
  BY <1>1
<1>3. ASSUME NEW b \in Nat, PageOf(b) = PageOf(a) PROVE Reads(b)' = page[Off(b)]
  BY <1>1, <1>3 DEF Reads, Found
<1>4. ASSUME NEW b \in Nat, PageOf(b) # PageOf(a) PROVE Reads(b)' = Reads(b)
  BY <1>1, <1>4 DEF Reads, Found
<1> QED BY <1>2, <1>3, <1>4

(* The same of what is seen. *)
LEMMA InsertSees ==
  ASSUME NEW a \in Nat, NEW page, Insert(a, page), lost' = lost
  PROVE  /\ DOMAIN mem' = DOMAIN mem \union {PageOf(a)}
         /\ \A b \in Nat : PageOf(b) = PageOf(a) => \A w : page[Off(b)] = w => Sees(b, w)'
         /\ \A b \in Nat : PageOf(b) # PageOf(a) => \A w : Sees(b, w) => Sees(b, w)'
BY InsertReads DEF Sees

(* A page that is not mapped reads as zeros. *)
LEMMA UnmappedReads ==
  ASSUME NEW b \in Nat, PageOf(b) \notin DOMAIN mem
  PROVE  Reads(b) = Zero
BY Address DEF Reads, Found, Blank

(* What is seen stays when no page is mapped, and when one is lost. *)
LEMMA SeesStays ==
  ASSUME mem' = mem, lost \subseteq lost'
  PROVE  \A b, w : Sees(b, w) => Sees(b, w)'
BY DEF Sees, Reads, Found

(* The header of the program. *)
LEMMA Headers ==
  ASSUME Types
  PROVE  /\ Len(img) \in Nat /\ DOMAIN img = 1 .. Len(img)
         /\ \A j \in DOMAIN img :
              /\ img[j].va \in Nat /\ img[j].filesz \in Nat /\ img[j].memsz \in Nat
              /\ img[j].filesz <= img[j].memsz /\ img[j].load \in BOOLEAN
         /\ \E j \in DOMAIN img : img[j].load /\ img[j].memsz > 0
<1>1. img \in Seq(ProgramHeader)
  BY SpawnAssumption DEF Types
<1>2. \A j \in DOMAIN img : img[j] \in ProgramHeader
  BY <1>1
<1>3. /\ \A j \in DOMAIN img : img[j].filesz <= img[j].memsz
      /\ \E j \in DOMAIN img : img[j].load /\ img[j].memsz > 0
  BY SpawnAssumption DEF Types
<1> QED BY <1>1, <1>2, <1>3 DEF ProgramHeader

-----------------------------------------------------------------------------
(* When there is no child *)

(* At first there is no child and no entry. *)
LEMMA InitChildless == Init => Types /\ Childless
<1> SUFFICES ASSUME Init PROVE Types /\ Childless
  OBVIOUS
<1>1. Types
  <2>1. child \in BOOLEAN /\ entry \in BOOLEAN
    BY Zenon DEF Init
  <2> QED BY <2>1 DEF Init, Types
<1>2. Len(img) \in Nat /\ DOMAIN img = 1 .. Len(img)
  BY <1>1, Headers
<1> QED BY <1>1, <1>2 DEF Init, Childless, Parts

(* The end of spawn, or of the loader. *)
LEMMA LeavesParts ==
  ASSUME Types, Childless, UNCHANGED <<task, child, lib, entry, foreign, k>>,
         who = "kernel" => pc # "open", pc' \in {"run", "error", "panic"}
  PROVE  Types' /\ Childless'
<1>1. /\ who' = who /\ img' = img /\ child' = child /\ entry' = entry /\ lib' = lib
      /\ foreign' = foreign /\ k' = k
  BY DEF task
<1>2. Types'
  BY <1>1 DEF Types
<1>3. Childless'
  BY <1>1 DEF Childless, Parts
<1> QED BY <1>2, <1>3

(* Every step keeps Types and Childless. *)
LEMMA NextChildless ==
  ASSUME Types, Childless, [Next]_vars
  PROVE  Types' /\ Childless'
<1>0. /\ Len(img) \in Nat /\ DOMAIN img = 1 .. Len(img)
      /\ \A j \in DOMAIN img : img[j].memsz \in Nat /\ img[j].filesz \in Nat
      /\ \E j \in DOMAIN img : img[j].load /\ img[j].memsz > 0
      /\ k \in Nat \ {0}
  BY Headers DEF Types
<1>1. CASE UNCHANGED vars
  BY <1>1 DEF vars, Types, Childless, Parts
<1>2. CASE Boot
  BY <1>0, <1>2 DEF Boot, Types, Childless, Parts, task
<1>3. CASE Open
  <2>1. /\ pc = "open" /\ who # "kernel" /\ pc' = "stack" /\ child' \in BOOLEAN
        /\ who' = who /\ img' = img /\ entry' = entry /\ lib' = lib /\ foreign' = foreign /\ k' = k
    BY <1>3 DEF Open, task
  <2>2. Types'
    BY <2>1 DEF Types
  <2>3. ~ entry
    BY <2>1 DEF Childless
  <2>4. Childless'
    BY <2>1, <2>3, <1>0 DEF Childless, Parts
  <2> QED BY <2>2, <2>4
<1>4. CASE OpenFails
  <2>1. pc' \in {"run", "error", "panic"}
    BY <1>4 DEF OpenFails, GiveUp
  <2> QED BY <2>1, <1>4, LeavesParts DEF OpenFails, set
<1>5. CASE InitStack
  BY <1>0, <1>5 DEF InitStack, Types, Childless, Parts, task
<1>6. ASSUME NEW next \in {"lib", "run"}, Header(next), next = "run" => who = "kernel"
      PROVE  Types' /\ Childless'
  <2>1. CASE k <= Len(img) /\ Seg.load /\ pc' = "first" /\ k' = k /\ UNCHANGED <<entry, foreign>>
    <3>1. /\ k \in DOMAIN img /\ img[k].load /\ i' = 0 /\ pc = "phdr"
          /\ UNCHANGED <<task, child, lib>>
      BY <2>1, <1>0, <1>6 DEF Header, Seg
    <3> QED BY <2>1, <3>1 DEF Types, Childless, Parts, task
  <2>2. CASE k <= Len(img) /\ ~ Seg.load /\ pc' = "phdr" /\ k' = k + 1 /\ UNCHANGED <<entry, foreign>>
    <3>1. k \in DOMAIN img /\ ~ img[k].load /\ pc = "phdr" /\ UNCHANGED <<task, child, lib>>
      BY <2>2, <1>0, <1>6 DEF Header, Seg
    <3>2. \A j \in DOMAIN img : j < k + 1 => j < k \/ j = k
      BY <1>0
    <3> QED BY <2>2, <3>1, <3>2, <1>0 DEF Types, Childless, Parts, task
  <2>3. CASE k > Len(img) /\ pc' = next /\ entry' = TRUE /\ foreign' = (~ child) /\ k' = k
    <3>1. pc = "phdr" /\ UNCHANGED <<task, child, lib>>
      BY <1>6 DEF Header
    <3>2. \A j \in DOMAIN img : j < k
      BY <2>3, <1>0
    <3>3. child
      BY <3>2, <1>0 DEF Childless
    <3> QED BY <2>3, <3>1, <3>3, <1>6 DEF Types, Childless, Parts, task
  <2> QED BY <1>6, <2>1, <2>2, <2>3 DEF Header, NextHeader
<1>7. CASE Phdr
  BY <1>6, <1>7 DEF Phdr
<1>8. CASE load_elf
  BY <1>6, <1>8 DEF load_elf
<1>9. CASE PartFails
  <2>1. pc' \in {"run", "error", "panic"} /\ k' = k
    BY <1>9 DEF PartFails, LoadFails, LoadGivesUp, GiveUp
  <2>2. UNCHANGED <<task, child, lib, entry, foreign, k>>
    BY <2>1, <1>9 DEF PartFails, set
  <2>3. pc # "open"
    BY <1>9 DEF PartFails
  <2> QED BY <2>1, <2>2, <2>3, LeavesParts
<1>10. CASE First
  <2>1. pc = "first" /\ pc' = "bin" /\ UNCHANGED <<task, child, lib, entry, foreign, k>>
    BY <1>10 DEF First, set
  <2>2. ~ child => i' = i
    BY <1>10 DEF First
  <2> QED BY <2>1, <2>2 DEF Types, Childless, Parts, task
<1>11. CASE Bin
  <2>1. /\ pc = "bin" /\ pc' \in {"bin", "tail"}
        /\ UNCHANGED <<task, child, lib, entry, foreign, k>>
    BY <1>11 DEF Bin, set
  <2>2. ~ child => i' = i
    BY <1>11 DEF Bin
  <2> QED BY <2>1, <2>2 DEF Types, Childless, Parts, task
<1>12. CASE Rest
  <2>1. /\ pc = "tail" /\ pc' = "bss"
        /\ UNCHANGED <<task, child, lib, entry, foreign, k>>
    BY <1>12 DEF Rest, set
  <2>2. ~ child => i' = i
    BY <2>1, <1>12 DEF Rest, BssFrom, Childless
  <2> QED BY <2>1, <2>2 DEF Types, Childless, Parts, task
<1>13. CASE Bss
  <2>1. pc = "bss" /\ UNCHANGED <<task, child, lib, entry, foreign>>
    BY <1>13 DEF Bss, set
  <2>2. CASE child /\ pc' = pc /\ k' = k
    BY <2>1, <2>2 DEF Types, Childless, Parts, task
  <2>3. CASE i >= Seg.memsz /\ pc' = "phdr" /\ k' = k + 1
    <3>1. ~ child => ~ (img[k].memsz > 0)
      BY <2>1, <2>3, <1>0 DEF Childless, Parts, Seg
    <3>2. \A j \in DOMAIN img : j < k + 1 => j < k \/ j = k
      BY <1>0
    <3> QED BY <2>1, <2>3, <3>1, <3>2, <1>0 DEF Types, Childless, Parts, task
  <2> QED BY <1>13, <2>2, <2>3 DEF Bss, NextHeader
<1>14. CASE MapLib
  BY <1>14 DEF MapLib, Types, Childless, Parts, task
<1>15. CASE MapLibFails
  <2>1. pc' \in {"run", "error", "panic"}
    BY <1>15 DEF MapLibFails, GiveUp
  <2> QED BY <2>1, <1>15, LeavesParts DEF MapLibFails, set
<1>16. CASE MapLibDone
  BY <1>16 DEF MapLibDone, Types, Childless, Parts, task, set
<1>17. CASE Start
  <2>1. pc' \in {"run", "error", "panic"}
    BY <1>17 DEF Start, GiveUp
  <2> QED BY <2>1, <1>17, LeavesParts DEF Start, set
<1>18. CASE Done
  BY <1>1, <1>18 DEF Done
<1>19. CASE PhdrFails
  <2>1. pc' \in {"run", "error", "panic"} /\ pc # "open"
    BY <1>19 DEF PhdrFails, GiveUp
  <2> QED BY <2>1, <1>19, LeavesParts DEF PhdrFails, set
<1> QED BY <1>1, <1>2, <1>3, <1>4, <1>5, <1>7, <1>8, <1>9, <1>10, <1>11, <1>12, <1>13,
           <1>14, <1>15, <1>16, <1>17, <1>18, <1>19 DEF Next

(* Without a child spawn comes to no segment that has bytes. *)
THEOREM ChildlessInvariant == Spec => [](Types /\ Childless)
<1>1. Init => Types /\ Childless
  BY InitChildless
<1>2. Types /\ Childless /\ [Next]_vars => (Types /\ Childless)'
  BY NextChildless
<1> QED BY <1>1, <1>2, PTL DEF Spec

(***************************************************************************)
(* For every program that has a segment with bytes: spawn, which takes the *)
(* error code of env_alloc for an id, never gets as far as to write the    *)
(* entry into the trap frame of the environment that this id names.        *)
(***************************************************************************)
THEOREM TrapframeIsOwn == Spec => []OwnTrapframe
<1>1. Childless => OwnTrapframe
  BY DEF Childless, OwnTrapframe
<1> QED BY <1>1, ChildlessInvariant, PTL

-----------------------------------------------------------------------------
(* The four parts of a segment at v with f bytes of file and z of memory *)

(* Within the pages of the file: x bytes of the segment at v are there. *)
Prefix(v, f, z, x) ==
  /\ x \in Nat /\ x <= f
  /\ \A m \in 0 .. x - 1 : Sees(v + m, <<k, m>>)
  /\ \A m \in x .. z - 1 : Off(v + x) = 0 \/ PageOf(v + m) # PageOf(v + x)
                             => PageOf(v + m) \notin DOMAIN mem

(* Beyond them: all of it reads as it will, and what comes is other pages. *)
Filled(v, f, z, x) ==
  /\ x \in Nat
  /\ \A m \in 0 .. f - 1 : Sees(v + m, <<k, m>>)
  /\ \A m \in f .. z - 1 : Sees(v + m, Zero)
  /\ x < z => \A m \in 0 .. f - 1 : PageOf(v + m) < PageOf(v + x)

(* After a part that ends in its page, what is ahead is in other pages. *)
LEMMA AheadOfPart ==
  ASSUME NEW a \in Nat, NEW n \in Nat, NEW m \in Nat, Off(a) + n <= PG, n <= m, Off(a) + n > 0,
         Off(a + n) = 0 \/ PageOf(a + m) # PageOf(a + n)
  PROVE  PageOf(a + m) # PageOf(a)
<1>0. a + m \in Nat
  OBVIOUS
<1>1. Off(a) \in Nat /\ PG \in Nat /\ PageOf(a) \in Nat /\ PageOf(a + m) \in Nat
  BY <1>0, Address, Consts
<1>2. CASE Off(a) + n < PG
  <2>1. PageOf(a + n) = PageOf(a) /\ Off(a + n) = Off(a) + n
    BY <1>2, SamePage
  <2> QED BY <2>1, <1>1
<1>3. CASE Off(a) + n = PG
  <2>1. Off(a) + m >= PG
    BY <1>1, <1>3
  <2>2. PageOf(a) < PageOf(a + m)
    BY <2>1, BeyondPage
  <2> QED BY <2>2, <1>1
<1> QED BY <1>1, <1>2, <1>3

(* What a copy and a bzero do to the bytes of a page. *)
LEMMA CopyFacts ==
  ASSUME NEW page, NEW a \in Nat, NEW n \in Nat, NEW j, NEW f \in Nat, NEW o \in Offset
  PROVE  /\ o \in a .. a + n - 1 => Copy(page, a, n, j, f)[o] = <<j, f + o - a>>
         /\ o \in a .. a + n - 1 => Clear(page, a, n)[o] = Zero
         /\ o \notin a .. a + n - 1 => Clear(page, a, n)[o] = page[o]
BY DEF Copy, Clear

(* n bytes from f0 on are copied to the page of a, up to its end at most. *)
LEMMA CopyReads ==
  ASSUME NEW a \in Nat, NEW page, Insert(a, page), NEW n \in Nat, Off(a) + n <= PG,
         NEW j, NEW f0 \in Nat, page = Copy(Blank, Off(a), n, j, f0)
  PROVE  \A d \in 0 .. n - 1 : Reads(a + d)' = <<j, f0 + d>>
<1> SUFFICES ASSUME NEW d \in 0 .. n - 1 PROVE Reads(a + d)' = <<j, f0 + d>>
  OBVIOUS
<1>1. Off(a) \in Nat /\ PG \in Nat /\ d \in Nat /\ a + d \in Nat /\ Off(a) + d < PG
  BY Address, Consts
<1>2. PageOf(a + d) = PageOf(a) /\ Off(a + d) = Off(a) + d
  BY <1>1, SamePage
<1>3. Reads(a + d)' = page[Off(a) + d]
  <2>1. \A b \in Nat : PageOf(b) = PageOf(a) => Reads(b)' = page[Off(b)]
    BY InsertReads
  <2>2. Reads(a + d)' = page[Off(a + d)]
    BY <2>1, <1>1, <1>2
  <2> QED BY <2>2, <1>2
<1>4. Off(a) + d \in Offset /\ Off(a) + d \in Off(a) .. Off(a) + n - 1
  BY <1>1 DEF Offset
<1>5. page[Off(a) + d] = <<j, f0 + (Off(a) + d) - Off(a)>>
  BY <1>4 DEF Copy
<1>6. f0 + (Off(a) + d) - Off(a) = f0 + d
  BY <1>1
<1> QED BY <1>3, <1>5, <1>6

(* The smaller of two numbers. *)
LEMMA LeastFacts ==
  ASSUME NEW m \in Nat, NEW n \in Nat
  PROVE  /\ Least(m, n) \in Nat /\ Least(m, n) <= m /\ Least(m, n) <= n
         /\ Least(m, n) = m \/ Least(m, n) = n
BY DEF Least

(* The page a segment begins in, when it begins inside. *)
LEMMA FirstPart ==
  ASSUME NEW v \in Nat, NEW f \in Nat, NEW z \in Nat, NEW n, Off(v) > 0, k' = k, lost' = lost,
         n = Least(f, PG - Off(v)), Insert(v, Copy(Blank, Off(v), n, k, 0)),
         \A m \in 0 .. z - 1 : PageOf(v + m) \notin DOMAIN mem
  PROVE  Prefix(v, f, z, n)' /\ n \in Nat /\ (n < f => Off(v + n) = 0)
<1> PICK j : j = k
  OBVIOUS
<1>1. Off(v) \in Nat /\ Off(v) < PG /\ PG \in Nat
  BY Address, Consts
<1>2. PG - Off(v) \in Nat
  BY <1>1
<1>3. n \in Nat /\ n <= f /\ n <= PG - Off(v) /\ (n < f => n = PG - Off(v))
  BY <1>2, LeastFacts
<1>4. Off(v) + n <= PG /\ Off(v) + n > 0
  BY <1>1, <1>3
<1>5. ASSUME NEW m \in 0 .. n - 1 PROVE Sees(v + m, <<j, m>>)'
  <2>1. 0 \in Nat
    OBVIOUS
  <2>2. \A d \in 0 .. n - 1 : Reads(v + d)' = <<j, 0 + d>>
    <3>1. PICK page : page = Copy(Blank, Off(v), n, j, 0) /\ Insert(v, page)
      OBVIOUS
    <3> QED BY <3>1, <2>1, <1>3, <1>4, CopyReads
  <2> QED BY <2>2 DEF Sees
<1>6. ASSUME NEW m \in n .. z - 1, Off(v + n) = 0 \/ PageOf(v + m) # PageOf(v + n)
      PROVE  PageOf(v + m) \notin DOMAIN mem'
  <2>1. m \in Nat /\ n <= m /\ m \in 0 .. z - 1
    BY <1>3
  <2>2. PageOf(v + m) # PageOf(v)
    BY <2>1, <1>3, <1>4, <1>6, AheadOfPart
  <2>3. DOMAIN mem' = DOMAIN mem \union {PageOf(v)}
    BY InsertReads
  <2> QED BY <2>1, <2>2, <2>3
<1>7. n < f => Off(v + n) = 0
  BY <1>3, NextPageOf
<1>8. Prefix(v, f, z, n)'
  BY <1>3, <1>5, <1>6 DEF Prefix
<1> QED BY <1>3, <1>7, <1>8

(* A turn of the loop over the pages of the file. *)
LEMMA BinPart ==
  ASSUME NEW v \in Nat, NEW f \in Nat, NEW z \in Nat, NEW x, Prefix(v, f, z, x), x < f, k' = k,
         lost' = lost,
         NEW n, Off(v + x) = 0, n = Least(PG, f - x), Insert(v + x, Copy(Blank, 0, n, k, x))
  PROVE  /\ \A y : y = x + n => Prefix(v, f, z, y)' /\ (y < f => Off(v + y) = 0)
         /\ n \in Nat
<1> PICK j : j = k
  OBVIOUS
<1>0. /\ x \in Nat
      /\ \A m \in 0 .. x - 1 : Sees(v + m, <<j, m>>)
      /\ \A m \in x .. z - 1 : PageOf(v + m) \notin DOMAIN mem
  BY DEF Prefix
<1> DEFINE a == v + x
<1>1. a \in Nat /\ Off(a) = 0 /\ PG \in Nat \ {0} /\ f - x \in Nat
  BY <1>0, Consts
<1>2. n \in Nat /\ n <= PG /\ n <= f - x /\ (n = PG \/ n = f - x)
  BY <1>1, LeastFacts
<1>3. Off(a) + n <= PG /\ Off(a) + n > 0
  BY <1>0, <1>1, <1>2
<1>4. \A m \in Nat : v + (x + m) = a + m
  BY <1>0
<1>5. Insert(a, Copy(Blank, Off(a), n, j, x))
  BY <1>1
<1> HIDE DEF a
<1>6. ASSUME NEW m \in 0 .. x + n - 1 PROVE Sees(v + m, <<j, m>>)'
  <2>1. CASE m < x
    <3>1. v + m \in Nat /\ v + m < a
      BY <2>1, <1>0 DEF a
    <3>2. PageOf(v + m) < PageOf(a)
      BY <3>1, <1>1, BeforePage
    <3>3. PageOf(v + m) # PageOf(a)
      BY <3>1, <3>2, <1>1, Address
    <3>4. \A w : Sees(v + m, w) => Sees(v + m, w)'
      BY <3>1, <3>3, <1>1, <1>5, InsertSees
    <3>5. m \in 0 .. x - 1
      BY <2>1, <1>0, <1>2
    <3> QED BY <3>4, <3>5, <1>0
  <2>2. CASE m >= x
    <3>1. m - x \in 0 .. n - 1 /\ m - x \in Nat
      BY <2>2, <1>0, <1>2
    <3>2. \A d \in 0 .. n - 1 : Reads(a + d)' = <<j, x + d>>
      <4>1. PICK page : page = Copy(Blank, Off(a), n, j, x) /\ Insert(a, page)
        BY <1>5
      <4> QED BY <4>1, <1>0, <1>1, <1>2, <1>3, CopyReads
    <3>3. a + (m - x) = v + m /\ x + (m - x) = m
      BY <1>0, <1>1, <1>2 DEF a
    <3>4. Reads(a + (m - x))' = <<j, x + (m - x)>>
      BY <3>1, <3>2
    <3> QED BY <3>3, <3>4 DEF Sees
  <2> QED BY <2>1, <2>2, <1>0, <1>2
<1>7. ASSUME NEW m \in x + n .. z - 1,
             Off(v + (x + n)) = 0 \/ PageOf(v + m) # PageOf(v + (x + n))
      PROVE  PageOf(v + m) \notin DOMAIN mem'
  <2>1. m - x \in Nat /\ n <= m - x /\ m \in x .. z - 1 /\ a + (m - x) = v + m
    BY <1>0, <1>2 DEF a
  <2>2. v + (x + n) = a + n
    BY <1>2, <1>4
  <2>3. Off(a + n) = 0 \/ PageOf(a + (m - x)) # PageOf(a + n)
    BY <2>1, <2>2, <1>7
  <2>4. PageOf(a + (m - x)) # PageOf(a)
    BY <2>1, <2>3, <1>1, <1>2, <1>3, AheadOfPart
  <2>5. DOMAIN mem' = DOMAIN mem \union {PageOf(a)}
    BY <1>1, <1>5, InsertReads
  <2> QED BY <2>1, <2>4, <2>5, <1>0
<1>8. x + n < f => Off(v + (x + n)) = 0
  <2> SUFFICES ASSUME x + n < f PROVE Off(v + (x + n)) = 0
    OBVIOUS
  <2>1. n = PG /\ v + (x + n) = a + n
    BY <1>0, <1>2, <1>4
  <2>2. PG - Off(a) = n
    BY <2>1, <1>1
  <2> QED BY <2>1, <2>2, <1>1, NextPageOf
<1>9. x + n <= f /\ x + n \in Nat
  BY <1>0, <1>1, <1>2
<1> SUFFICES ASSUME NEW y, y = x + n PROVE Prefix(v, f, z, y)' /\ (y < f => Off(v + y) = 0)
  BY <1>2
<1>10. Prefix(v, f, z, y)'
  <2>1. \A m \in 0 .. y - 1 : Sees(v + m, <<j, m>>)'
    <3>1. 0 .. y - 1 = 0 .. x + n - 1
      BY <1>0, <1>2, <1>9
    <3> QED BY <3>1, <1>6, Zenon
  <2>2. \A m \in y .. z - 1 : Off(v + y) = 0 \/ PageOf(v + m) # PageOf(v + y)
                              => PageOf(v + m) \notin DOMAIN mem'
    BY <1>7
  <2> QED BY <2>1, <2>2, <1>9 DEF Prefix
<1> QED BY <1>8, <1>10

(* The rest of the last page of the file is cleared. *)
LEMMA RestPart ==
  ASSUME NEW v \in Nat, NEW f \in Nat, NEW z \in Nat, f <= z, Prefix(v, f, z, f), k' = k,
         lost' = lost,
         NEW n, Off(v + f) > 0, n = Least(z - f, PG - Off(v + f)),
         NEW page, page = Clear(Found(v + f), Off(v + f), n), Insert(v + f, page)
  PROVE  n \in Nat /\ \A y : y = f + n => Filled(v, f, z, y)'
<1> PICK j : j = k
  OBVIOUS
<1>0. /\ \A m \in 0 .. f - 1 : Sees(v + m, <<j, m>>)
      /\ \A m \in f .. z - 1 : PageOf(v + m) # PageOf(v + f) => PageOf(v + m) \notin DOMAIN mem
  BY DEF Prefix
<1> DEFINE a == v + f
<1>1. a \in Nat /\ PG \in Nat /\ Off(a) \in Nat /\ Off(a) < PG /\ PageOf(a) \in Nat
  BY Consts, Address
<1>2. PG - Off(a) \in Nat /\ z - f \in Nat
  BY <1>1
<1>3. n \in Nat /\ n <= z - f /\ n <= PG - Off(a) /\ (n = z - f \/ n = PG - Off(a))
  BY <1>2, LeastFacts
<1>4. /\ \A b \in Nat : PageOf(b) = PageOf(a) => Reads(b)' = page[Off(b)]
      /\ \A b \in Nat : PageOf(b) # PageOf(a) => Reads(b)' = Reads(b)
  <2>1. a \in Nat /\ Insert(a, page)
    BY <1>1
  <2> HIDE DEF a
  <2> QED BY <2>1, InsertReads
<1>5. \A o \in Offset : /\ o \in Off(a) .. Off(a) + n - 1 => page[o] = Zero
                        /\ o \notin Off(a) .. Off(a) + n - 1 => page[o] = Found(a)[o]
  BY DEF Clear
<1>6. ASSUME NEW m \in 0 .. f - 1 PROVE Sees(v + m, <<j, m>>)'
  <2>1. v + m \in Nat /\ v + m < a
    OBVIOUS
  <2>2. CASE PageOf(v + m) # PageOf(a)
    BY <2>1, <2>2, <1>0, <1>4 DEF Sees
  <2>3. CASE PageOf(v + m) = PageOf(a)
    <3>1. /\ Off(v + m) \in Offset /\ Off(v + m) \in Nat /\ Off(a) \in Nat
          /\ v + m = PG * PageOf(a) + Off(v + m) /\ a = PG * PageOf(a) + Off(a)
      <4>1. /\ Off(v + m) \in Offset /\ Off(v + m) \in Nat
            /\ v + m = PG * PageOf(v + m) + Off(v + m)
        BY <2>1, Address
      <4>2. a = PG * PageOf(a) + Off(a)
        BY <1>1, Address
      <4> QED BY <4>1, <4>2, <2>3, <1>1
    <3> HIDE DEF a
    <3>2. Off(v + m) < Off(a)
      <4> DEFINE c == PG * PageOf(a)
      <4>1. c \in Nat
        BY <1>1
      <4> HIDE DEF c
      <4>2. v + m = c + Off(v + m) /\ a = c + Off(a)
        BY <3>1 DEF c
      <4> QED BY <4>1, <4>2, <3>1, <2>1
    <3>3. page[Off(v + m)] = Found(a)[Off(v + m)]
      BY <3>1, <3>2, <1>5
    <3>4. Found(v + m) = Found(a)
      BY <2>3 DEF Found
    <3>5. Reads(v + m)' = page[Off(v + m)]
      BY <2>1, <2>3, <1>4
    <3>6. Reads(v + m) = Found(v + m)[Off(v + m)]
      BY DEF Reads
    <3> QED BY <3>3, <3>4, <3>5, <3>6, <1>0 DEF Sees
  <2> QED BY <2>2, <2>3
<1>7. ASSUME NEW m \in f .. z - 1 PROVE Sees(v + m, Zero)'
  <2> DEFINE d == m - f
  <2>1. d \in Nat /\ v + m \in Nat /\ v + m = a + d /\ d < z - f
    OBVIOUS
  <2> HIDE DEF d, a
  <2>2. CASE Off(a) + d < PG
    <3>1. PageOf(v + m) = PageOf(a) /\ Off(v + m) = Off(a) + d
      BY <2>1, <2>2, <1>1, SamePage
    <3>2. d < n
      BY <2>1, <2>2, <1>1, <1>2, <1>3
    <3>3. Off(v + m) \in Offset /\ Off(v + m) \in Off(a) .. Off(a) + n - 1
      BY <3>1, <3>2, <2>1, <2>2, <1>1, <1>3 DEF Offset
    <3> QED BY <3>1, <3>3, <2>1, <1>4, <1>5 DEF Sees
  <2>3. CASE Off(a) + d >= PG
    <3>1. PageOf(a) < PageOf(v + m)
      BY <2>1, <2>3, <1>1, BeyondPage
    <3>2. PageOf(v + m) # PageOf(a)
      BY <3>1, <2>1, <1>1, Address
    <3>3. PageOf(v + m) \notin DOMAIN mem
      BY <3>2, <1>0 DEF a
    <3>4. Reads(v + m) = Zero
      BY <3>3, <2>1, UnmappedReads
    <3> QED BY <3>2, <3>4, <2>1, <1>4 DEF Sees
  <2> QED BY <2>1, <2>2, <2>3, <1>1
<1>8. ASSUME f + n < z, NEW m \in 0 .. f - 1 PROVE PageOf(v + m) < PageOf(v + (f + n))
  <2>1. n = PG - Off(a)
    BY <1>2, <1>3, <1>8
  <2>2. v + (f + n) = a + n /\ v + m \in Nat /\ a + n \in Nat /\ v + m < a + n
    BY <1>3
  <2> HIDE DEF a
  <2>3. Off(a + n) = 0
    BY <2>1, <1>1, NextPageOf
  <2> QED BY <2>2, <2>3, BeforePage
<1> SUFFICES ASSUME NEW y, y = f + n PROVE Filled(v, f, z, y)'
  BY <1>3
<1> QED BY <1>3, <1>6, <1>7, <1>8 DEF Filled

(* A page of the bss is blank. *)
LEMMA BssPart ==
  ASSUME NEW v \in Nat, NEW f \in Nat, NEW z \in Nat, f <= z, NEW x, Filled(v, f, z, x), k' = k,
         lost' = lost,
         x < z, NEW n \in Nat, Insert(v + x, Blank)
  PROVE  \A y : y = x + n => Filled(v, f, z, y)'
<1> PICK j : j = k
  OBVIOUS
<1> SUFFICES ASSUME NEW y, y = x + n PROVE Filled(v, f, z, y)'
  OBVIOUS
<1>0. /\ x \in Nat
      /\ \A m \in 0 .. f - 1 : Sees(v + m, <<j, m>>)
      /\ \A m \in f .. z - 1 : Sees(v + m, Zero)
      /\ \A m \in 0 .. f - 1 : PageOf(v + m) < PageOf(v + x)
  BY DEF Filled
<1>1. PICK a \in Nat : a = v + x
  BY <1>0
<1>2. /\ \A b \in Nat : PageOf(b) = PageOf(a) => Reads(b)' = Blank[Off(b)]
      /\ \A b \in Nat : PageOf(b) # PageOf(a) => Reads(b)' = Reads(b)
  <2>1. PICK page : page = Blank /\ Insert(a, page)
    BY <1>1
  <2> QED BY <2>1, InsertReads
<1>3. ASSUME NEW m \in 0 .. f - 1
      PROVE  Sees(v + m, <<j, m>>)' /\ PageOf(v + m) < PageOf(v + y)
  <2>1. /\ v + m \in Nat /\ PageOf(v + m) < PageOf(a) /\ v + y \in Nat /\ a <= v + y
        /\ Sees(v + m, <<j, m>>)
    BY <1>0, <1>1
  <2>2. /\ PageOf(v + m) \in Nat /\ PageOf(a) \in Nat /\ PageOf(v + y) \in Nat
        /\ PageOf(a) <= PageOf(v + y)
    BY <2>1, Address, PageOrder
  <2> QED BY <2>1, <2>2, <1>2 DEF Sees
<1>4. ASSUME NEW m \in f .. z - 1 PROVE Sees(v + m, Zero)'
  <2>1. v + m \in Nat
    OBVIOUS
  <2>2. Off(v + m) \in Offset
    BY <2>1, Address
  <2>3. Blank[Off(v + m)] = Zero
    BY <2>2 DEF Blank
  <2> QED BY <2>1, <2>3, <1>0, <1>2 DEF Sees
<1>5. y \in Nat
  BY <1>0
<1> QED BY <1>3, <1>4, <1>5 DEF Filled

(***************************************************************************)
(* The same when the kernel fills the page and cannot map it.              *)
(***************************************************************************)
LEMMA LostPrefix ==
  ASSUME NEW v \in Nat, NEW f \in Nat, NEW z \in Nat, NEW x, Prefix(v, f, z, x), k' = k,
         NEW n \in Nat, x + n <= f, Off(v + x) + n <= PG, Off(v + x) + n > 0,
         n < f - x => n = PG - Off(v + x),
         \A m \in x .. z - 1 : PageOf(v + m) \notin DOMAIN mem,
         mem' = mem, lost' = lost \union {PageOf(v + x)}
  PROVE  \A y : y = x + n => Prefix(v, f, z, y)' /\ (y < f => Off(v + y) = 0)
<1> PICK j : j = k
  OBVIOUS
<1>1. /\ x \in Nat /\ v + x \in Nat
      /\ \A m \in 0 .. x - 1 : Sees(v + m, <<j, m>>)
  BY DEF Prefix
<1>2. Off(v + x) \in Nat /\ PG \in Nat
  BY <1>1, Address, Consts
<1>3. ASSUME NEW m \in 0 .. x + n - 1 PROVE Sees(v + m, <<j, m>>)'
  <2>1. CASE m < x
    <3>1. m \in 0 .. x - 1
      BY <2>1, <1>1
    <3> QED BY <3>1, <1>1, SeesStays
  <2>2. CASE ~ m < x
    <3>1. m - x \in Nat /\ m - x < n /\ (v + x) + (m - x) = v + m
      BY <2>2, <1>1
    <3>2. CASE Off(v + x) + (m - x) < PG
      <4>1. PageOf((v + x) + (m - x)) = PageOf(v + x)
        BY <3>1, <3>2, <1>1, SamePage
      <4> QED BY <4>1, <3>1 DEF Sees
    <3>3. ~ (Off(v + x) + (m - x) >= PG)
      BY <3>1, <1>1, <1>2
    <3> QED BY <3>1, <3>2, <3>3, <1>1, <1>2
  <2> QED BY <2>1, <2>2
<1>4. x + n \in Nat
  BY <1>1
<1> SUFFICES ASSUME NEW y, y = x + n PROVE Prefix(v, f, z, y)' /\ (y < f => Off(v + y) = 0)
  OBVIOUS
<1>5. \A m \in y .. z - 1 : PageOf(v + m) \notin DOMAIN mem'
  BY <1>1, <1>4
<1>6. y < f => Off(v + y) = 0
  <2> SUFFICES ASSUME y < f PROVE Off(v + y) = 0
    OBVIOUS
  <2>1. n = PG - Off(v + x) /\ v + y = (v + x) + n
    BY <1>1
  <2> QED BY <2>1, <1>1, NextPageOf
<1>7. Prefix(v, f, z, y)'
  BY <1>3, <1>4, <1>5 DEF Prefix
<1> QED BY <1>6, <1>7

LEMMA LostRest ==
  ASSUME NEW v \in Nat, NEW f \in Nat, NEW z \in Nat, f <= z, Prefix(v, f, z, f), k' = k,
         NEW n, Off(v + f) > 0, n = Least(z - f, PG - Off(v + f)),
         PageOf(v + f) \notin DOMAIN mem,
         mem' = mem, lost' = lost \union {PageOf(v + f)}
  PROVE  n \in Nat /\ \A y : y = f + n => Filled(v, f, z, y)'
<1> PICK j : j = k
  OBVIOUS
<1>0. /\ \A m \in 0 .. f - 1 : Sees(v + m, <<j, m>>)
      /\ \A m \in f .. z - 1 : PageOf(v + m) # PageOf(v + f) => PageOf(v + m) \notin DOMAIN mem
  BY DEF Prefix
<1> DEFINE a == v + f
<1>1. a \in Nat /\ PG \in Nat /\ Off(a) \in Nat /\ Off(a) < PG
  BY Consts, Address
<1>2. PG - Off(a) \in Nat /\ z - f \in Nat
  BY <1>1
<1>3. n \in Nat /\ n <= z - f /\ n <= PG - Off(a) /\ (n = z - f \/ n = PG - Off(a))
  BY <1>2, LeastFacts
<1>4. \A m \in 0 .. f - 1 : Sees(v + m, <<j, m>>)'
  BY <1>0, SeesStays
<1>5. ASSUME NEW m \in f .. z - 1 PROVE Sees(v + m, Zero)'
  <2>1. v + m \in Nat /\ PageOf(v + m) \notin DOMAIN mem
    BY <1>0
  <2>2. Sees(v + m, Zero)
    BY <2>1, UnmappedReads DEF Sees
  <2> QED BY <2>2, SeesStays
<1>6. ASSUME f + n < z, NEW m \in 0 .. f - 1 PROVE PageOf(v + m) < PageOf(v + (f + n))
  <2>1. n = PG - Off(a)
    BY <1>2, <1>3, <1>6
  <2>2. v + (f + n) = a + n /\ v + m \in Nat /\ a + n \in Nat /\ v + m < a + n
    BY <1>3
  <2> HIDE DEF a
  <2>3. Off(a + n) = 0
    BY <2>1, <1>1, NextPageOf
  <2> QED BY <2>2, <2>3, BeforePage
<1> SUFFICES ASSUME NEW y, y = f + n PROVE Filled(v, f, z, y)'
  BY <1>3
<1> QED BY <1>3, <1>4, <1>5, <1>6 DEF Filled

LEMMA LostBss ==
  ASSUME NEW v \in Nat, NEW f \in Nat, NEW z \in Nat, f <= z, NEW x, Filled(v, f, z, x), k' = k,
         x < z, NEW n \in Nat, mem' = mem, lost \subseteq lost'
  PROVE  \A y : y = x + n => Filled(v, f, z, y)'
<1> PICK j : j = k
  OBVIOUS
<1> SUFFICES ASSUME NEW y, y = x + n PROVE Filled(v, f, z, y)'
  OBVIOUS
<1>1. /\ x \in Nat /\ y \in Nat
      /\ \A m \in 0 .. f - 1 : Sees(v + m, <<j, m>>)'
      /\ \A m \in f .. z - 1 : Sees(v + m, Zero)'
  BY SeesStays DEF Filled
<1>2. ASSUME NEW m \in 0 .. f - 1 PROVE PageOf(v + m) < PageOf(v + y)
  <2>1. /\ v + m \in Nat /\ v + x \in Nat /\ v + y \in Nat /\ v + x <= v + y
        /\ PageOf(v + m) < PageOf(v + x)
    BY <1>1 DEF Filled
  <2>2. PageOf(v + m) \in Nat /\ PageOf(v + x) \in Nat /\ PageOf(v + y) \in Nat
        /\ PageOf(v + x) <= PageOf(v + y)
    BY <2>1, Address, PageOrder
  <2> QED BY <2>1, <2>2
<1> QED BY <1>1, <1>2 DEF Filled

-----------------------------------------------------------------------------
(* The segments *)

(* A step that maps and writes nothing. *)
LEMMA SamePages ==
  ASSUME mem' = mem, lost \subseteq lost', img' = img
  PROVE  /\ \A j : Whole(j) => Whole(j)'
         /\ \A j : Fresh(j) => Fresh(j)'
BY DEF Whole, Fresh, Sees, Reads, Found, Says

(* A page of the current segment is no page of another one. *)
LEMMA OtherSegments ==
  ASSUME OwnPages, Types, k \in DOMAIN img, img[k].load, img' = img,
         NEW a \in Nat, PageOf(a) \in Span(img[k]), NEW page, Insert(a, page),
         lost' = lost, NEW j \in DOMAIN img, j # k, img[j].load
  PROVE  (Whole(j) => Whole(j)') /\ (Fresh(j) => Fresh(j)')
<1>1. PageOf(a) \notin Span(img[j])
  BY DEF OwnPages, Types
<1>2. DOMAIN mem' = DOMAIN mem \union {PageOf(a)}
  BY InsertReads
<1>3. \A b \in Nat : PageOf(b) # PageOf(a) => Reads(b)' = Reads(b)
  BY InsertReads
<1>4. Fresh(j) => Fresh(j)'
  BY <1>1, <1>2 DEF Fresh
<1>5. ASSUME Whole(j) PROVE Whole(j)'
  <2>1. PICK s : s = img[j]
    OBVIOUS
  <2>2. s.va \in Nat /\ s.memsz \in Nat
    BY <2>1, Headers
  <2> SUFFICES ASSUME NEW n \in 0 .. s.memsz - 1
               PROVE  Sees(s.va + n, Says(j, n))'
    BY <2>1 DEF Whole, Says
  <2>3. s.va + n \in Nat /\ PageOf(s.va + n) \in Span(s)
    BY <2>2 DEF Span
  <2>4. Reads(s.va + n)' = Reads(s.va + n)
    BY <2>1, <2>3, <1>1, <1>3
  <2>5. Sees(s.va + n, Says(j, n))
    BY <2>1, <1>5 DEF Whole
  <2> QED BY <2>4, <2>5 DEF Sees, Says
<1> QED BY <1>4, <1>5

(* A part of the current segment disturbs nothing but the current segment. *)
LEMMA PartStep ==
  ASSUME OwnPages, Types, Childless, Loading, pc \in Parts, pc' \in Parts,
         UNCHANGED <<task, set, k>>, PartOK',
         \/ mem' = mem /\ lost \subseteq lost'
         \/ /\ \E a \in Nat : \E page : PageOf(a) \in Span(img[k]) /\ Insert(a, page)
            /\ lost' = lost
  PROVE  Loading'
<1>1. /\ who' = who /\ img' = img /\ lib' = lib /\ entry' = entry /\ k' = k
      /\ k \in DOMAIN img /\ img[k].load /\ ~ entry /\ Live
  BY DEF task, set, Childless, Loading, Flags, Parts, Live
<1>2. Flags'
  BY <1>1 DEF Loading, Flags, Parts
<1>3. Live'
  BY DEF Live, Parts
<1>4. ASSUME NEW j \in DOMAIN img, img[j].load, j # k
      PROVE  (j < k => Whole(j)') /\ (j > k => Fresh(j)')
  <2>1. (j < k => Whole(j)) /\ (j > k => Fresh(j))
    BY <1>1, <1>4 DEF Loading, SegsOK
  <2>2. CASE mem' = mem /\ lost \subseteq lost'
    BY <2>1, <2>2, <1>1, SamePages
  <2>3. CASE /\ \E a \in Nat : \E page : PageOf(a) \in Span(img[k]) /\ Insert(a, page)
             /\ lost' = lost
    <3>0. PICK a \in Nat : \E page : PageOf(a) \in Span(img[k]) /\ Insert(a, page)
      BY <2>3
    <3>1. PICK page : PageOf(a) \in Span(img[k]) /\ Insert(a, page)
      BY <3>0
    <3>2. (Whole(j) => Whole(j)') /\ (Fresh(j) => Fresh(j)')
      BY <3>1, <2>3, <1>1, <1>4, OtherSegments
    <3> QED BY <3>2, <2>1
  <2> QED BY <2>2, <2>3
<1>5. \A j \in DOMAIN img : (j < k => j # k) /\ (j > k => j # k)
  BY Headers DEF Types
<1>6. SegsOK'
  BY <1>1, <1>4, <1>5 DEF SegsOK
<1> QED BY <1>2, <1>6 DEF Loading

-----------------------------------------------------------------------------
(* The steps of the loader *)

(* What PartOK says of the bytes of the file, in terms of Prefix. *)
LEMMA PrefixOf ==
  ASSUME Types, k \in DOMAIN img, PartOK, pc \in {"bin", "tail"},
         NEW v, NEW f, NEW z, v = img[k].va, f = img[k].filesz, z = img[k].memsz
  PROVE  /\ Prefix(v, f, z, i) /\ r \in Nat
         /\ pc = "bin" => (i < f => Off(v + i) = 0)
         /\ pc = "tail" => i = f
<1>1. v \in Nat /\ f \in Nat /\ z \in Nat /\ f <= z
  BY Headers
<1>2. /\ i \in Nat /\ r \in Nat /\ i <= f /\ InFile /\ Ahead
      /\ pc = "bin" => (i < f => Off(v + i) = 0)
      /\ pc = "tail" => i = f
  BY <1>1 DEF PartOK, Parts, Seg, At
<1>3. \A m \in 0 .. i - 1 : Sees(v + m, <<k, m>>)
  <2> SUFFICES ASSUME NEW m \in 0 .. i - 1 PROVE Sees(v + m, <<k, m>>)
    OBVIOUS
  <2>1. Sees(v + m, Says(k, m))
    BY <1>2 DEF InFile, Seg
  <2>2. m < f
    BY <1>1, <1>2
  <2> QED BY <2>1, <2>2 DEF Says
<1>4. \A m \in i .. z - 1 : Off(v + i) = 0 \/ PageOf(v + m) # PageOf(v + i)
                              => PageOf(v + m) \notin DOMAIN mem
  BY <1>2 DEF Ahead, Seg, At
<1> QED BY <1>2, <1>3, <1>4 DEF Prefix

(* PartOK from Prefix. *)
LEMMA ToPrefix ==
  ASSUME Types, k \in DOMAIN img, img' = img, k' = k, pc' \in {"bin", "tail"},
         NEW v, NEW f, NEW z, v = img[k].va, f = img[k].filesz, z = img[k].memsz,
         NEW x, i' = x, r' \in Nat, Prefix(v, f, z, x)',
         pc' = "bin" => (x < f => Off(v + x) = 0),
         pc' = "tail" => x = f
  PROVE  PartOK'
<1>1. v \in Nat /\ f \in Nat /\ z \in Nat /\ f <= z
  BY Headers
<1>2. /\ x \in Nat /\ x <= f
      /\ \A m \in 0 .. x - 1 : Sees(v + m, <<k, m>>)'
      /\ \A m \in x .. z - 1 : Off(v + x) = 0 \/ PageOf(v + m) # PageOf(v + x)
                                 => PageOf(v + m) \notin DOMAIN mem'
  BY DEF Prefix
<1>3. Seg' = img[k] /\ Seg'.va = v /\ Seg'.filesz = f /\ Seg'.memsz = z /\ At' = v + x
  BY DEF Seg, At
<1>4. InFile'
  <2> SUFFICES ASSUME NEW m \in 0 .. x - 1 PROVE Sees(v + m, Says(k, m))'
    BY <1>3 DEF InFile
  <2>1. m < f
    BY <1>1, <1>2
  <2>2. Says(k, m)' = <<k, m>>
    BY <2>1 DEF Says
  <2> QED BY <2>2, <1>2 DEF Sees
<1>5. Ahead'
  BY <1>2, <1>3 DEF Ahead
<1> QED BY <1>2, <1>3, <1>4, <1>5 DEF PartOK, Parts

(* In the bss: every byte reads as it will. *)
LEMMA ToBss ==
  ASSUME Types, k \in DOMAIN img, img' = img, k' = k, pc' = "bss", r' \in Nat,
         NEW v, NEW f, NEW z, v = img[k].va, f = img[k].filesz, z = img[k].memsz,
         NEW x, i' = x, Filled(v, f, z, x)'
  PROVE  PartOK'
<1>0. /\ x \in Nat
      /\ \A m \in 0 .. f - 1 : Sees(v + m, <<k, m>>)'
      /\ \A m \in f .. z - 1 : Sees(v + m, Zero)'
      /\ x < z => \A m \in 0 .. f - 1 : PageOf(v + m) < PageOf(v + x)
  BY DEF Filled
<1>1. v \in Nat /\ f \in Nat /\ z \in Nat /\ f <= z
  BY Headers
<1>2. Seg' = img[k] /\ Seg'.va = v /\ Seg'.filesz = f /\ Seg'.memsz = z /\ At' = v + x
  BY DEF Seg, At
<1>3. Whole(k)'
  <2> SUFFICES ASSUME NEW m \in 0 .. z - 1 PROVE Sees(v + m, Says(k, m))'
    BY DEF Whole, Says
  <2>1. CASE m < f
    <3>1. Says(k, m)' = <<k, m>> /\ m \in 0 .. f - 1
      BY <2>1, <1>1 DEF Says
    <3> QED BY <3>1, <1>0 DEF Sees
  <2>2. CASE ~ m < f
    <3>1. Says(k, m)' = Zero /\ m \in f .. z - 1
      BY <2>2, <1>1 DEF Says, Zero
    <3> QED BY <3>1, <1>0 DEF Sees
  <2> QED BY <2>1, <2>2
<1> QED BY <1>0, <1>2, <1>3 DEF PartOK, Parts

(* What PartOK says once the bytes of the file are loaded, in terms of Filled. *)
LEMMA FilledOf ==
  ASSUME Types, k \in DOMAIN img, PartOK, pc = "bss",
         NEW v, NEW f, NEW z, v = img[k].va, f = img[k].filesz, z = img[k].memsz
  PROVE  Filled(v, f, z, i) /\ r \in Nat
<1>1. v \in Nat /\ f \in Nat /\ z \in Nat /\ f <= z
  BY Headers
<1>2. /\ i \in Nat /\ r \in Nat /\ Whole(k)
      /\ i < z => \A m \in 0 .. f - 1 : PageOf(v + m) < PageOf(v + i)
  BY DEF PartOK, Parts, Seg, At
<1>3. \A m \in 0 .. z - 1 : Sees(v + m, Says(k, m))
  BY <1>2 DEF Whole
<1>4. \A m \in 0 .. f - 1 : Sees(v + m, <<k, m>>)
  <2> SUFFICES ASSUME NEW m \in 0 .. f - 1 PROVE Sees(v + m, <<k, m>>)
    OBVIOUS
  <2>1. m \in 0 .. z - 1 /\ m < f
    BY <1>1
  <2> QED BY <2>1, <1>3 DEF Says
<1>5. \A m \in f .. z - 1 : Sees(v + m, Zero)
  <2> SUFFICES ASSUME NEW m \in f .. z - 1 PROVE Sees(v + m, Zero)
    OBVIOUS
  <2>1. m \in 0 .. z - 1 /\ ~ m < f
    BY <1>1
  <2> QED BY <2>1, <1>3 DEF Says
<1> QED BY <1>2, <1>4, <1>5 DEF Filled

(* The part of a segment before the first page boundary. *)
LEMMA LoadFirst ==
  ASSUME OwnPages, Types, Childless, Loading, First
  PROVE  Loading'
<1>1. /\ pc = "first" /\ pc' = "bin" /\ pc \in Parts /\ pc' \in Parts
      /\ UNCHANGED <<task, set, k>> /\ img' = img /\ k' = k
      /\ k \in DOMAIN img /\ i = 0 /\ r = 0 /\ Fresh(k)
  BY DEF First, Childless, Loading, PartOK, Parts, task
<1>2. PICK v : v = img[k].va
  OBVIOUS
<1>3. PICK f : f = img[k].filesz
  OBVIOUS
<1>4. PICK z : z = img[k].memsz
  OBVIOUS
<1>5. v \in Nat /\ f \in Nat /\ z \in Nat /\ f <= z /\ v + 0 = v /\ At = v
  BY <1>1, <1>2, <1>3, <1>4, Headers DEF At, Seg
<1>6. /\ \A m \in 0 .. z - 1 : PageOf(v + m) \notin DOMAIN mem
      /\ PageOf(v) \notin DOMAIN mem /\ PageOf(v) \in Span(img[k])
  BY <1>1, <1>2, <1>4 DEF Fresh, Span
<1>7. CASE Off(v) = 0
  <2>1. i' = 0 /\ r' = 0 /\ mem' = mem /\ lost' = lost
    BY <1>1, <1>2, <1>7 DEF First, Seg
  <2>2. Prefix(v, f, z, 0)'
    BY <2>1, <1>5, <1>6 DEF Prefix
  <2>3. PartOK'
    BY <2>1, <2>2, <1>1, <1>2, <1>3, <1>4, <1>5, <1>7, ToPrefix
  <2> QED BY <2>1, <2>3, <1>1, PartStep
<1>8. CASE Off(v) # 0
  <2>0. Off(v) > 0
    BY <1>5, <1>8, Address
  <2>1. PICK n : n = Least(f, PG - Off(v))
    OBVIOUS
  <2>2. FirstPage = Blank
    BY <1>5, <1>6 DEF FirstPage, Found
  <2>3. Map(v, Copy(Blank, Off(v), n, k, 0)) /\ i' = n /\ r' = n
    BY <2>1, <2>2, <1>2, <1>3, <1>5, <1>8 DEF First, Seg, FirstSize
  <2>4. CASE Insert(v, Copy(Blank, Off(v), n, k, 0)) /\ lost' = lost
    <3>1. Prefix(v, f, z, n)' /\ n \in Nat /\ (n < f => Off(v + n) = 0)
      BY <2>0, <2>1, <2>4, <1>1, <1>5, <1>6, FirstPart
    <3>2. PartOK'
      BY <2>3, <3>1, <1>1, <1>2, <1>3, <1>4, ToPrefix
    <3>3. \E a \in Nat : \E page : PageOf(a) \in Span(img[k]) /\ Insert(a, page)
      BY <2>4, <1>5, <1>6
    <3> QED BY <3>2, <3>3, <2>4, <1>1, PartStep
  <2>5. CASE mem' = mem /\ lost' = lost \union {PageOf(v)}
    <3>0. Off(v) \in Nat /\ Off(v) < PG /\ PG \in Nat
      BY <1>5, Address, Consts
    <3>1. PG - Off(v) \in Nat /\ Off(v) \in Nat /\ PG \in Nat
      BY <3>0
    <3>2. n \in Nat /\ n <= f /\ n <= PG - Off(v) /\ (n < f => n = PG - Off(v))
      BY <3>1, <2>1, <1>5, LeastFacts
    <3>3. Prefix(v, f, z, 0)
      BY <1>5, <1>6 DEF Prefix
    <3>4. /\ 0 + n <= f /\ Off(v + 0) + n <= PG /\ Off(v + 0) + n > 0
          /\ n < f - 0 => n = PG - Off(v + 0)
          /\ lost' = lost \union {PageOf(v + 0)} /\ n = 0 + n
      BY <3>1, <3>2, <2>0, <2>5, <1>5
    <3>5. Prefix(v, f, z, n)' /\ (n < f => Off(v + n) = 0)
      BY <3>2, <3>3, <3>4, <2>5, <1>1, <1>5, <1>6, LostPrefix
    <3>6. PartOK'
      BY <2>3, <3>2, <3>5, <1>1, <1>2, <1>3, <1>4, ToPrefix
    <3> QED BY <3>6, <2>5, <1>1, PartStep
  <2> QED BY <2>3, <2>4, <2>5 DEF Map
<1> QED BY <1>7, <1>8

(* The pages of the file. *)
LEMMA LoadBin ==
  ASSUME OwnPages, Types, Childless, Loading, Bin
  PROVE  Loading'
<1>1. /\ pc = "bin" /\ pc' \in {"bin", "tail"} /\ pc \in Parts /\ pc' \in Parts
      /\ UNCHANGED <<task, set, k>> /\ img' = img /\ k' = k
      /\ k \in DOMAIN img /\ PartOK
  BY DEF Bin, Childless, Loading, Parts, task
<1>2. PICK v : v = img[k].va
  OBVIOUS
<1>3. PICK f : f = img[k].filesz
  OBVIOUS
<1>4. PICK z : z = img[k].memsz
  OBVIOUS
<1>9. PICK x : x = i
  OBVIOUS
<1>5. v \in Nat /\ f \in Nat /\ z \in Nat /\ f <= z /\ At = v + x
  BY <1>1, <1>2, <1>3, <1>4, <1>9, Headers DEF At, Seg
<1>6. Prefix(v, f, z, x) /\ r \in Nat /\ (x < f => Off(v + x) = 0)
  BY <1>1, <1>2, <1>3, <1>4, <1>9, PrefixOf
<1>7. CASE i >= Seg.filesz /\ pc' = "tail" /\ UNCHANGED <<i, r, mem, lost>>
  <2>1. x = f
    BY <1>3, <1>9, <1>5, <1>6, <1>7 DEF Prefix, Seg
  <2>2. Prefix(v, f, z, x)'
    BY <1>1, <1>6, <1>7 DEF Prefix, Sees, Reads, Found
  <2>3. PartOK'
    BY <2>1, <2>2, <1>1, <1>2, <1>3, <1>4, <1>9, <1>6, <1>7, ToPrefix
  <2> QED BY <2>3, <1>1, <1>7, PartStep
<1>8. CASE /\ i < Seg.filesz /\ UNCHANGED pc
           /\ \E n : n = Least(PG, Seg.filesz - i) /\ Map(At, Copy(Blank, 0, n, k, i))
                     /\ i' = i + n /\ r' = n
  <2>1. PICK n : /\ n = Least(PG, f - x) /\ Map(v + x, Copy(Blank, 0, n, k, x))
                 /\ i' = x + n /\ r' = n
    BY <1>3, <1>9, <1>5, <1>8 DEF Seg
  <2>2. x \in Nat /\ x < f /\ Off(v + x) = 0
    BY <1>3, <1>9, <1>6, <1>8 DEF Prefix, Seg
  <2>3. ASSUME \A y : y = x + n => Prefix(v, f, z, y)' /\ (y < f => Off(v + y) = 0), n \in Nat
        PROVE  PartOK'
    <3>1. PICK y : y = x + n
      OBVIOUS
    <3>2. Prefix(v, f, z, y)' /\ i' = y /\ r' \in Nat /\ (y < f => Off(v + y) = 0) /\ pc' = "bin"
      BY <2>1, <2>3, <3>1, <1>1, <1>8
    <3> QED BY <3>2, <1>1, <1>2, <1>3, <1>4, ToPrefix
  <2>4. CASE Insert(v + x, Copy(Blank, 0, n, k, x)) /\ lost' = lost
    <3>1. /\ \A y : y = x + n => Prefix(v, f, z, y)' /\ (y < f => Off(v + y) = 0)
          /\ n \in Nat
      BY <2>1, <2>2, <2>4, <1>1, <1>5, <1>6, BinPart
    <3>2. v + x \in Nat /\ x \in 0 .. z - 1
      BY <2>2, <1>5
    <3>3. PageOf(v + x) \in Span(img[k])
      BY <3>2, <1>2, <1>4 DEF Span
    <3>4. \E a \in Nat : \E page : PageOf(a) \in Span(img[k]) /\ Insert(a, page)
      BY <3>2, <3>3, <2>4
    <3> QED BY <3>1, <3>4, <2>3, <2>4, <1>1, PartStep
  <2>5. CASE mem' = mem /\ lost' = lost \union {PageOf(v + x)}
    <3>1. PG \in Nat \ {0} /\ f - x \in Nat
      BY <2>2, <1>5, Consts
    <3>2. n \in Nat /\ n <= PG /\ n <= f - x /\ (n = PG \/ n = f - x)
      BY <3>1, <2>1, LeastFacts
    <3>3. n > 0
      BY <3>1, <3>2, <2>2, <1>5
    <3>4. /\ x + n <= f /\ Off(v + x) + n <= PG /\ Off(v + x) + n > 0
          /\ n < f - x => n = PG - Off(v + x)
      BY <3>1, <3>2, <3>3, <2>2, <1>5
    <3>5. \A m \in x .. z - 1 : PageOf(v + m) \notin DOMAIN mem
      BY <2>2, <1>6 DEF Prefix
    <3>6. \A y : y = x + n => Prefix(v, f, z, y)' /\ (y < f => Off(v + y) = 0)
      BY <3>2, <3>4, <3>5, <2>5, <1>1, <1>5, <1>6, LostPrefix
    <3> QED BY <3>2, <3>6, <2>3, <2>5, <1>1, PartStep
  <2> QED BY <2>1, <2>4, <2>5 DEF Map
<1> QED BY <1>7, <1>8 DEF Bin

(* The rest of the last page of the file is cleared. *)
LEMMA LoadRest ==
  ASSUME OwnPages, Types, Childless, Loading, Rest
  PROVE  Loading'
<1>1. /\ pc = "tail" /\ pc' = "bss" /\ pc \in Parts /\ pc' \in Parts
      /\ UNCHANGED <<task, set, k>> /\ img' = img /\ k' = k
      /\ k \in DOMAIN img /\ PartOK
  BY DEF Rest, Childless, Loading, Parts, task
<1>2. PICK v : v = img[k].va
  OBVIOUS
<1>3. PICK f : f = img[k].filesz
  OBVIOUS
<1>4. PICK z : z = img[k].memsz
  OBVIOUS
<1>6. Prefix(v, f, z, f) /\ r \in Nat /\ i = f
  BY <1>1, <1>2, <1>3, <1>4, PrefixOf
<1>5. v \in Nat /\ f \in Nat /\ z \in Nat /\ f <= z /\ At = v + f
  BY <1>1, <1>2, <1>3, <1>4, <1>6, Headers DEF At, Seg
<1>7. CASE Off(v + f) = 0
  <2>1. i' = BssFrom /\ r' = r /\ mem' = mem /\ lost' = lost
    BY <1>5, <1>7, Address DEF Rest
  <2>2. BssFrom \in Nat /\ BssFrom >= f
    BY <1>5, <1>6 DEF BssFrom
  <2>3. PICK x : x = BssFrom
    OBVIOUS
  <2>4. \A m \in 0 .. f - 1 : Sees(v + m, <<k, m>>)'
    BY <2>1, <1>1, <1>6 DEF Prefix, Sees, Reads, Found
  <2>5. ASSUME NEW m \in f .. z - 1 PROVE Sees(v + m, Zero)'
    <3>1. v + m \in Nat /\ PageOf(v + m) \notin DOMAIN mem
      BY <1>5, <1>6, <1>7 DEF Prefix
    <3>2. Reads(v + m) = Zero
      BY <3>1, UnmappedReads
    <3> QED BY <3>2, <2>1 DEF Sees, Reads, Found
  <2>6. ASSUME NEW m \in 0 .. f - 1 PROVE PageOf(v + m) < PageOf(v + x)
    <3>1. v + m \in Nat /\ v + f \in Nat /\ v + m < v + f /\ v + x \in Nat /\ v + f <= v + x
      BY <2>2, <2>3, <1>5
    <3>2. PageOf(v + m) < PageOf(v + f) /\ PageOf(v + f) <= PageOf(v + x)
      BY <3>1, <1>7, BeforePage, PageOrder
    <3>3. PageOf(v + m) \in Nat /\ PageOf(v + f) \in Nat /\ PageOf(v + x) \in Nat
      BY <3>1, Address
    <3> QED BY <3>2, <3>3
  <2>7. Filled(v, f, z, x)'
    BY <2>2, <2>3, <2>4, <2>5, <2>6, <1>1 DEF Filled
  <2>8. PartOK'
    BY <2>1, <2>3, <2>7, <1>1, <1>2, <1>3, <1>4, <1>6, ToBss
  <2> QED BY <2>1, <2>8, <1>1, PartStep
<1>8. CASE Off(v + f) # 0
  <2>0. Off(v + f) > 0 /\ v + f \in Nat
    BY <1>5, <1>8, Address
  <2>1. PICK n : n = Least(z - f, PG - Off(v + f))
    OBVIOUS
  <2>2. RestSize(Seg, i) = n
    BY <2>1, <1>2, <1>4, <1>6 DEF RestSize, Seg
  <2>3. PICK page : /\ page = Clear(Found(v + f), Off(v + f), n) /\ Map(v + f, page)
                    /\ i' = f + n /\ r' = n
    BY <2>0, <2>2, <1>5, <1>6 DEF Rest
  <2>4. ASSUME n \in Nat, \A y : y = f + n => Filled(v, f, z, y)' PROVE PartOK'
    <3>1. PICK x : x = f + n
      OBVIOUS
    <3> QED BY <3>1, <2>3, <2>4, <1>1, <1>2, <1>3, <1>4, ToBss
  <2>7. PageOf(v + f) \in Span(img[k])
    <3>2. CASE f = 0
      BY <3>2, <1>2, <1>5 DEF Span
    <3>3. CASE f > 0
      <4>1. /\ v + (f - 1) \in Nat /\ f - 1 \in 0 .. z - 1 /\ v + f = (v + (f - 1)) + 1
        BY <3>3, <1>5
      <4>2. PageOf(v + (f - 1)) = PageOf(v + f)
        <5>1. PICK b \in Nat : b = v + (f - 1)
          BY <4>1
        <5>2. v + f = b + 1
          BY <5>1, <4>1
        <5>3. PageOf(b) = PageOf(b + 1)
          BY <5>2, <2>0, PageStays
        <5> QED BY <5>1, <5>2, <5>3
      <4>3. PageOf(v + (f - 1)) \in Span(img[k])
        BY <4>1, <1>2, <1>4 DEF Span
      <4> QED BY <4>2, <4>3
    <3> QED BY <3>2, <3>3, <1>5
  <2>8. CASE Insert(v + f, page) /\ lost' = lost
    <3>1. n \in Nat /\ \A y : y = f + n => Filled(v, f, z, y)'
      BY <2>0, <2>1, <2>3, <2>8, <1>1, <1>5, <1>6, RestPart
    <3>2. \E a \in Nat : \E p : PageOf(a) \in Span(img[k]) /\ Insert(a, p)
      BY <2>0, <2>7, <2>8
    <3> QED BY <3>1, <3>2, <2>4, <2>8, <1>1, PartStep
  <2>9. CASE PageOf(v + f) \notin DOMAIN mem /\ mem' = mem /\ lost' = lost \union {PageOf(v + f)}
    <3>1. n \in Nat /\ \A y : y = f + n => Filled(v, f, z, y)'
      BY <2>0, <2>1, <2>9, <1>1, <1>5, <1>6, LostRest
    <3> QED BY <3>1, <2>4, <2>9, <1>1, PartStep
  <2> QED BY <2>3, <2>8, <2>9 DEF Map
<1> QED BY <1>7, <1>8

(* The pages behind the file. *)
LEMMA LoadBss ==
  ASSUME OwnPages, Types, Childless, Loading, Bss
  PROVE  Loading'
<1>1. /\ pc = "bss" /\ pc \in Parts /\ img' = img /\ who' = who /\ lib' = lib /\ entry' = entry
      /\ UNCHANGED <<task, set>> /\ k \in DOMAIN img /\ img[k].load /\ PartOK
  BY DEF Bss, Childless, Loading, Parts, task, set
<1>2. PICK v : v = img[k].va
  OBVIOUS
<1>3. PICK f : f = img[k].filesz
  OBVIOUS
<1>4. PICK z : z = img[k].memsz
  OBVIOUS
<1>5. PICK x : x = i
  OBVIOUS
<1>6. v \in Nat /\ f \in Nat /\ z \in Nat /\ f <= z /\ At = v + x
  BY <1>1, <1>2, <1>3, <1>4, <1>5, Headers DEF At, Seg
<1>7. Filled(v, f, z, x) /\ r \in Nat
  BY <1>1, <1>2, <1>3, <1>4, <1>5, FilledOf
<1>8. CASE /\ i < Seg.memsz /\ UNCHANGED <<pc, k>>
           /\ \E n : n = Least(PG, Seg.memsz - i) /\ Map(At, Blank) /\ i' = i + n /\ r' = n
  <2>1. PICK n : n = Least(PG, z - x) /\ Map(v + x, Blank) /\ i' = x + n /\ r' = n
    BY <1>4, <1>5, <1>6, <1>8 DEF Seg
  <2>2. x \in Nat /\ x < z
    BY <1>4, <1>5, <1>7, <1>8 DEF Filled, Seg
  <2>3. n \in Nat
    <3>1. PG \in Nat /\ z - x \in Nat
      BY <2>2, <1>6, Consts
    <3> QED BY <3>1, <2>1, LeastFacts
  <2>4. ASSUME \A y : y = x + n => Filled(v, f, z, y)' PROVE PartOK'
    <3>1. PICK y : y = x + n
      OBVIOUS
    <3> QED BY <3>1, <2>1, <2>3, <2>4, <1>1, <1>2, <1>3, <1>4, <1>8, ToBss
  <2>5. pc' \in Parts
    BY <1>1, <1>8
  <2>6. CASE Insert(v + x, Blank) /\ lost' = lost
    <3>1. \A y : y = x + n => Filled(v, f, z, y)'
      BY <2>1, <2>2, <2>3, <2>6, <1>6, <1>7, <1>8, BssPart
    <3>2. v + x \in Nat /\ x \in 0 .. z - 1
      BY <2>2, <1>6
    <3>3. PageOf(v + x) \in Span(img[k])
      BY <3>2, <1>2, <1>4 DEF Span
    <3>4. \E a \in Nat : \E page : PageOf(a) \in Span(img[k]) /\ Insert(a, page)
      BY <3>2, <3>3, <2>6
    <3> QED BY <3>1, <3>4, <2>4, <2>5, <2>6, <1>1, <1>8, PartStep
  <2>7. CASE mem' = mem /\ lost' = lost \union {PageOf(v + x)}
    <3>1. \A y : y = x + n => Filled(v, f, z, y)'
      BY <2>1, <2>2, <2>3, <2>7, <1>6, <1>7, <1>8, LostBss
    <3> QED BY <3>1, <2>4, <2>5, <2>7, <1>1, <1>8, PartStep
  <2> QED BY <2>1, <2>6, <2>7 DEF Map
<1>9. CASE pc' = "phdr" /\ k' = k + 1 /\ UNCHANGED <<i, r, mem, lost>>
  <2>1. Whole(k) /\ Live /\ ~ entry
    BY <1>1 DEF PartOK, Live, Parts, Loading, Flags
  <2>2. Flags'
    BY <2>1, <1>1, <1>9 DEF Flags, Loading
  <2>3. PartOK'
    BY <1>9 DEF PartOK, Parts
  <2>4. ASSUME NEW j \in DOMAIN img, img[j].load
        PROVE  (j < k + 1 => Whole(j)') /\ (j >= k + 1 => Fresh(j)')
    <3>1. j \in Nat /\ k \in Nat
      BY Headers DEF Types
    <3>2. (j < k => Whole(j)) /\ (j > k => Fresh(j))
      BY <2>1, <2>4 DEF Loading, SegsOK
    <3>3. (Whole(j) => Whole(j)') /\ (Fresh(j) => Fresh(j)')
      BY <1>1, <1>9, SamePages
    <3> QED BY <3>1, <3>2, <3>3, <2>1
  <2>5. SegsOK'
    <3>1. \A j \in DOMAIN img : j \in Nat
      BY Headers
    <3> QED BY <3>1, <2>4, <1>1, <1>9 DEF SegsOK, Types
  <2> QED BY <2>2, <2>3, <2>5 DEF Loading
<1> QED BY <1>8, <1>9 DEF Bss, NextHeader

(* A step that leaves the pages and the header as they are, outside the parts. *)
LEMMA LoadAside ==
  ASSUME Types, Childless, Loading, mem' = mem, lost' = lost, img' = img, k' = k,
         pc \notin Parts, pc' \notin Parts, Live' => Live, Flags'
  PROVE  Loading'
<1>1. PartOK'
  BY DEF PartOK, Parts
<1>2. ASSUME Live', NEW j \in DOMAIN img, img[j].load
      PROVE  (j < k => Whole(j)') /\ (j > k \/ j = k => Fresh(j)')
  <2>1. (j < k => Whole(j)) /\ (j > k \/ j = k => Fresh(j))
    BY <1>2 DEF Loading, SegsOK
  <2>2. (Whole(j) => Whole(j)') /\ (Fresh(j) => Fresh(j)')
    BY SamePages
  <2> QED BY <2>1, <2>2
<1>3. SegsOK'
  BY <1>2 DEF SegsOK
<1> QED BY <1>1, <1>3 DEF Loading

(* A loader that gives up leaves nothing to be said. *)
LEMMA LoadGone ==
  ASSUME Loading, ~ Live', Flags', pc' \notin Parts
  PROVE  Loading'
BY DEF Loading, SegsOK, PartOK, Parts

(* The next program header, or the end of the loader. *)
LEMMA LoadHeader ==
  ASSUME OwnPages, Types, Childless, Loading, NEW next \in {"lib", "run"}, Header(next),
         next = "run" <=> who = "kernel"
  PROVE  Loading'
<1>1. /\ pc = "phdr" /\ pc \notin Parts /\ Live /\ ~ entry
      /\ img' = img /\ who' = who /\ mem' = mem /\ lost' = lost /\ lib' = lib /\ i' = 0 /\ r' = 0
  BY DEF Header, Parts, Live, Loading, Flags, task
<1>2. Len(img) \in Nat /\ DOMAIN img = 1 .. Len(img) /\ k \in Nat \ {0}
  BY Headers DEF Types
<1>3. CASE k <= Len(img) /\ Seg.load /\ pc' = "first" /\ k' = k /\ entry' = entry
  <2>1. Flags'
    BY <1>1, <1>3 DEF Flags, Loading
  <2>2. k \in DOMAIN img /\ img[k].load
    BY <1>2, <1>3 DEF Seg
  <2>3. ASSUME NEW j \in DOMAIN img, img[j].load
        PROVE  (j < k => Whole(j)') /\ (j > k \/ j = k => Fresh(j)')
    <3>1. (j < k => Whole(j)) /\ (j > k \/ j = k => Fresh(j))
      BY <1>1, <2>3 DEF Loading, SegsOK
    <3>2. (Whole(j) => Whole(j)') /\ (Fresh(j) => Fresh(j)')
      BY <1>1, SamePages
    <3> QED BY <3>1, <3>2
  <2>4. SegsOK'
    BY <2>3, <1>1, <1>3 DEF SegsOK
  <2>5. Fresh(k)'
    <3>1. PICK c : c = k
      OBVIOUS
    <3>2. Fresh(c)'
      BY <3>1, <2>2, <2>3
    <3> QED BY <3>1, <3>2, <1>3 DEF Fresh
  <2>6. PartOK'
    BY <2>5, <1>1, <1>3 DEF PartOK, Fresh
  <2> QED BY <2>1, <2>4, <2>6 DEF Loading
<1>4. CASE k <= Len(img) /\ ~ Seg.load /\ pc' = "phdr" /\ k' = k + 1 /\ entry' = entry
  <2>1. Flags'
    BY <1>1, <1>4 DEF Flags, Loading
  <2>2. ASSUME NEW j \in DOMAIN img, img[j].load
        PROVE  (j < k + 1 => Whole(j)') /\ (j > k + 1 \/ j = k + 1 => Fresh(j)')
    <3>1. j # k /\ j \in Nat
      BY <2>2, <1>2, <1>4 DEF Seg
    <3>2. (j < k => Whole(j)) /\ (j > k => Fresh(j))
      BY <1>1, <2>2 DEF Loading, SegsOK
    <3>3. (Whole(j) => Whole(j)') /\ (Fresh(j) => Fresh(j)')
      BY <1>1, SamePages
    <3> QED BY <3>1, <3>2, <3>3, <1>2
  <2>3. SegsOK'
    BY <2>2, <1>1, <1>4 DEF SegsOK
  <2>4. PartOK'
    BY <1>4 DEF PartOK, Parts
  <2> QED BY <2>1, <2>3, <2>4 DEF Loading
<1>5. CASE k > Len(img) /\ pc' = next /\ entry' = TRUE /\ k' = k
  <2>1. Flags'
    BY <1>1, <1>5 DEF Flags, Loading
  <2>2. pc' \notin Parts
    BY <1>5 DEF Parts
  <2> QED BY <2>1, <2>2, <1>1, <1>5, LoadAside
<1> QED BY <1>3, <1>4, <1>5 DEF Header, NextHeader

(* Every step keeps Loading. *)
LEMMA NextLoading ==
  ASSUME OwnPages, Types, Childless, Loading, [Next]_vars
  PROVE  Loading'
<1>0. Flags
  BY DEF Loading
<1>1. CASE UNCHANGED vars
  <2>1. /\ who' = who /\ img' = img /\ pc' = pc /\ k' = k /\ i' = i /\ r' = r /\ mem' = mem /\ lost' = lost
        /\ lib' = lib /\ entry' = entry
    BY <1>1 DEF vars
  <2>2. (\A j : Whole(j) => Whole(j)') /\ (\A j : Fresh(j) => Fresh(j)')
    BY <2>1, SamePages
  <2>3. Flags' /\ SegsOK'
    BY <2>1, <2>2 DEF Loading, Flags, SegsOK, Live
  <2>4. PartOK'
    BY <2>1 DEF Loading, PartOK, InFile, Ahead, Whole, Fresh, Sees, Reads, Found, Says, Seg, At
  <2> QED BY <2>3, <2>4 DEF Loading
<1>2. CASE Boot
  <2>1. /\ pc = "open" /\ pc' = "phdr" /\ img' = img /\ who' = who /\ mem' = mem /\ lost' = lost /\ k' = k
        /\ lib' = lib /\ entry' = entry
    BY <1>2 DEF Boot, task
  <2>2. Flags' /\ Live /\ pc \notin Parts /\ pc' \notin Parts
    BY <2>1, <1>0 DEF Flags, Live, Parts
  <2> QED BY <2>1, <2>2, LoadAside
<1>3. CASE Open
  <2>1. /\ pc = "open" /\ pc' = "stack" /\ img' = img /\ who' = who /\ mem' = mem /\ lost' = lost /\ k' = k
        /\ lib' = lib /\ entry' = entry
    BY <1>3 DEF Open, task
  <2>2. Flags' /\ Live /\ pc \notin Parts /\ pc' \notin Parts
    BY <2>1, <1>0 DEF Flags, Live, Parts
  <2> QED BY <2>1, <2>2, LoadAside
<1>4. CASE OpenFails
  <2>1. /\ pc' \in {"error", "panic"} /\ who' = who /\ lib' = lib /\ entry' = entry
    BY <1>4 DEF OpenFails, GiveUp, task, set
  <2>2. ~ Live' /\ pc' \notin Parts /\ Flags'
    BY <2>1, <1>0 DEF Flags, Live, Parts
  <2> QED BY <2>2, LoadGone
<1>5. CASE InitStack
  <2>1. /\ pc = "stack" /\ pc' = "phdr" /\ img' = img /\ who' = who /\ mem' = mem /\ lost' = lost /\ k' = k
        /\ lib' = lib /\ entry' = entry
    BY <1>5 DEF InitStack, task
  <2>2. Flags' /\ Live /\ pc \notin Parts /\ pc' \notin Parts
    BY <2>1, <1>0 DEF Flags, Live, Parts
  <2> QED BY <2>1, <2>2, LoadAside
<1>6. CASE Phdr
  BY <1>6, LoadHeader DEF Phdr
<1>7. CASE load_elf
  BY <1>7, LoadHeader DEF load_elf
<1>8. CASE PartFails
  <2>1. pc \in Parts /\ who' = who /\ lib' = lib /\ entry' = entry
    BY <1>8 DEF PartFails, Parts, task, set
  <2>2. ~ entry /\ pc # "run"
    BY <2>1, <1>0 DEF Flags, Parts
  <2>3. (pc' = "run" /\ who = "kernel") \/ pc' \in {"error", "panic"}
    BY <1>8 DEF PartFails, LoadFails, LoadGivesUp, GiveUp
  <2>4. ~ Live' /\ pc' \notin Parts /\ Flags'
    BY <2>1, <2>2, <2>3, <1>0 DEF Flags, Live, Parts
  <2> QED BY <2>4, LoadGone
<1>9. CASE First
  BY <1>9, LoadFirst
<1>10. CASE Bin
  BY <1>10, LoadBin
<1>11. CASE Rest
  BY <1>11, LoadRest
<1>12. CASE Bss
  BY <1>12, LoadBss
<1>13. CASE MapLib
  <2>1. /\ pc = "lib" /\ pc' = "lib" /\ img' = img /\ who' = who /\ mem' = mem /\ lost' = lost /\ k' = k
        /\ entry' = entry
    BY <1>13 DEF MapLib, task
  <2>2. Flags' /\ (Live' => Live) /\ pc \notin Parts /\ pc' \notin Parts
    BY <2>1, <1>0 DEF Flags, Live, Parts
  <2> QED BY <2>1, <2>2, LoadAside
<1>14. CASE MapLibFails
  <2>1. /\ pc' \in {"error", "panic"} /\ who' = who /\ lib' = lib /\ entry' = entry
    BY <1>14 DEF MapLibFails, GiveUp, task, set
  <2>2. ~ Live' /\ pc' \notin Parts /\ Flags'
    BY <2>1, <1>0 DEF Flags, Live, Parts
  <2> QED BY <2>2, LoadGone
<1>15. CASE MapLibDone
  <2>1. /\ pc = "lib" /\ pc' = "start" /\ img' = img /\ who' = who /\ mem' = mem /\ lost' = lost /\ k' = k
        /\ lib' = lib /\ entry' = entry /\ lib = NLIB
    BY <1>15 DEF MapLibDone, task, set
  <2>2. Flags' /\ (Live' => Live) /\ pc \notin Parts /\ pc' \notin Parts
    BY <2>1, <1>0 DEF Flags, Live, Parts
  <2> QED BY <2>1, <2>2, LoadAside
<1>16. CASE Start
  <2>1. /\ pc = "start" /\ pc' \in {"run", "error", "panic"} /\ img' = img /\ who' = who
        /\ mem' = mem /\ lost' = lost /\ k' = k /\ lib' = lib /\ entry' = entry
    BY <1>16 DEF Start, GiveUp, task, set
  <2>2. Flags' /\ (Live' => Live) /\ pc \notin Parts /\ pc' \notin Parts
    BY <2>1, <1>0 DEF Flags, Live, Parts
  <2> QED BY <2>1, <2>2, LoadAside
<1>17. CASE Done
  BY <1>1, <1>17 DEF Done
<1>18. CASE PhdrFails
  <2>1. /\ pc' \in {"error", "panic"} /\ who' = who /\ lib' = lib /\ entry' = entry
    BY <1>18 DEF PhdrFails, GiveUp, task, set
  <2>2. ~ Live' /\ pc' \notin Parts /\ Flags'
    BY <2>1, <1>0 DEF Flags, Live, Parts
  <2> QED BY <2>2, LoadGone
<1> QED BY <1>1, <1>2, <1>3, <1>4, <1>5, <1>6, <1>7, <1>8, <1>9, <1>10, <1>11, <1>12, <1>13,
           <1>14, <1>15, <1>16, <1>17, <1>18 DEF Next

(* At first nothing is loaded. *)
LEMMA InitLoading == Init => Loading
<1> SUFFICES ASSUME Init PROVE Loading
  OBVIOUS
<1>1. Flags /\ PartOK
  BY DEF Init, Flags, PartOK, Parts
<1>2. DOMAIN mem = {} /\ k = 1
  BY DEF Init
<1>3. \A j : Fresh(j)
  BY <1>2 DEF Fresh
<1>4. \A j \in DOMAIN img : ~ j < k
  BY <1>2, InitChildless, Headers
<1>5. SegsOK
  BY <1>3, <1>4 DEF SegsOK
<1> QED BY <1>1, <1>5 DEF Loading

(* What of the program is in the pages, after each part of each segment. *)
THEOREM LoadingInvariant ==
  ASSUME OwnPages
  PROVE  Spec => []Loading
<1>1. Init => Loading
  BY InitLoading
<1>2. Types /\ Childless /\ Loading /\ [Next]_vars => Loading'
  BY NextLoading
<1> QED BY <1>1, <1>2, ChildlessInvariant, PTL DEF Spec

(***************************************************************************)
(* For every page size and every program whose segments share no page, and *)
(* whichever step of usr_load_elf, load_elf or the mapping of the library  *)
(* pages fails: a program that is started reads at every address of its    *)
(* segments what the program headers say, except for a program that        *)
(* load_elf gave up and for the pages that load_icode_mapper, which does   *)
(* not look at page_insert's result, left unmapped.                        *)
(***************************************************************************)
THEOREM ProgramIsWhole ==
  ASSUME OwnPages
  PROVE  Spec => []LoadedWhole
<1>1. Types /\ Childless /\ Loading => LoadedWhole
  <2> SUFFICES ASSUME Types, Childless, Loading, pc = "run", ~ (who = "kernel" /\ ~ entry)
               PROVE  /\ entry /\ child
                      /\ lib = (IF who = "kernel" THEN 0 ELSE NLIB)
                      /\ \A j \in DOMAIN img : img[j].load => Whole(j)
    BY DEF LoadedWhole, Whole, Sees
  <2>1. entry /\ Live /\ k > Len(img) /\ lib = (IF who = "kernel" THEN 0 ELSE NLIB)
    BY DEF Loading, Flags, Live
  <2>2. child
    BY <2>1 DEF Childless, Types
  <2>3. \A j \in DOMAIN img : j < k
    BY <2>1, Headers DEF Types
  <2>4. \A j \in DOMAIN img : img[j].load => Whole(j)
    BY <2>1, <2>3 DEF Loading, SegsOK
  <2> QED BY <2>1, <2>2, <2>4
<1> QED BY <1>1, ChildlessInvariant, LoadingInvariant, PTL

-----------------------------------------------------------------------------
(* The sums of the lengths of the arguments *)

(* f is the sums of the first strings, up to m of them. *)
Sums(av, m, f) ==
  f = [n \in 0 .. m |-> IF n = 0 THEN 0 ELSE f[n - 1] + av[n] + 1]

(* A set of natural numbers has a least element. *)
LEMMA LeastElement ==
  ASSUME NEW T \in SUBSET Nat, T # {}
  PROVE  \E m \in T : \A n \in T : m <= n
<1> DEFINE R == {x \in Nat \X Nat : x[1] < x[2]}
<1>1. OpToRel(<, Nat) = R
  BY DEF OpToRel
<1>2. IsWellFoundedOn(R, Nat)
  BY <1>1, NatLessThanWellFounded
<1>3. \A m, n \in Nat : <<m, n>> \notin R => n <= m
  OBVIOUS
<1> HIDE DEF R
<1>4. \E m \in T : \A n \in T : <<n, m>> \notin R
  BY <1>2, WFMin
<1> QED BY <1>3, <1>4

(* The sums exist, by induction on the number of strings. *)
LEMMA SumsExist ==
  ASSUME NEW av \in Seq(Nat)
  PROVE  \E f : Sums(av, Len(av), f)
<1> DEFINE L == Len(av)
           Bad == {m \in Nat : m <= L /\ ~ \E f : Sums(av, m, f)}
<1>1. L \in Nat
  OBVIOUS
<1>2. SUFFICES ASSUME Bad # {} PROVE FALSE
  BY <1>1
<1>3. PICK m \in Bad : \A n \in Bad : m <= n
  BY <1>2, LeastElement
<1>4. m \in Nat /\ m <= L /\ ~ \E f : Sums(av, m, f)
  BY <1>3
<1> HIDE DEF L
<1>5. m # 0
  <2>1. ASSUME m = 0 PROVE \E f : Sums(av, m, f)
    <3> DEFINE f == [n \in 0 .. 0 |-> 0]
    <3>1. f = [n \in 0 .. 0 |-> IF n = 0 THEN 0 ELSE f[n - 1] + av[n] + 1]
      OBVIOUS
    <3> HIDE DEF f
    <3> QED BY <2>1, <3>1 DEF Sums
  <2> QED BY <1>4, <2>1
<1>6. PICK g : Sums(av, m - 1, g)
  <2>1. m - 1 \in Nat /\ m - 1 <= L /\ m - 1 < m
    BY <1>1, <1>4, <1>5
  <2>2. m - 1 \notin Bad
    BY <1>3, <1>4, <2>1
  <2> QED BY <2>1, <2>2
<1> DEFINE f == [n \in 0 .. m |-> IF n = m THEN g[m - 1] + av[m] + 1 ELSE g[n]]
<1>7. \A n \in 0 .. m - 1 : g[n] = IF n = 0 THEN 0 ELSE g[n - 1] + av[n] + 1
  BY <1>4, <1>5, <1>6 DEF Sums
<1>8. \A n \in 0 .. m : f[n] = IF n = 0 THEN 0 ELSE f[n - 1] + av[n] + 1
  BY <1>4, <1>5, <1>7
<1>9. f = [n \in 0 .. m |-> IF n = 0 THEN 0 ELSE f[n - 1] + av[n] + 1]
  <2>1. f = [n \in 0 .. m |-> f[n]]
    OBVIOUS
  <2> HIDE DEF f
  <2> QED BY <1>8, <2>1
<1> HIDE DEF f
<1>10. Sums(av, m, f)
  BY <1>9 DEF Sums
<1> QED BY <1>4, <1>10

(* Bytes satisfies its recursion. *)
LEMMA BytesSums ==
  ASSUME NEW av \in Seq(Nat)
  PROVE  Sums(av, Len(av), Bytes(av))
<1>1. Bytes(av) = CHOOSE f : Sums(av, Len(av), f)
  BY DEF Bytes, Sums
<1> QED BY <1>1, SumsExist

(* What the sums are: they grow by the length of each string and its end. *)
LEMMA BytesFacts ==
  ASSUME NEW av \in Seq(Nat), NEW b, b = Bytes(av)
  PROVE  /\ \A n \in 0 .. Len(av) : b[n] \in Nat
         /\ \A n \in 1 .. Len(av) : b[n] = b[n - 1] + av[n] + 1
         /\ \A m, n \in 0 .. Len(av) : m <= n => b[m] <= b[n]
<1> DEFINE L == Len(av)
<1>1. L \in Nat /\ \A n \in 1 .. L : av[n] \in Nat
  OBVIOUS
<1>2. Sums(av, L, b)
  BY BytesSums
<1> HIDE DEF L
<1>3. b[0] = 0 /\ \A n \in 1 .. L : b[n] = b[n - 1] + av[n] + 1
  BY <1>1, <1>2 DEF Sums
<1>4. \A n \in 0 .. L : b[n] \in Nat
  <2> DEFINE Bad == {n \in Nat : n <= L /\ b[n] \notin Nat}
  <2>1. SUFFICES ASSUME Bad # {} PROVE FALSE
    BY <1>1
  <2>2. PICK m \in Bad : \A n \in Bad : m <= n
    BY <2>1, LeastElement
  <2>3. m # 0 /\ m \in Nat /\ m <= L /\ b[m] \notin Nat
    BY <1>3, <2>2
  <2>4. m - 1 \in Nat /\ m - 1 <= L /\ m - 1 \notin Bad /\ m \in 1 .. L
    BY <1>1, <2>2, <2>3
  <2>5. b[m - 1] \in Nat
    BY <2>4
  <2>6. b[m] = b[m - 1] + av[m] + 1 /\ av[m] \in Nat
    BY <1>1, <1>3, <2>4
  <2> HIDE DEF Bad
  <2> QED BY <2>3, <2>5, <2>6
<1>5. ASSUME NEW m \in 0 .. L PROVE \A n \in 0 .. L : m <= n => b[m] <= b[n]
  <2> DEFINE Bad == {n \in Nat : n <= L /\ m <= n /\ ~ b[m] <= b[n]}
  <2>1. SUFFICES ASSUME Bad # {} PROVE FALSE
    BY <1>1
  <2>2. PICK n \in Bad : \A q \in Bad : n <= q
    BY <2>1, LeastElement
  <2>3. n \in Nat /\ n <= L /\ m <= n /\ ~ b[m] <= b[n] /\ b[m] \in Nat
    BY <1>4, <2>2
  <2>4. n # m
    BY <2>3
  <2>5. n - 1 \in Nat /\ n - 1 <= L /\ m <= n - 1 /\ n - 1 \notin Bad /\ n \in 1 .. L
    BY <1>1, <2>2, <2>3, <2>4
  <2>6. b[m] <= b[n - 1] /\ b[n - 1] \in Nat /\ av[n] \in Nat /\ b[n] = b[n - 1] + av[n] + 1
    BY <1>1, <1>3, <1>4, <2>5
  <2> QED BY <2>3, <2>6
<1> QED BY <1>3, <1>4, <1>5 DEF L

(* Rounding up to a multiple of d. *)
LEMMA RoundFacts ==
  ASSUME NEW n \in Nat, NEW d \in Nat \ {0}
  PROVE  \E q \in Nat : Round(n, d) = q * d /\ n <= q * d /\ q * d < n + d
<1> DEFINE q == (n + d - 1) \div d
           o == (n + d - 1) % d
<1>1. q \in Int /\ o \in 0 .. d - 1 /\ n + d - 1 = d * q + o
  OBVIOUS
<1>2. Round(n, d) = q * d
  BY DEF Round
<1> HIDE DEF q, o
<1>3. d * q = q * d /\ q * d \in Int
  BY <1>1
<1>4. n <= q * d /\ q * d < n + d
  BY <1>1, <1>3
<1>5. q \in Nat
  <2>1. ASSUME q < 0 PROVE q * d < 0
    BY <1>1, <2>1
  <2> QED BY <1>1, <1>4, <2>1
<1> QED BY <1>2, <1>4, <1>5

(* Half a word rounds to no more than a word. *)
LEMMA RoundHalf ==
  ASSUME NEW n \in Nat, NEW d \in Nat \ {0}
  PROVE  n <= Round(n, d) /\ Round(n, d) <= Round(n, 2 * d) /\ Round(n, d) \in Nat
<1>1. PICK q \in Nat : Round(n, d) = q * d /\ n <= q * d /\ q * d < n + d
  BY RoundFacts
<1>2. 2 * d \in Nat \ {0}
  OBVIOUS
<1>3. PICK p \in Nat : Round(n, 2 * d) = p * (2 * d) /\ n <= p * (2 * d)
  BY <1>2, RoundFacts
<1>4. p * (2 * d) = (2 * p) * d /\ q * d \in Nat /\ (2 * p) * d \in Nat
  OBVIOUS
<1>5. q * d < (2 * p) * d + d
  BY <1>1, <1>3, <1>4
<1>6. q <= 2 * p
  <2>1. ASSUME q >= 2 * p + 1 PROVE q * d >= (2 * p) * d + d
    <3>1. PICK x \in Nat : q = 2 * p + 1 + x
      BY <2>1
    <3>2. q * d = (2 * p) * d + d + x * d /\ x * d >= 0
      BY <3>1
    <3> QED BY <3>2, <1>4
  <2> QED BY <1>4, <1>5, <2>1
<1>7. q * d <= (2 * p) * d
  <2>1. PICK x \in Nat : 2 * p = q + x
    BY <1>6
  <2>2. (2 * p) * d = q * d + x * d /\ x * d >= 0
    BY <2>1
  <2> QED BY <2>2, <1>4
<1> QED BY <1>1, <1>3, <1>4, <1>7

(* Words with different numbers do not overlap. *)
LEMMA WordOrder ==
  ASSUME NEW w \in Nat, NEW m \in Int, NEW n \in Int, m < n
  PROVE  w * m + w <= w * n
<1>1. PICK x \in Nat : n = m + 1 + x
  <2>1. n - m - 1 \in Nat /\ n = m + 1 + (n - m - 1)
    OBVIOUS
  <2> QED BY <2>1
<1>2. w * n = w * m + w + w * x /\ w * x >= 0 /\ w * m \in Int
  BY <1>1
<1> QED BY <1>2

-----------------------------------------------------------------------------
(* The stack of the child *)

(* The n-th word from the vector: argc, its address, its elements, its end. *)
Nth(av, n) ==
  Word(ArgsAt(av) + W * n,
       IF n = -2 THEN Len(av) ELSE IF n = -1 THEN ArgsAt(av)
       ELSE IF n = Len(av) THEN 0 ELSE StringAt(av, n + 1))

(* The strings are the objects of the stack that are not words. *)
Nstr(av, j) == String(StringAt(av, j), j, av[j] + 1)

(* Where the words and the strings are, when they fit into the page. *)
LEMMA StackBounds ==
  ASSUME NEW av \in Seq(Nat), Fits(av)
  PROVE  /\ Len(av) \in Nat /\ W \in Nat \ {0} /\ PG \in Nat /\ Top \in Nat /\ PG <= Top
         /\ ArgsAt(av) \in Nat /\ Top - PG <= ArgsAt(av) + W * (-2)
         /\ \E t \in Nat :
              /\ t <= PG /\ ArgsAt(av) + W * Len(av) + W <= Top - t
              /\ \A j \in 1 .. Len(av) :
                   /\ StringAt(av, j) \in Int /\ av[j] \in Nat
                   /\ Top - t <= StringAt(av, j) /\ StringAt(av, j) + av[j] + 1 <= Top
              /\ \A j, l \in 1 .. Len(av) : j < l =>
                   StringAt(av, j) + av[j] + 1 <= StringAt(av, l)
<1> DEFINE L == Len(av)
           b == Bytes(av)
           h == W \div 2
<1>1. L \in Nat /\ \A j \in 1 .. L : av[j] \in Nat
  OBVIOUS
<1>2. W \in Nat \ {0} /\ PG \in Nat /\ Top \in Nat /\ PG <= Top /\ W % 2 = 0
  BY SpawnAssumption
<1>3. h \in Nat \ {0} /\ W = 2 * h
  BY <1>2
<1>4. /\ \A n \in 0 .. L : b[n] \in Nat
      /\ \A n \in 1 .. L : b[n] = b[n - 1] + av[n] + 1
      /\ \A m, n \in 0 .. L : m <= n => b[m] <= b[n]
  BY BytesFacts
<1>5. Tot(av) = b[L] /\ \A j \in 1 .. L : StringAt(av, j) = Top - b[L] + b[j - 1]
  BY DEF Tot, StringAt
<1>6. /\ Round(Tot(av), W) + W * (L + 3) <= PG
      /\ ArgsAt(av) = Top - Round(Tot(av), h) - W * (L + 1)
  BY DEF Fits, ArgsAt
<1> HIDE DEF L, b, h
<1>7. b[L] \in Nat
  BY <1>1, <1>4
<1>8. PICK r1 : r1 = Round(Tot(av), h)
  OBVIOUS
<1>9. r1 \in Nat /\ b[L] <= r1 /\ r1 + W * (L + 3) <= PG
  <2>1. PICK r2 : r2 = Round(Tot(av), 2 * h)
    OBVIOUS
  <2>2. b[L] <= r1 /\ r1 <= r2 /\ r1 \in Nat
    BY <1>3, <1>5, <1>7, <1>8, <2>1, RoundHalf
  <2>3. r2 \in Nat
    <3>1. 2 * h \in Nat \ {0}
      BY <1>3
    <3> QED BY <1>5, <1>7, <2>1, <3>1, RoundHalf
  <2>4. r2 + W * (L + 3) <= PG
    BY <1>3, <1>6, <2>1
  <2>5. W * (L + 3) \in Nat
    BY <1>1, <1>2
  <2> QED BY <1>2, <2>2, <2>3, <2>4, <2>5
<1>10. PICK x \in Nat : x = W * L
  BY <1>1, <1>2
<1>11. W * (L + 3) = x + 3 * W /\ W * (L + 1) = x + W /\ W * (-2) = - 2 * W
  BY <1>1, <1>2, <1>10
<1>12. ArgsAt(av) = Top - r1 - (x + W)
  BY <1>6, <1>8, <1>11
<1>13. ArgsAt(av) \in Nat /\ Top - PG <= ArgsAt(av) + W * (-2)
  BY <1>2, <1>9, <1>11, <1>12
<1>14. b[L] <= PG /\ ArgsAt(av) + W * L + W <= Top - b[L]
  <2>1. PICK a \in Nat, t \in Nat : a = ArgsAt(av) /\ t = b[L]
    BY <1>7, <1>13
  <2>2. a = Top - r1 - (x + W) /\ t <= r1 /\ r1 + (x + 3 * W) <= PG
    BY <1>9, <1>11, <1>12, <2>1
  <2>3. t <= PG /\ a + x + W <= Top - t
    BY <1>2, <1>9, <2>2
  <2> QED BY <1>10, <2>1, <2>3
<1>15. ASSUME NEW j \in 1 .. L
       PROVE  /\ StringAt(av, j) \in Int /\ av[j] \in Nat
              /\ Top - b[L] <= StringAt(av, j)
              /\ StringAt(av, j) + av[j] + 1 = Top - b[L] + b[j]
              /\ b[j] <= b[L] /\ b[j] \in Nat
  <2>1. j - 1 \in 0 .. L /\ j \in 0 .. L /\ L \in 0 .. L /\ j <= L
    BY <1>1
  <2>2. b[j - 1] \in Nat /\ b[j] \in Nat /\ b[j] <= b[L] /\ av[j] \in Nat
    BY <1>1, <1>4, <2>1
  <2>3. StringAt(av, j) = Top - b[L] + b[j - 1] /\ b[j] = b[j - 1] + av[j] + 1
    BY <1>4, <1>5
  <2>4. PICK t \in Nat, c \in Nat, d \in Nat : t = b[L] /\ c = b[j - 1] /\ d = av[j]
    BY <1>7, <2>2
  <2>5. StringAt(av, j) = Top - t + c /\ b[j] = c + d + 1
    BY <2>3, <2>4
  <2>6. StringAt(av, j) \in Int /\ Top - t <= StringAt(av, j)
    BY <1>2, <2>5
  <2>7. StringAt(av, j) + d + 1 = Top - t + b[j]
    BY <1>2, <2>2, <2>5
  <2> QED BY <2>2, <2>4, <2>6, <2>7
<1>16. ASSUME NEW j \in 1 .. L, NEW l \in 1 .. L, j < l
       PROVE  StringAt(av, j) + av[j] + 1 <= StringAt(av, l)
  <2>1. l - 1 \in 0 .. L /\ j \in 0 .. L /\ j <= l - 1
    BY <1>1, <1>16
  <2>2. b[j] <= b[l - 1] /\ b[j] \in Nat /\ b[l - 1] \in Nat
    BY <1>4, <2>1
  <2>3. StringAt(av, j) + av[j] + 1 = Top - b[L] + b[j]
    BY <1>15
  <2>4. StringAt(av, l) = Top - b[L] + b[l - 1]
    BY <1>5
  <2>5. PICK t \in Nat, c \in Nat, d \in Nat : t = b[L] /\ c = b[j] /\ d = b[l - 1]
    BY <1>7, <2>2
  <2>6. Top - t + c <= Top - t + d
    BY <1>2, <2>2, <2>5
  <2> QED BY <2>3, <2>4, <2>5, <2>6
<1>17. ASSUME NEW j \in 1 .. L
       PROVE  /\ StringAt(av, j) \in Int /\ av[j] \in Nat
              /\ Top - b[L] <= StringAt(av, j) /\ StringAt(av, j) + av[j] + 1 <= Top
  <2>1. PICK t \in Nat, c \in Nat : t = b[L] /\ c = b[j] /\ c <= t
    BY <1>7, <1>15
  <2>2. Top - t + c <= Top
    BY <1>2, <2>1
  <2> QED BY <1>15, <2>1, <2>2
<1> QED BY <1>1, <1>2, <1>7, <1>13, <1>14, <1>16, <1>17 DEF L

(* Words and strings are all there is on the stack. *)
LEMMA LayoutObjects ==
  ASSUME NEW av \in Seq(Nat), Fits(av)
  PROVE  /\ \A n \in -2 .. Len(av) : Nth(av, n) \in Layout(av)
         /\ \A j \in 1 .. Len(av) : Nstr(av, j) \in Layout(av)
         /\ \A x \in Layout(av) : \/ \E n \in -2 .. Len(av) : x = Nth(av, n)
                                  \/ \E j \in 1 .. Len(av) : x = Nstr(av, j)
<1> DEFINE L == Len(av)
           A == ArgsAt(av)
           Element(j) == Word(A + W * (j - 1), StringAt(av, j))
<1>1. L \in Nat /\ W \in Nat \ {0} /\ A \in Nat
  BY StackBounds
<1>2. Layout(av) = {Nstr(av, j) : j \in 1 .. L} \union {Element(j) : j \in 1 .. L}
                     \union {Word(A + W * L, 0), Word(A - W, A), Word(A - 2 * W, L)}
  BY DEF Layout, Nstr
<1>3. Word(A - 2 * W, L) = Nth(av, -2)
  <2>1. A + W * (-2) = A - 2 * W
    BY <1>1
  <2> QED BY <2>1 DEF Nth
<1>4. Word(A - W, A) = Nth(av, -1)
  <2>1. A + W * (-1) = A - W /\ -1 # -2
    BY <1>1
  <2> QED BY <2>1 DEF Nth
<1>5. Word(A + W * L, 0) = Nth(av, L)
  BY <1>1 DEF Nth
<1>6. ASSUME NEW j \in 1 .. L PROVE Element(j) = Nth(av, j - 1)
  <2>1. j - 1 # -2 /\ j - 1 # -1 /\ j - 1 # L /\ j - 1 + 1 = j
    BY <1>1
  <2> QED BY <2>1 DEF Nth
<1>7. \A n \in -2 .. L : n = -2 \/ n = -1 \/ n = L \/ (n + 1 \in 1 .. L /\ n = n + 1 - 1)
  BY <1>1
<1> HIDE DEF Element, L, A
<1>8. ASSUME NEW n \in -2 .. L PROVE Nth(av, n) \in Layout(av)
  <2>1. ASSUME n + 1 \in 1 .. L PROVE Nth(av, n) \in Layout(av)
    <3>1. PICK j \in 1 .. L : j - 1 = n
      BY <1>1, <2>1
    <3>2. Element(j) \in Layout(av)
      BY <1>2
    <3> QED BY <1>6, <3>1, <3>2
  <2> QED BY <1>2, <1>3, <1>4, <1>5, <1>7, <2>1
<1>9. ASSUME NEW x \in Layout(av)
      PROVE  (\E n \in -2 .. L : x = Nth(av, n)) \/ (\E j \in 1 .. L : x = Nstr(av, j))
  <2>1. -2 \in -2 .. L /\ -1 \in -2 .. L /\ L \in -2 .. L /\ \A j \in 1 .. L : j - 1 \in -2 .. L
    BY <1>1
  <2> QED BY <1>2, <1>3, <1>4, <1>5, <1>6, <2>1
<1>10. \A j \in 1 .. L : Nstr(av, j) \in Layout(av)
  BY <1>2
<1> QED BY <1>8, <1>9, <1>10 DEF L

(* What user_start finds: ArgsArrive, of the objects s and the stack pointer e. *)
Arrives(av, s, e) ==
  /\ Word(e, Len(av)) \in s
  /\ \E a \in 0 .. Top :
       /\ Word(e + W, a) \in s
       /\ Word(a + W * Len(av), 0) \in s
       /\ \A j \in DOMAIN av : \E b \in 0 .. Top :
            Word(a + W * (j - 1), b) \in s /\ String(b, j, av[j] + 1) \in s
  /\ \A x \in s : Top - PG <= x.at /\ x.at + x.len <= Top
  /\ \A x, y \in s : x = y \/ x.at + x.len <= y.at \/ y.at + y.len <= x.at

(* A list that fits arrives. *)
LEMMA LayoutArrives ==
  ASSUME NEW av \in Seq(Nat), Fits(av)
  PROVE  Arrives(av, Layout(av), ArgsAt(av) - 2 * W)
<1> DEFINE L == Len(av)
           A == ArgsAt(av)
           s == Layout(av)
<1>1. /\ L \in Nat /\ W \in Nat \ {0} /\ PG \in Nat /\ Top \in Nat /\ PG <= Top
      /\ A \in Nat /\ Top - PG <= A + W * (-2) /\ DOMAIN av = 1 .. L
  BY StackBounds
<1>2. PICK t \in Nat :
        /\ t <= PG /\ A + W * L + W <= Top - t
        /\ \A j \in 1 .. L :
             /\ StringAt(av, j) \in Int /\ av[j] \in Nat
             /\ Top - t <= StringAt(av, j) /\ StringAt(av, j) + av[j] + 1 <= Top
        /\ \A j, l \in 1 .. L : j < l => StringAt(av, j) + av[j] + 1 <= StringAt(av, l)
  BY StackBounds
<1>3. /\ \A n \in -2 .. L : Nth(av, n) \in s
      /\ \A j \in 1 .. L : Nstr(av, j) \in s
      /\ \A x \in s : \/ \E n \in -2 .. L : x = Nth(av, n)
                      \/ \E j \in 1 .. L : x = Nstr(av, j)
  BY LayoutObjects
<1>t. t \in Nat /\ t <= PG
  BY <1>2
<1>a. A + W * L + W <= Top - t
  BY <1>2
<1>s. ASSUME NEW j \in 1 .. L
      PROVE  /\ StringAt(av, j) \in Int /\ av[j] \in Nat
             /\ Top - t <= StringAt(av, j) /\ StringAt(av, j) + av[j] + 1 <= Top
  BY <1>2
<1>w. \A n : Nth(av, n).at = A + W * n /\ Nth(av, n).len = W
  BY DEF Nth, Word
<1>x. \A j : Nstr(av, j).at = StringAt(av, j) /\ Nstr(av, j).len = av[j] + 1
  BY DEF Nstr, String
<1> HIDE DEF L, A, s
<1>4. Word(A - 2 * W, L) \in s
  <2>1. Nth(av, -2) = Word(A - 2 * W, L)
    <3>1. A + W * (-2) = A - 2 * W
      BY <1>1
    <3> QED BY <3>1 DEF Nth, A, L
  <2>2. -2 \in -2 .. L
    BY <1>1
  <2> QED BY <1>3, <2>1, <2>2
<1>5. Word((A - 2 * W) + W, A) \in s
  <2>1. Nth(av, -1) = Word((A - 2 * W) + W, A)
    <3>1. A + W * (-1) = (A - 2 * W) + W /\ -1 # -2
      BY <1>1
    <3> QED BY <3>1 DEF Nth, A, L
  <2>2. -1 \in -2 .. L
    BY <1>1
  <2> QED BY <1>3, <2>1, <2>2
<1>6. Word(A + W * L, 0) \in s
  <2>1. L # -2 /\ L # -1 /\ L \in -2 .. L
    BY <1>1
  <2>2. Nth(av, L) = Word(A + W * L, 0)
    BY <2>1 DEF Nth, A, L
  <2> QED BY <1>3, <2>1, <2>2
<1>7. ASSUME NEW j \in 1 .. L
      PROVE  \E b \in 0 .. Top : Word(A + W * (j - 1), b) \in s /\ String(b, j, av[j] + 1) \in s
  <2>1. j - 1 # -2 /\ j - 1 # -1 /\ j - 1 # L /\ j - 1 + 1 = j /\ j - 1 \in -2 .. L
    BY <1>1
  <2>2. Nth(av, j - 1) = Word(A + W * (j - 1), StringAt(av, j))
    BY <2>1 DEF Nth, A, L
  <2>3. StringAt(av, j) \in 0 .. Top
    BY <1>1, <1>2
  <2>4. String(StringAt(av, j), j, av[j] + 1) \in s
    BY <1>3 DEF Nstr
  <2> QED BY <1>3, <2>1, <2>2, <2>3, <2>4
<1>8. A \in 0 .. Top
  <2>1. PICK w \in Nat : w = W * L
    BY <1>1
  <2>2. A + w + W <= Top - t
    BY <1>a, <2>1
  <2> QED BY <1>1, <1>t, <2>2
<1>9. ASSUME NEW n \in -2 .. L
      PROVE  Top - PG <= A + W * n /\ A + W * n + W <= Top - t /\ W * n \in Int
  <2>1. W * n \in Int /\ W * L \in Int /\ W * (-2) \in Int
    BY <1>1
  <2>2. W * (-2) <= W * n
    <3>1. CASE n = -2
      BY <2>1, <3>1
    <3>2. CASE n # -2
      <4>1. W * (-2) + W <= W * n
        BY <1>1, <3>2, WordOrder
      <4> QED BY <1>1, <2>1, <4>1
    <3> QED BY <3>1, <3>2
  <2>3. W * n <= W * L
    <3>1. CASE n = L
      BY <2>1, <3>1
    <3>2. CASE n # L
      <4>1. W * n + W <= W * L
        BY <1>1, <3>2, WordOrder
      <4> QED BY <1>1, <2>1, <4>1
    <3> QED BY <3>1, <3>2
  <2>4. PICK u \in Int, v \in Int, w \in Int : u = W * (-2) /\ v = W * n /\ w = W * L
    BY <2>1
  <2>5. /\ u <= v /\ v <= w
        /\ Top - PG <= A + u /\ A + w + W <= Top - t
    BY <1>1, <1>a, <2>2, <2>3, <2>4
  <2>6. Top - PG <= A + v /\ A + v + W <= Top - t
    BY <1>1, <1>t, <2>5
  <2> QED BY <2>1, <2>4, <2>6
<1>10. ASSUME NEW x \in s PROVE Top - PG <= x.at /\ x.at + x.len <= Top
  <2>1. ASSUME NEW n \in -2 .. L, x = Nth(av, n) PROVE Top - PG <= x.at /\ x.at + x.len <= Top
    <3>1. x.at = A + W * n /\ x.len = W
      BY <1>w, <2>1
    <3>2. PICK v \in Int : v = W * n
      BY <1>9
    <3>3. Top - PG <= A + v /\ A + v + W <= Top - t
      BY <1>9, <3>2
    <3>4. A + v + W <= Top
      BY <1>1, <1>t, <3>3
    <3> QED BY <3>1, <3>2, <3>3, <3>4
  <2>2. ASSUME NEW j \in 1 .. L, x = Nstr(av, j) PROVE Top - PG <= x.at /\ x.at + x.len <= Top
    <3>1. x.at = StringAt(av, j) /\ x.len = av[j] + 1
      BY <1>x, <2>2
    <3>2. PICK b \in Int, c \in Nat : b = StringAt(av, j) /\ c = av[j]
      BY <1>s
    <3>3. Top - t <= b /\ b + c + 1 <= Top
      BY <1>s, <3>2
    <3>4. Top - PG <= b /\ b + (c + 1) <= Top
      BY <1>1, <1>t, <3>3
    <3> QED BY <3>1, <3>2, <3>4
  <2> QED BY <1>3, <2>1, <2>2
<1>11. ASSUME NEW m \in -2 .. L, NEW n \in -2 .. L, m < n
       PROVE  Nth(av, m).at + Nth(av, m).len <= Nth(av, n).at
  <2>1. W * m + W <= W * n /\ W * m \in Int /\ W * n \in Int
    BY <1>1, <1>9, <1>11, WordOrder
  <2>2. (A + W * m) + W <= A + W * n
    BY <1>1, <2>1
  <2> QED BY <1>w, <2>2
<1>12. ASSUME NEW n \in -2 .. L, NEW j \in 1 .. L
       PROVE  Nth(av, n).at + Nth(av, n).len <= Nstr(av, j).at
  <2>1. (A + W * n) + W <= StringAt(av, j)
    <3>1. PICK v \in Int, b \in Int : v = W * n /\ b = StringAt(av, j)
      BY <1>9, <1>s
    <3>2. A + v + W <= Top - t /\ Top - t <= b
      BY <1>9, <1>s, <3>1
    <3>3. (A + v) + W <= b
      BY <1>1, <1>t, <3>1, <3>2
    <3> QED BY <3>1, <3>3
  <2> QED BY <1>w, <1>x, <2>1
<1>13. ASSUME NEW j \in 1 .. L, NEW l \in 1 .. L, j < l
       PROVE  Nstr(av, j).at + Nstr(av, j).len <= Nstr(av, l).at
  <2>1. StringAt(av, j) + (av[j] + 1) <= StringAt(av, l)
    BY <1>2, <1>13
  <2> QED BY <1>x, <2>1
<1>14. ASSUME NEW x \in s, NEW y \in s
       PROVE  x = y \/ x.at + x.len <= y.at \/ y.at + y.len <= x.at
  <2>1. \A m, n \in -2 .. L : m < n \/ m = n \/ n < m
    BY <1>1
  <2>2. \A m, n \in 1 .. L : m < n \/ m = n \/ n < m
    BY <1>1
  <2> QED BY <1>3, <1>11, <1>12, <1>13, <2>1, <2>2
<1>15. \A x \in s : Top - PG <= x.at /\ x.at + x.len <= Top
  BY <1>10
<1>16. \A x, y \in s : x = y \/ x.at + x.len <= y.at \/ y.at + y.len <= x.at
  BY <1>14
<1> QED BY <1>1, <1>4, <1>5, <1>6, <1>7, <1>8, <1>15, <1>16 DEF Arrives, L, A, s

(* The stack, once init_stack has laid it out. *)
StackOK ==
  /\ argv \in Argvs
  /\ pc = "open" => stk = {}
  /\ stk # {} => Fits(argv) /\ stk = Layout(argv) /\ esp = ArgsAt(argv) - 2 * W

(* No later step of a loader touches the stack. *)
LEMMA NextStack == StackOK /\ [Next]_vars => StackOK'
<1> SUFFICES ASSUME StackOK, [Next]_vars PROVE StackOK'
  OBVIOUS
<1>1. ASSUME UNCHANGED <<argv, stk, esp>>, pc' # "open" \/ UNCHANGED pc PROVE StackOK'
  BY <1>1 DEF StackOK
<1>2. CASE UNCHANGED vars
  BY <1>1, <1>2 DEF vars
<1>3. CASE Boot
  BY <1>3 DEF Boot, StackOK, task
<1>4. CASE Open \/ OpenFails \/ PhdrFails
  <2>1. UNCHANGED <<argv, stk, esp>> /\ pc' # "open"
    BY <1>4 DEF Open, OpenFails, PhdrFails, GiveUp, task, set
  <2> QED BY <1>1, <2>1
<1>5. CASE InitStack
  BY <1>5 DEF InitStack, StackOK, task
<1>6. CASE Phdr \/ load_elf \/ PartFails \/ First \/ Bin \/ Rest \/ Bss
  <2>1. UNCHANGED <<argv, stk, esp>> /\ (pc' # "open" \/ UNCHANGED pc)
    <3>1. CASE Phdr \/ load_elf
      BY <3>1 DEF Phdr, load_elf, Header, task
    <3>2. CASE PartFails
      BY <3>2 DEF PartFails, LoadFails, LoadGivesUp, GiveUp, task, set
    <3>3. CASE First \/ Bin \/ Rest \/ Bss
      BY <3>3 DEF First, Bin, Rest, Bss, task, set
    <3> QED BY <1>6, <3>1, <3>2, <3>3
  <2> QED BY <1>1, <2>1
<1>7. CASE MapLib \/ MapLibFails \/ MapLibDone \/ Start \/ Done
  <2>1. UNCHANGED <<argv, stk, esp>> /\ (pc' # "open" \/ UNCHANGED pc)
    BY <1>7 DEF MapLib, MapLibFails, MapLibDone, Start, Done, GiveUp, task, set, vars
  <2> QED BY <1>1, <2>1
<1> QED BY <1>2, <1>3, <1>4, <1>5, <1>6, <1>7 DEF Next

(***************************************************************************)
(* For every argument list that init_stack accepts, whatever the number    *)
(* and the lengths of the strings: a program that is started finds argc,   *)
(* argv and the strings where user_start looks, inside the page of the     *)
(* stack and without overlap.                                              *)
(***************************************************************************)
THEOREM ArgumentsArrive == Spec => []ArgsArrive
<1>1. Init => StackOK
  BY DEF Init, StackOK
<1>2. StackOK => ArgsArrive
  <2> SUFFICES ASSUME StackOK, stk # {} PROVE ArgsArrive
    BY DEF ArgsArrive
  <2>1. argv \in Seq(Nat) /\ Fits(argv)
    BY SpawnAssumption DEF StackOK
  <2>2. Arrives(argv, Layout(argv), ArgsAt(argv) - 2 * W)
    BY <2>1, LayoutArrives
  <2>3. Arrives(argv, stk, esp)
    BY <2>2 DEF StackOK
  <2> QED BY <2>3 DEF Arrives, ArgsArrive, Holds
<1> QED BY <1>1, <1>2, NextStack, PTL DEF Spec
=============================================================================
