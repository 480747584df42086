------------------------------ MODULE PageAlloc ------------------------------
(***************************************************************************)
(* The page bitmap: page_alloc and page_free of mm/pmap.c on the array vis *)
(* that init_boot_pt fills.                                                *)
(*                                                                         *)
(* page_alloc tests and sets bits with the int expression 1 << j, j going  *)
(* up to 63.  Bit 31 of an int is its sign: widened to 64 bits, 1 << 31    *)
(* has bits 31 to 63 set.  Shifts by more than 31 are undefined; a build   *)
(* yields 1 << (j % 32), as the shift instruction does, or the intended    *)
(* bit.  page_free shifts a 64-bit 1.                                      *)
(***************************************************************************)
EXTENDS Integers

CONSTANTS
  NWORD,      \* words of vis (4096)
  WORD, INT,  \* bits of a word (64) and of an int (32)
  Reserved    \* the pages init_boot_pt marks

Word == 0 .. NWORD - 1
Bit  == 0 .. WORD - 1
Page == Word \X Bit

ASSUME PageAllocAssumption ==
  /\ NWORD \in Nat
  /\ WORD \in Nat /\ INT \in 1 .. WORD
  /\ Reserved \subseteq Page

VARIABLES
  vis,     \* the bits set in each word
  wide,    \* the shifts of 32 or more that this build gets as intended
  holders  \* history: how often each page is handed out and not given back

vars == <<vis, wide, holders>>

TypeOK ==
  /\ vis \in [Word -> SUBSET Bit]
  /\ wide \subseteq INT .. WORD - 1
  /\ holders \in [Page -> Nat]

(* init_boot_pt: the pages below init_end, the image and the peripherals. *)
Init ==
  /\ vis = [i \in Word |-> {j \in Bit : <<i, j>> \in Reserved}]
  /\ wide \in SUBSET (INT .. WORD - 1)
  /\ holders = [p \in Page |-> IF p \in Reserved THEN 1 ELSE 0]

(* Mutant: -1 << j. *)
IntShiftAllOnes(j) == j .. WORD - 1

(* The bits of the expression 1 << j once it is widened. *)
IntShift(j) == IF j = INT - 1 THEN INT - 1 .. WORD - 1 ELSE {j}

Mask(j) == IF j < INT THEN IntShift(j) ELSE IF j \in wide THEN {j} ELSE IntShift(j % INT)

(* The test page_alloc makes of bit j of word i. *)
Fits(i, j) == vis[i] # Bit /\ vis[i] \cap Mask(j) = {}

(* Word i and bit j are the first that pass the test. *)
First(i, j) ==
  /\ Fits(i, j)
  /\ \A b \in Bit : b < j => ~ Fits(i, b)
  /\ \A w \in Word, b \in Bit : w < i => ~ Fits(w, b)

(* Mutant: the bit is not set. *)
page_alloc_unmarked(i, j) ==
  /\ First(i, j)
  /\ holders' = [holders EXCEPT ![<<i, j>>] = @ + 1]
  /\ UNCHANGED <<vis, wide>>

page_alloc(i, j) ==
  /\ First(i, j)
  /\ vis' = [vis EXCEPT ![i] = @ \union Mask(j)]
  /\ holders' = [holders EXCEPT ![<<i, j>>] = @ + 1]
  /\ UNCHANGED wide

(* page_alloc returns -1. *)
NoFit == \A i \in Word, j \in Bit : ~ Fits(i, j)

page_alloc_fails == NoFit /\ UNCHANGED vars

(* page_free, called when the last reference to a page is gone (Pmap,      *)
(* GivenBackOnce).                                                         *)
page_free(p) ==
  /\ p \notin Reserved /\ holders[p] > 0
  /\ vis' = [vis EXCEPT ![p[1]] = @ \ {p[2]}]
  /\ holders' = [holders EXCEPT ![p] = @ - 1]
  /\ UNCHANGED wide

Next ==
  \/ \E i \in Word, j \in Bit : page_alloc(i, j)
  \/ page_alloc_fails
  \/ \E p \in Page : page_free(p)

Spec == Init /\ [][Next]_vars

-----------------------------------------------------------------------------
(* Properties *)

(***************************************************************************)
(* No page is handed out twice, or out of the image: the bitmap with its   *)
(* odd masks still implements the abstract allocator.                      *)
(***************************************************************************)
Abs == INSTANCE PageAllocator WITH Page <- Page, Reserved <- Reserved, holders <- holders

NoDoubleAlloc == Abs!Spec

(***************************************************************************)
(* page_alloc returns -1 only when every page of the first half of a word, *)
(* bit 31 excepted, is in use: 31 of the 64 pages of a word are never lost.*)
(***************************************************************************)
LowServed == NoFit => \A p \in Word \X (0 .. INT - 2) : holders[p] > 0

(***************************************************************************)
(* pmap.c:240 reports a failure of page_alloc as "no free page": there is  *)
(* no page left that nobody owns.                                          *)
(***************************************************************************)
FailsOnlyWhenFull == NoFit => \A p \in Page : holders[p] > 0
=============================================================================
