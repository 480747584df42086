--------------------------- MODULE PageAllocProofs ---------------------------
(***************************************************************************)
(* Proofs about PageAlloc for any number of words and any widths: the      *)
(* bitmap implements PageAllocator, and the low bits are not lost.         *)
(***************************************************************************)
EXTENDS PageAlloc, TLAPS

(***************************************************************************)
(* The inductive invariant: a page somebody has is marked; below the sign  *)
(* bit nothing else is; nobody shares a page.                              *)
(***************************************************************************)
Marked == \A i \in Word, j \in Bit : holders[<<i, j>>] > 0 => j \in vis[i]

LowExact == \A i \in Word, j \in Bit : j < INT - 1 /\ j \in vis[i] => holders[<<i, j>>] > 0

OneHolder == \A p \in Page : holders[p] \in {0, 1}

Inv == TypeOK /\ Marked /\ LowExact /\ OneHolder

(* The first bit that passes the test is itself in the mask, and below the *)
(* sign bit the mask has no other.                                         *)
LEMMA FirstMask ==
  ASSUME TypeOK, NEW i \in Word, NEW j \in Bit, First(i, j)
  PROVE  /\ Mask(j) \subseteq Bit
         /\ j \in Mask(j)
         /\ \A b \in Mask(j) : b < INT - 1 => b = j
<1> USE PageAllocAssumption
<1>1. WORD \in Nat /\ INT \in Nat /\ INT >= 1 /\ INT <= WORD /\ j \in Nat /\ j < WORD
  BY DEF Bit
<1>2. CASE j < INT
  BY <1>1, <1>2 DEF Mask, IntShift, Bit
<1>3. CASE j >= INT /\ j \in wide
  BY <1>1, <1>3 DEF Mask, Bit
<1>4. CASE j >= INT /\ j \notin wide
  <2> DEFINE m == j % INT
  <2>1. m \in Nat /\ m < INT /\ m < j /\ m \in Bit
    BY <1>1, <1>4 DEF Bit
  <2>2. Mask(j) = IntShift(m)
    BY <1>1, <1>4 DEF Mask
  <2> HIDE DEF m
  <2>3. Mask(m) = IntShift(m)
    BY <2>1 DEF Mask
  <2>4. FALSE
    BY <2>1, <2>2, <2>3 DEF First, Fits
  <2> QED BY <2>4
<1> QED BY <1>1, <1>2, <1>3, <1>4

(* The bitmap init_boot_pt fills marks the reserved pages. *)
LEMMA InitInv == Init => Inv
<1> SUFFICES ASSUME Init PROVE Inv
  OBVIOUS
<1>1. \A i \in Word, j \in Bit : <<i, j>> \in Page
  BY DEF Page
<1> QED BY <1>1, PageAllocAssumption DEF Init, Inv, TypeOK, Marked, LowExact, OneHolder

(* page_alloc takes a page that nobody has and marks it. *)
LEMMA AllocInv ==
  ASSUME Inv, NEW i \in Word, NEW j \in Bit, page_alloc(i, j)
  PROVE  Inv' /\ Abs!Alloc(<<i, j>>)
<1> DEFINE p == <<i, j>>
<1>1. /\ Mask(j) \subseteq Bit
      /\ j \in Mask(j)
      /\ \A b \in Mask(j) : b < INT - 1 => b = j
  BY FirstMask DEF Inv, page_alloc
<1>2. /\ vis' = [vis EXCEPT ![i] = vis[i] \union Mask(j)]
      /\ holders' = [holders EXCEPT ![p] = @ + 1]
      /\ UNCHANGED wide
  BY DEF page_alloc
<1>3. vis \in [Word -> SUBSET Bit] /\ holders \in [Page -> Nat] /\ p \in Page
  BY DEF Inv, TypeOK, Page
<1>4. holders[p] = 0
  <2>1. j \notin vis[i]
    BY <1>1 DEF page_alloc, First, Fits
  <2> QED BY <1>3, <2>1 DEF Inv, Marked
<1>5. holders' = [holders EXCEPT ![p] = 1]
  BY <1>2, <1>3, <1>4
<1>6. \A w \in Word : vis'[w] = IF w = i THEN vis[i] \union Mask(j) ELSE vis[w]
  BY <1>2, <1>3
<1>7. \A w \in Word, b \in Bit :
        holders'[<<w, b>>] = IF w = i /\ b = j THEN 1 ELSE holders[<<w, b>>]
  BY <1>3, <1>5 DEF Page
<1>8. TypeOK'
  <2>1. vis' \in [Word -> SUBSET Bit]
    BY <1>1, <1>2, <1>3
  <2> QED BY <1>2, <1>3, <1>5, <2>1 DEF Inv, TypeOK
<1>9. Marked'
  BY <1>1, <1>6, <1>7 DEF Inv, Marked
<1>10. LowExact'
  BY <1>1, <1>6, <1>7 DEF Inv, LowExact
<1>11. OneHolder'
  BY <1>3, <1>5 DEF Inv, OneHolder
<1> QED BY <1>4, <1>5, <1>8, <1>9, <1>10, <1>11 DEF Inv, Abs!Alloc

(* page_free clears the bit of the page it is given and no other. *)
LEMMA FreeInv ==
  ASSUME Inv, NEW p \in Page, page_free(p)
  PROVE  Inv' /\ Abs!Free(p)
<1>1. PICK i \in Word, j \in Bit : p = <<i, j>>
  BY DEF Page
<1>2. /\ p \notin Reserved /\ holders[p] > 0
      /\ vis' = [vis EXCEPT ![i] = vis[i] \ {j}]
      /\ holders' = [holders EXCEPT ![p] = @ - 1]
      /\ UNCHANGED wide
  BY <1>1 DEF page_free
<1>3. vis \in [Word -> SUBSET Bit] /\ holders \in [Page -> Nat]
  BY DEF Inv, TypeOK
<1>4. holders[p] = 1
  BY <1>2 DEF Inv, OneHolder
<1>5. holders' = [holders EXCEPT ![p] = 0]
  BY <1>2, <1>3, <1>4
<1>6. \A w \in Word : vis'[w] = IF w = i THEN vis[i] \ {j} ELSE vis[w]
  BY <1>2, <1>3
<1>7. \A w \in Word, b \in Bit :
        holders'[<<w, b>>] = IF w = i /\ b = j THEN 0 ELSE holders[<<w, b>>]
  BY <1>1, <1>3, <1>5 DEF Page
<1>8. TypeOK'
  <2>1. vis' \in [Word -> SUBSET Bit]
    BY <1>2, <1>3
  <2> QED BY <1>2, <1>3, <1>5, <2>1 DEF Inv, TypeOK
<1>9. Marked'
  BY <1>6, <1>7 DEF Inv, Marked
<1>10. LowExact'
  BY <1>6, <1>7 DEF Inv, LowExact
<1>11. OneHolder'
  BY <1>3, <1>5 DEF Inv, OneHolder
<1> QED BY <1>2, <1>4, <1>5, <1>8, <1>9, <1>10, <1>11 DEF Inv, Abs!Free

(* A failing page_alloc changes nothing. *)
LEMMA KeptInv == Inv /\ UNCHANGED vars => Inv'
BY DEF Inv, TypeOK, Marked, LowExact, OneHolder, vars

(* Every step keeps the invariant. *)
LEMMA NextInv == Inv /\ [Next]_vars => Inv'
BY AllocInv, FreeInv, KeptInv DEF Next, page_alloc_fails

(* The inductive invariant of the bitmap holds of every reachable state. *)
THEOREM Invariant == Spec => []Inv
BY InitInv, NextInv, PTL DEF Spec

(***************************************************************************)
(* page_alloc never hands out a page twice: every step of the bitmap is a  *)
(* step of PageAllocator or leaves the holders as they are.                *)
(***************************************************************************)
THEOREM BitmapImplementsAllocator == Spec => NoDoubleAlloc
<1>1. Init => Abs!Init
  BY DEF Init, Abs!Init
<1>2. Inv /\ [Next]_vars => [Abs!Next]_holders
  <2> SUFFICES ASSUME Inv, [Next]_vars PROVE [Abs!Next]_holders
    OBVIOUS
  <2>1. ASSUME NEW i \in Word, NEW j \in Bit, page_alloc(i, j)
        PROVE  Abs!Next
    <3>1. <<i, j>> \in Page /\ Abs!Alloc(<<i, j>>)
      BY <2>1, AllocInv DEF Page
    <3> QED BY <3>1 DEF Abs!Next
  <2>2. ASSUME NEW p \in Page, page_free(p)
        PROVE  Abs!Next
    BY <2>2, FreeInv DEF Abs!Next
  <2>3. ASSUME UNCHANGED vars
        PROVE  UNCHANGED holders
    BY <2>3 DEF vars
  <2> QED BY <2>1, <2>2, <2>3 DEF Next, page_alloc_fails
<1> QED BY <1>1, <1>2, Invariant, PTL DEF Spec, NoDoubleAlloc, Abs!Spec

(***************************************************************************)
(* The sign extension of 1 << 31 loses pages, but none of the first 31 of  *)
(* a word: while one of those is free page_alloc does not fail.            *)
(***************************************************************************)
THEOREM LowPagesServed == Spec => []LowServed
<1>1. Inv => LowServed
  <2> SUFFICES ASSUME Inv, NoFit, NEW i \in Word, NEW j \in 0 .. INT - 2
               PROVE  holders[<<i, j>>] > 0
    BY DEF LowServed
  <2>1. j \in Bit /\ j < INT - 1 /\ j < INT
    BY PageAllocAssumption DEF Bit
  <2>2. Mask(j) = {j}
    BY <2>1 DEF Mask, IntShift
  <2>3. j \in vis[i]
    BY <2>1, <2>2 DEF NoFit, Fits
  <2> QED BY <2>1, <2>3 DEF Inv, LowExact
<1> QED BY <1>1, Invariant, PTL
=============================================================================
