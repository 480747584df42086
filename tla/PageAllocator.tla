---------------------------- MODULE PageAllocator ----------------------------
(***************************************************************************)
(* What the page allocator of mm/pmap.c promises and what it asks of its   *)
(* callers: a page that is handed out is in nobody's hands, and only a     *)
(* page in somebody's hands is given back, once.  PageAlloc, the bitmap,   *)
(* keeps the promise; Pmap, the page tables, keeps to the rules.           *)
(***************************************************************************)
CONSTANTS
  Page,      \* physical pages
  Reserved   \* pages that are never given back: the image, the peripherals

VARIABLE holders   \* how many callers have each page

Init == holders = [p \in Page |-> IF p \in Reserved THEN 1 ELSE 0]

Alloc(p) == holders[p] = 0 /\ holders' = [holders EXCEPT ![p] = 1]

Free(p) == p \notin Reserved /\ holders[p] = 1 /\ holders' = [holders EXCEPT ![p] = 0]

Next == \E p \in Page : Alloc(p) \/ Free(p)

Spec == Init /\ [][Next]_holders
=============================================================================
