----------------------------- MODULE MCFsBlocks -----------------------------
(***************************************************************************)
(* Instances of FsBlocks: a root directory of one block with one file.     *)
(***************************************************************************)
EXTENDS FsBlocks

CONSTANTS n1, n2

(* A file of one block, and free blocks. *)
MCReserved == {0, 1, 2}
MCwords0 == [f \in File |-> [x \in Word |->
               IF f = ROOT /\ x = 0 THEN 3 ELSE IF f = 0 /\ x = 0 THEN 4 ELSE 0]]
MCsize0 == [f \in File |-> IF f \in {ROOT, 0} THEN 1 ELSE 0]
MCname0 == [e \in Entry |-> IF e = 0 THEN n1 ELSE NULL]
MCfree0 == 5 .. NBLOCK - 1

(* An old page: a file of two blocks, with b for its block numbers. *)
OldPage(b) == [words |-> [x \in Word |-> IF x \in {0, NDIRECT + 1} THEN b ELSE 0],
               size |-> 2, name |-> n2]
MCOlds == {OldPage(NBLOCK)}    \* data that is no block number
MCOldsUsed == {OldPage(4)}     \* the number of a block in use

(* A file of three blocks, and a full disk. *)
MCwords3 == [f \in File |-> [x \in Word |->
               IF f = ROOT /\ x = 0 THEN 3 ELSE IF f = 0 /\ x < 3 THEN 4 + x ELSE 0]]
MCsize3 == [f \in File |-> IF f = ROOT THEN 1 ELSE IF f = 0 THEN 3 ELSE 0]
=============================================================================
