------------------------------- MODULE MCPmap -------------------------------
(***************************************************************************)
(* An instance of Pmap: a low page and two virtual pages, the second one   *)
(* under a level 3 table of its own.                                       *)
(***************************************************************************)
EXTENDS Pmap, TLC

CONSTANTS va0, va1, va2, t2, t3a, t3b, b0, b1

MCVA == {va0, va1, va2}
MCTable == {t2, t3a, t3b}
MCtab2 == [v \in MCVA |-> t2]
MCtab3 == [v \in MCVA |-> IF v = va2 THEN t3b ELSE t3a]
MCLowVA == {va0}
MClow == [v \in MCLowVA |-> b0]
(* b0: a low page; b1: the test page, counted but not marked. *)
MCbootRef == [p \in Page |-> IF p \in {b0, b1} THEN 1 ELSE 0]
MCbootUsed == {b0}
MCSymmetry == Permutations(Page \ {b0, b1}) \union Permutations(Env)
=============================================================================
