------------------------------- MODULE MCFork -------------------------------
EXTENDS Fork, TLC

(* What a free page holds does not matter: page_alloc clears it.           *)
View ==
  LET free == Free IN
  <<st, pte, [g \in Page |-> IF g \in free THEN 0 ELSE word[g]], hdl, uhdl, pc, loc, flt, view,
    nohdl>>

(* The processes but the first are interchangeable. *)
Symm == Permutations(Procs \ {Root})
=============================================================================
