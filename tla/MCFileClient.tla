---------------------------- MODULE MCFileClient ----------------------------
EXTENDS FileClient, TLC

(* One file of one block, a second path without a file. *)
MCNamed == [f \in File |-> IF f = 1 THEN "a" ELSE NULL]
MCBlk0 == [f \in File |-> [i \in Index |-> IF f = 1 /\ i = 0 THEN 1 ELSE None]]
(* One file of three blocks. *)
MCBlk3 == [f \in File |-> [i \in Index |-> IF f = 1 THEN i + 1 ELSE None]]
=============================================================================
