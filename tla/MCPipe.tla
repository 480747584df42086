------------------------------- MODULE MCPipe -------------------------------
(***************************************************************************)
(* Instances of Pipe: who holds which end at the start.                    *)
(***************************************************************************)
EXTENDS Pipe

CONSTANTS p1, p2, p3

Holds(r, w) == [s \in Slot |-> IF s = 0 /\ r THEN "r" ELSE IF s = 1 /\ w THEN "w" ELSE NULL]

(* testpipe: the parent writes, the child reads. *)
MCPair == [p \in Proc |-> Holds(p = p2, p = p1)]
(* testpiperace: the parent holds both ends, the child the read end. *)
MCRace == [p \in Proc |-> IF p = p3 THEN Holds(FALSE, FALSE) ELSE Holds(TRUE, p = p1)]
=============================================================================
