---------------------------- MODULE MCPageAlloc ----------------------------
(* An instance of PageAlloc: three words of eight bits, an int of four. *)
EXTENDS PageAlloc

(* Page 0 and the start of the image; the last page is a peripheral. *)
MCReserved == {<<0, 0>>, <<0, 1>>, <<2, 7>>}
=============================================================================
