----------------------------- MODULE MCEnvSched -----------------------------
(* Small instances of EnvSched: the priorities of the boot environments. *)
EXTENDS EnvSched

MCBoot == <<1, 2>>

(* One waits, for whoever has slot 1; any other can come to take the slot. *)
FirstWaits == {<<0, 1>>}
=============================================================================
