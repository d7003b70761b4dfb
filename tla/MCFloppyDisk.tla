---------------------------- MODULE MCFloppyDisk ----------------------------
(* Instances of FloppyDisk for TLC. *)
EXTENDS FloppyDisk

Nowhere == {}
First == {<<0, 0, 0>>}
=============================================================================
