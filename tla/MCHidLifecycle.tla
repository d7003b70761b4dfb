--------------------------- MODULE MCHidLifecycle ---------------------------
(* Instances of HidLifecycle for TLC. *)
EXTENDS HidLifecycle
=============================================================================
