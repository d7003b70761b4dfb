------------------------------ MODULE MCSdPath ------------------------------
(* Instances of SdPath for TLC. *)
EXTENDS SdPath

\* The menu is closed: the MCU uses the card for the core only.
NoAppOps == {}

\* Requests stay as they are until they are answered.
NoUpsets == {}
=============================================================================
