----------------------------- MODULE MCIdeDrive -----------------------------
(* Instances of IdeDrive for TLC. *)
EXTENDS IdeDrive

\* three sectors cross a cylinder in the first, a head and a cylinder in the
\* second
Small == [spt |-> 2, heads |-> 1]
Tall  == [spt |-> 1, heads |-> 2]
GeoSmall == {Small}
GeoTall == {Tall}
GeoBoth == {Small, Tall}
=============================================================================
