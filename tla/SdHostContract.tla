--------------------------- MODULE SdHostContract ---------------------------
(***************************************************************************)
(* What sd_rw.v promises sd_card.v once the card has been identified: one  *)
(* order at a time, each ended by one done that means that the sector      *)
(* ordered has been read into the buffer or written to the card.           *)
(***************************************************************************)
CONSTANTS Sectors, Ops, None

VARIABLES
  order,  \* what sd_card.v asks for: None, or what to do with which sector
  st,     \* "ident", then "ready" or "busy" (rbusy) or "done" (rdone)
  moved   \* with done: the sector and direction it speaks for

vars == <<order, st, moved>>

Orders == Ops \X Sectors

Init == order = None /\ st = "ident" /\ moved = None

\* sd_card.v raises rint or wint and holds it up to rdone
Order == /\ order = None /\ order' \in Orders
         /\ UNCHANGED <<st, moved>>

Identified == st = "ident" /\ st' = "ready" /\ UNCHANGED <<order, moved>>

Begin == st = "ready" /\ order # None /\ st' = "busy" /\ UNCHANGED <<order, moved>>

End == st = "busy" /\ st' = "done" /\ moved' = order /\ UNCHANGED order

Back == st = "done" /\ st' = "ready" /\ order' = None /\ moved' = None

Next == Order \/ Identified \/ Begin \/ End \/ Back

Spec == Init /\ [][Next]_vars
FairSpec == Spec /\ WF_vars(Identified) /\ WF_vars(Begin) /\ WF_vars(End) /\ WF_vars(Back)
=============================================================================
