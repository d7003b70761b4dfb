------------------------------ MODULE MCSdHost ------------------------------
(* Instances of SdHost for TLC. *)
EXTENDS SdHost

\* the one fault that alone makes the host misaddress the card, and the rest
Ocr == {"ocr"}
AllButOcr == FaultNames \ Ocr
\* each of these alone can leave an order unanswered for ever
Endless == {"late", "lostwr", "rca"}
=============================================================================
