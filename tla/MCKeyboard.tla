----------------------------- MODULE MCKeyboard -----------------------------
(* Instances of Keyboard for TLC: the two Shifts share a code, and their   *)
(* row with two keys of the keypad, kp and kp2; the right Shift, rs, is a  *)
(* modifier too, or else the keyboard has it in a slot.                    *)
EXTENDS Keyboard

Shift == <<"lshift">>
Shifts == <<"lshift", "rs">>
None0 == <<>>
Scan == [lshift |-> 69, rs |-> 69, kp |-> 21, kp2 |-> 37]
CodeOf == [k \in Keys |-> Scan[k]]
=============================================================================
