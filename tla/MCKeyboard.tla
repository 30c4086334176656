----------------------------- MODULE MCKeyboard -----------------------------
(* A ring of four places and keys of two kinds: enough to tell the order   *)
(* of keys, to wrap both pointers and to overflow the ring.                *)
EXTENDS Keyboard, TLC

MCSymmetry == Permutations(Keys)
=============================================================================
