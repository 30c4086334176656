----------------------------- MODULE Typeahead -----------------------------
(***************************************************************************)
(* What the keyboard buffer promises: keys are read once each, in the      *)
(* order they were typed; one key too many discards everything typed ahead *)
(* and itself.                                                             *)
(***************************************************************************)
EXTENDS Naturals, Sequences

CONSTANTS Keys, Size

VARIABLES
  typed,  \* typed and not yet read, oldest first
  read    \* the last key read

Init == typed = << >> /\ read \notin Keys

Type(k) ==
  /\ typed' = IF Len(typed) < Size THEN Append(typed, k) ELSE << >>
  /\ UNCHANGED read

Read ==
  /\ typed # << >>
  /\ read' = Head(typed) /\ typed' = Tail(typed)

Next == Read \/ \E k \in Keys : Type(k)

Spec == Init /\ [][Next]_<<typed, read>>
=============================================================================
