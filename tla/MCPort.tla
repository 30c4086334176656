------------------------------- MODULE MCPort -------------------------------
(* Two slots and three clients, so that the free list runs out; two        *)
(* servers, so that messages are taken while an earlier one is replied to. *)
(* A slot is used again by the client that found none.                     *)
EXTENDS Port
=============================================================================
