------------------------------ MODULE MCPools ------------------------------
(* Instances of Pools for the model checker: a page holds one chunk, so    *)
(* that every chunk has a pool of its own, or two, so that a pool may be   *)
(* used in part.                                                           *)
EXTENDS Pools, TLC

MCOne == [m \in Masters |-> 1]
MCTwo == [m \in Masters |-> 2]

MCSymmetry == Permutations(Threads)
=============================================================================
