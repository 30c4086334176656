------------------------------- MODULE MCDisk -------------------------------
(* The buffer cache over the disk driver for the model checker.  Blocks of *)
(* four sectors from sector 1 on a disk of three cylinders: the driver     *)
(* reads block 1 with two commands, and the last block is past the end.    *)
EXTENDS BufCache

(* Blocks 1 and 2 share a chain, and the other two do.                     *)
MCHash == [k \in {0, Dev} \X ({0} \cup Blks) |-> IF k[2] \in {1, 2} THEN 1 ELSE 0]

(* A page that held the heads at an earlier mount, when two blocks were on *)
(* a chain; and one of something else, where the first two heads follow    *)
(* each other and seem read and the last has a link out of the cache.      *)
MCHeadPages ==
  LET heads_of(nx, pv) == [flags |-> [x \in Bufs |-> IF x < 2 THEN 1 ELSE 0],
                           next |-> nx, prev |-> pv]
      none == [x \in Bufs |-> Null]
  IN {heads_of([none EXCEPT ![1] = 0], [none EXCEPT ![0] = 1]),
      heads_of([none EXCEPT ![0] = 1, ![1] = 0], [none EXCEPT ![2] = 1, ![3] = Wild])}

(* What the console's own commands ask the driver for: nothing.            *)
MCRequests == {<<2, 0>>}
=============================================================================
