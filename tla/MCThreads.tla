----------------------------- MODULE MCThreads -----------------------------
(* Instances of Threads for the model checker. *)
EXTENDS Threads, TLC

CONSTANTS idle, syscon, user1, user2, s_lock, freeq_lock, ide_busy

MCThreadSet == {idle, syscon, user1, user2}

(* Every thread but the idle one takes every lock; two wait for the disk.  *)
MCUses ==
  (({syscon, user1, user2}) \X {s_lock, freeq_lock})
    \cup ({user1, user2} \X {ide_busy})

(* During start-up the idle thread runs create_bootproc(), which allocates *)
(* pages and pool elements as the console and the boot processes do.       *)
MCBootUses == {idle, syscon, user1} \X {s_lock, freeq_lock}

(* alloc_pool() holds the pool's s_lock when it needs a page (freeq_lock). *)
MCNest == {<<s_lock, freeq_lock>>}

MCSymmetry == Permutations({user1, user2})
=============================================================================
