------------------------------ MODULE MCSched ------------------------------
(* Instances of Sched for the model checker. *)
EXTENDS Sched

CONSTANTS idle, syscon, user1, user2, lock, disk

(* Two threads share a lock, one of them also waits for the disk.          *)
MCUses == {<<syscon, lock>>, <<user1, lock>>, <<user1, disk>>}

(* Two threads that take a lock again and again.                           *)
MCLockUses == {<<syscon, lock>>, <<user1, lock>>}

(* The console makes one of them lower or higher than the others.          *)
MCGiven == {<<user1, 0>>, <<user1, 2>>}

=============================================================================
