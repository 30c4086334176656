----------------------------- MODULE MCConsole -----------------------------
(* Three parts of the console that share no state: the line editor over    *)
(* the keyboard, the commands on threads, and those on the file system.    *)
(* A behaviour is of one of them.                                          *)
EXTENDS Console, Life, Session

(* Devices 0 and 1 hold file systems, the second one with corrupted        *)
(* descriptors; 2 holds something else, 3 is not there.                    *)
MCHolds == [d \in 0 .. 2 |-> CASE d = 0 -> "ext2" [] d = 1 -> "corrupt" [] OTHER -> "other"]

VARIABLE part

MCInit == CInit /\ LInit /\ SInit /\ part \in {"keys", "commands", "files"}

MCNext ==
  /\ UNCHANGED part
  /\ \/ part = "keys" /\ CNext /\ UNCHANGED <<lvars, svars>>
     \/ part = "commands" /\ LNext /\ UNCHANGED <<cvars, svars>>
     \/ part = "files" /\ SNext /\ UNCHANGED <<cvars, lvars>>

MCSpec == MCInit /\ [][MCNext]_<<cvars, lvars, svars, part>>
=============================================================================
