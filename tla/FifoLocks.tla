----------------------------- MODULE FifoLocks -----------------------------
(***************************************************************************)
(* What the kernel's lock semaphores promise their callers: one owner at a *)
(* time, waiters served in the order they came, and no newcomer overtaking *)
(* them, because a release hands the lock to the first waiter.             *)
(***************************************************************************)
EXTENDS Sequences

CONSTANTS Threads, Locks, NoOwner

VARIABLES
  owner,   \* the thread that owns the lock, or NoOwner
  queue    \* the threads that asked for the lock, oldest first

vars == <<owner, queue>>

Init ==
  /\ owner = [l \in Locks |-> NoOwner]
  /\ queue = [l \in Locks |-> << >>]

Take(t, l) ==
  /\ owner[l] = NoOwner
  /\ owner' = [owner EXCEPT ![l] = t]
  /\ UNCHANGED queue

Wait(t, l) ==
  /\ owner[l] # NoOwner
  /\ queue' = [queue EXCEPT ![l] = Append(@, t)]
  /\ UNCHANGED owner

GiveBack(l) ==
  /\ owner[l] # NoOwner
  /\ queue[l] = << >>
  /\ owner' = [owner EXCEPT ![l] = NoOwner]
  /\ UNCHANGED queue

HandOver(l) ==
  /\ owner[l] # NoOwner
  /\ queue[l] # << >>
  /\ owner' = [owner EXCEPT ![l] = Head(queue[l])]
  /\ queue' = [queue EXCEPT ![l] = Tail(@)]

Next ==
  \E l \in Locks :
    \/ \E t \in Threads : Take(t, l) \/ Wait(t, l)
    \/ GiveBack(l)
    \/ HandOver(l)

Spec == Init /\ [][Next]_vars
=============================================================================
