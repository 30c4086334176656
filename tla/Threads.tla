------------------------------ MODULE Threads ------------------------------
(***************************************************************************)
(* Threads, the ready ring and semaphores of the TINOS kernel:             *)
(* kern/thread.c, kern/sema.c and the selection loop of kern/sched.c.      *)
(*                                                                         *)
(* TINOS runs on one processor.  The code between splhi_save() and splx()  *)
(* cannot be interrupted, so each such section is one step here; wherever  *)
(* interrupts are on, the clock may call schedule() and an interrupt       *)
(* handler may V a semaphore.  The ready queue is a circular doubly linked *)
(* list threaded through the tcbs; its pointers are modelled one by one,   *)
(* because neither link() nor unlink() looks at the list before it writes. *)
(***************************************************************************)
EXTENDS Integers, Sequences, FiniteSets

CONSTANTS
  Threads,  \* the tcbs of thread_pool
  Idle,     \* the idle thread: the first one created, so ready_threads
  Syscon,   \* the system console thread: the second one created
  Locks,    \* semaphores left at sema_init's count of 1 and used as locks
  Events,   \* semaphores set to 0 by sema_setval and posted by somebody else
  Uses,     \* <<t, s>>: the code thread t runs may call sema_p on s
  Nest,     \* <<a, b>>: lock b may be taken while lock a is held
  MaxPost   \* bound on the count of an event

Semas == Locks \cup Events

NoOwner == "none"   \* the owner of a free lock

ASSUME ThreadsAssumption ==
  /\ IsFiniteSet(Threads)
  /\ Idle \in Threads
  /\ Syscon \in Threads
  /\ Syscon # Idle
  /\ Locks \cap Events = {}
  /\ Uses \subseteq Threads \X Semas
  /\ Nest \subseteq Locks \X Locks
  /\ MaxPost \in Nat
  /\ NoOwner \notin Threads

VARIABLES
  next_ready,   \* tcb.next_ready
  prev_ready,   \* tcb.prev_ready
  state,        \* tcb.state
  ready_count,  \* threads the kernel believes are linked
  cur_thread,   \* the running thread
  at,           \* "run", or "p_sched": in sema_p between splx() and schedule()
  count,        \* semaphore_t.count
  wait_q,       \* semaphore_t.wait_q, the waiters in queue order
  hold,         \* the locks between whose sema_p and sema_v a thread is
  spinning      \* schedule() is in its loop, interrupts off, and never leaves

ring  == <<next_ready, prev_ready, state, ready_count>>
semas == <<count, wait_q>>
vars  == <<next_ready, prev_ready, state, ready_count, cur_thread, at,
           count, wait_q, hold, spinning>>

ReadySet == {t \in Threads : state[t] = "READY"}

-----------------------------------------------------------------------------
(* main() creates the idle and the console thread and executes the first;  *)
(* a tcb that was never linked has null pointers, which nobody follows.    *)
Init ==
  /\ next_ready = [t \in Threads |-> IF t = Idle THEN Syscon ELSE Idle]
  /\ prev_ready = [t \in Threads |-> IF t = Idle THEN Syscon ELSE Idle]
  /\ state = [t \in Threads |-> IF t \in {Idle, Syscon} THEN "READY" ELSE "FREE"]
  /\ ready_count = 2
  /\ cur_thread = Idle
  /\ at = [t \in Threads |-> "run"]
  /\ count = [s \in Semas |-> IF s \in Locks THEN 1 ELSE 0]
  /\ wait_q = [s \in Semas |-> << >>]
  /\ hold = [t \in Threads |-> {}]
  /\ spinning = FALSE

(* Mutant: a linear list, whose last element has no successor.             *)
LinkNotCircular(t) ==
  /\ next_ready' = [next_ready EXCEPT ![t] = NoOwner, ![prev_ready[Idle]] = t]
  /\ prev_ready' = [prev_ready EXCEPT ![t] = prev_ready[Idle], ![Idle] = t]

(* Mutant: the old tail is not made to point to t.                         *)
LinkOneWay(t) ==
  /\ next_ready' = [next_ready EXCEPT ![t] = Idle]
  /\ prev_ready' = [prev_ready EXCEPT ![t] = prev_ready[Idle], ![Idle] = t]

(* link(): t becomes the tail of the ring.  The writes are in C's order:   *)
(* t's own pointers, the tail's next_ready, the head's prev_ready.         *)
Link(t) ==
  /\ next_ready' = [next_ready EXCEPT ![t] = Idle, ![prev_ready[Idle]] = t]
  /\ prev_ready' = [prev_ready EXCEPT ![t] = prev_ready[Idle], ![Idle] = t]

(* Mutant: the successor keeps pointing back to t.                         *)
UnlinkOneWay(t) ==
  /\ next_ready' = [next_ready EXCEPT ![prev_ready[t]] = next_ready[t]]
  /\ UNCHANGED prev_ready

(* unlink(): t's neighbours are joined; t keeps its stale pointers.        *)
Unlink(t) ==
  /\ prev_ready' = [prev_ready EXCEPT ![next_ready[t]] = prev_ready[t]]
  /\ next_ready' = [next_ready EXCEPT ![prev_ready[t]] = next_ready[t]]

(* Mutant: ready_count is not counted down.                                *)
ThreadSleepUncounted(t) ==
  \/ state[t] = "WAITING" /\ UNCHANGED ring
  \/ /\ state[t] # "WAITING"
     /\ state' = [state EXCEPT ![t] = "WAITING"]
     /\ Unlink(t)
     /\ UNCHANGED ready_count

(* thread_sleep() warns and returns when the thread sleeps already.        *)
ThreadSleep(t) ==
  \/ /\ state[t] = "WAITING"
     /\ UNCHANGED ring
  \/ /\ state[t] # "WAITING"
     /\ state' = [state EXCEPT ![t] = "WAITING"]
     /\ Unlink(t)
     /\ ready_count' = ready_count - 1

(* thread_wakeup() warns and returns when the thread is up already.        *)
ThreadWakeup(t) ==
  \/ /\ state[t] = "READY"
     /\ UNCHANGED ring
  \/ /\ state[t] # "READY"
     /\ state' = [state EXCEPT ![t] = "READY"]
     /\ Link(t)
     /\ ready_count' = ready_count + 1

(* The tcbs schedule()'s loop comes to when it follows next_ready from the *)
(* head: the least set that holds the head's successor and is closed.  The *)
(* loop ends when it comes back to the head.                               *)
Scanned ==
  {u \in Threads :
     \A S \in SUBSET Threads :
       (next_ready[Idle] \in S /\ \A v \in S : next_ready[v] \in S) => u \in S}

(* schedule() switches to a thread the loop saw, to the head when it saw   *)
(* none.  Which one is a matter of priorities, left to module Sched.       *)
Schedule ==
  \/ /\ Idle \in Scanned
     /\ cur_thread' \in IF Scanned = {Idle} THEN {Idle} ELSE Scanned \ {Idle}
     /\ UNCHANGED spinning
  \/ /\ Idle \notin Scanned
     /\ spinning' = TRUE
     /\ UNCHANGED cur_thread

Running(t) == ~spinning /\ cur_thread = t /\ at[t] = "run"

-----------------------------------------------------------------------------
(* create_thread(): the last section, which links the new tcb at the tail; *)
(* the pool and page allocations before it are sema_p and sema_v calls.    *)
CreateThread(t) ==
  /\ ~spinning /\ at[cur_thread] = "run"
  /\ state[t] = "FREE"
  /\ state' = [state EXCEPT ![t] = "READY"]
  /\ Link(t)
  /\ ready_count' = ready_count + 1
  /\ UNCHANGED <<cur_thread, at, count, wait_q, hold, spinning>>

(* Callers take a lock they do not hold, and nest as Nest says.            *)
MayP(t, s) ==
  /\ Running(t)
  /\ <<t, s>> \in Uses
  /\ s \notin hold[t]
  /\ s \in Locks => \A l \in hold[t] : <<l, s>> \in Nest

(* Mutant: the test is off by one.                                         *)
SemaPTakeLate(t, s) ==
  /\ MayP(t, s)
  /\ count[s] >= 0
  /\ count' = [count EXCEPT ![s] = @ - 1]
  /\ hold' = [hold EXCEPT ![t] = @ \cup ({s} \cap Locks)]
  /\ UNCHANGED <<ring, cur_thread, at, wait_q, spinning>>

(* sema_p(), the optimistic case.                                          *)
SemaPTake(t, s) ==
  /\ MayP(t, s)
  /\ count[s] - 1 >= 0
  /\ count' = [count EXCEPT ![s] = @ - 1]
  /\ hold' = [hold EXCEPT ![t] = @ \cup ({s} \cap Locks)]
  /\ UNCHANGED <<ring, cur_thread, at, wait_q, spinning>>

(* Mutant: the test is off by one the other way.                           *)
SemaPBlockEarly(t, s) ==
  /\ MayP(t, s)
  /\ count[s] - 1 <= 0
  /\ count' = [count EXCEPT ![s] = @ - 1]
  /\ wait_q' = [wait_q EXCEPT ![s] = Append(@, t)]
  /\ ThreadSleep(t)
  /\ at' = [at EXCEPT ![t] = "p_sched"]
  /\ UNCHANGED <<cur_thread, hold, spinning>>

(* sema_p(), up to splx(): queue behind the others and go to sleep.        *)
SemaPBlock(t, s) ==
  /\ MayP(t, s)
  /\ count[s] - 1 < 0
  /\ count' = [count EXCEPT ![s] = @ - 1]
  /\ wait_q' = [wait_q EXCEPT ![s] = Append(@, t)]
  /\ ThreadSleep(t)
  /\ at' = [at EXCEPT ![t] = "p_sched"]
  /\ UNCHANGED <<cur_thread, hold, spinning>>

(* Mutant: sema_p() returns without calling schedule().                    *)
SemaPNoSchedule(t) ==
  /\ ~spinning /\ cur_thread = t /\ at[t] = "p_sched"
  /\ at' = [at EXCEPT ![t] = "run"]
  /\ UNCHANGED <<ring, cur_thread, count, wait_q, hold, spinning>>

(* sema_p(): the call of schedule() after splx().                          *)
SemaPSchedule(t) ==
  /\ ~spinning /\ cur_thread = t /\ at[t] = "p_sched"
  /\ at' = [at EXCEPT ![t] = "run"]
  /\ Schedule
  /\ UNCHANGED <<ring, count, wait_q, hold>>

(* Mutant: the waiter is woken and left on wait_q.                         *)
SemaVPeek(s) ==
  /\ count' = [count EXCEPT ![s] = @ + 1]
  /\ UNCHANGED wait_q
  /\ \/ wait_q[s] = << >> /\ UNCHANGED ring
     \/ wait_q[s] # << >> /\ ThreadWakeup(Head(wait_q[s]))

(* Mutant: nobody is woken when the count comes back to 0.                 *)
SemaVStrict(s) ==
  /\ count' = [count EXCEPT ![s] = @ + 1]
  /\ \/ count[s] + 1 >= 0 /\ UNCHANGED <<ring, wait_q>>
     \/ /\ count[s] + 1 < 0
        /\ wait_q' = [wait_q EXCEPT ![s] = Tail(@)]
        /\ ThreadWakeup(Head(wait_q[s]))

(* Mutant: the waiter that came last is woken first.                       *)
SemaVLifo(s) ==
  LET q == wait_q[s] IN
  /\ count' = [count EXCEPT ![s] = @ + 1]
  /\ \/ q = << >> /\ UNCHANGED <<ring, wait_q>>
     \/ /\ q # << >>
        /\ wait_q' = [wait_q EXCEPT ![s] = SubSeq(q, 1, Len(q) - 1)]
        /\ ThreadWakeup(q[Len(q)])

(* sema_v(): count up and, if anybody waits, wake the first in the queue.  *)
(* The lock, if s is one, passes to that waiter with the wake-up.          *)
SemaV(s) ==
  /\ count' = [count EXCEPT ![s] = @ + 1]
  /\ \/ /\ wait_q[s] = << >>
        /\ UNCHANGED <<ring, wait_q>>
     \/ /\ wait_q[s] # << >>
        /\ wait_q' = [wait_q EXCEPT ![s] = Tail(@)]
        /\ ThreadWakeup(Head(wait_q[s]))

Woken(s) == IF wait_q[s] = << >> THEN {} ELSE {Head(wait_q[s])}

(* A thread gives a lock back.                                             *)
Release(t, l) ==
  /\ Running(t)
  /\ l \in hold[t]
  /\ SemaV(l)
  /\ hold' = [u \in Threads |->
                IF u \in Woken(l) THEN hold[u] \cup {l}
                ELSE IF u = t THEN hold[u] \ {l} ELSE hold[u]]
  /\ UNCHANGED <<cur_thread, at, spinning>>

(* An interrupt handler posts an event, in whatever thread it interrupts.  *)
Post(e) ==
  /\ ~spinning
  /\ count[e] < MaxPost
  /\ SemaV(e)
  /\ UNCHANGED <<cur_thread, at, hold, spinning>>

(* clock() calls schedule() in whatever thread it interrupts.              *)
ClockSchedule ==
  /\ ~spinning
  /\ Schedule
  /\ UNCHANGED <<ring, at, count, wait_q, hold>>

Next ==
  \/ \E t \in Threads : CreateThread(t)
  \/ \E t \in Threads, s \in Semas : SemaPTake(t, s) \/ SemaPBlock(t, s)
  \/ \E t \in Threads : SemaPSchedule(t)
  \/ \E t \in Threads, l \in Locks : Release(t, l)
  \/ \E e \in Events : Post(e)
  \/ ClockSchedule

Spec == Init /\ [][Next]_vars
-----------------------------------------------------------------------------
(* Types; threads only wait inside sema_p or on their way out of it.       *)
TypeOK ==
  /\ next_ready \in [Threads -> Threads]
  /\ prev_ready \in [Threads -> Threads]
  /\ state \in [Threads -> {"FREE", "READY", "WAITING"}]
  /\ ready_count \in Int
  /\ cur_thread \in Threads
  /\ at \in [Threads -> {"run", "p_sched"}]
  /\ count \in [Semas -> Int]
  /\ wait_q \in [Semas -> Seq(Threads)]
  /\ hold \in [Threads -> SUBSET Locks]
  /\ spinning \in BOOLEAN

(* thread.c:108: "There is always one thread ready to run (idle thread)    *)
(* linked on this list."  link(), unlink() and schedule() rely on it.      *)
IdleAlwaysReady == state[Idle] = "READY"

(* The condition the comment above needs of the code the threads run: the  *)
(* idle thread never calls sema_p on a semaphore that may make it wait.    *)
IdleNeverWaits == \A s \in Semas : <<Idle, s>> \notin Uses

(* The pointers of linked threads are mutually inverse and stay within the *)
(* linked threads: no unlink() or link() left a neighbour behind.          *)
RingLinked ==
  \A t \in ReadySet :
    /\ next_ready[t] \in ReadySet /\ prev_ready[next_ready[t]] = t
    /\ prev_ready[t] \in ReadySet /\ next_ready[prev_ready[t]] = t

(* The loop of schedule() ends and looks at every thread that is ready and *)
(* at no other: no ready thread is lost to the scheduler, no sleeping one  *)
(* can be picked (sched.c:184-190 tests no state).                         *)
ScanExact == ~spinning /\ Scanned = ReadySet

(* ready_count, which shortens the quantum (sched.c:200), counts the ready *)
(* threads.                                                                *)
ReadyCounted == ready_count = Cardinality(ReadySet)

(* A thread that went to sleep in sema_p runs nothing past the call of     *)
(* schedule() before it is woken, though the clock may schedule it away    *)
(* and a V may come in the window after splx(i) (sema.c:93-95).            *)
NoBlockedRun == at[cur_thread] = "run" => state[cur_thread] = "READY"

(* The threads asleep are those on some wait_q; nobody is queued twice.    *)
Waiters(s) == {wait_q[s][i] : i \in DOMAIN wait_q[s]}
SleepersQueued ==
  /\ \A t \in Threads :
       state[t] = "WAITING" <=> \E s \in Semas : t \in Waiters(s)
  /\ \A s, r \in Semas :
       \A i \in DOMAIN wait_q[s], j \in DOMAIN wait_q[r] :
         wait_q[s][i] = wait_q[r][j] => s = r /\ i = j

(* A negative count is the number of waiters, and nobody waits on a        *)
(* semaphore whose count is not negative (sema.c:80, sema.c:107).          *)
CountIsQueue ==
  \A s \in Semas : Len(wait_q[s]) = IF count[s] < 0 THEN -count[s] ELSE 0

(* No two threads are between sema_p and sema_v of the same lock.          *)
MutualExclusion ==
  \A t, u \in Threads : t # u => hold[t] \cap hold[u] = {}

(* The ready ring is whole at every step: its pointers are inverse, the    *)
(* loop of schedule() sees exactly the ready threads, and they are counted *)
(* (thread.c:112-169, sched.c:183-190).                                    *)
RingSound == TypeOK /\ RingLinked /\ ScanExact /\ ReadyCounted

(* Who sleeps, the queue he sleeps on and the semaphore's count agree:     *)
(* nobody sleeps without somebody to wake him, and no wake-up goes to a    *)
(* thread that is not asleep (sema.c:71-120).                              *)
QueuesSound == SleepersQueued /\ CountIsQueue

(* The semaphores used as locks implement first-come first-served locks:   *)
(* a V with waiters hands the lock to the oldest, so nobody overtakes.     *)
Owner(l) ==
  IF \E t \in Threads : l \in hold[t]
    THEN CHOOSE t \in Threads : l \in hold[t] ELSE NoOwner

Fifo == INSTANCE FifoLocks WITH
          owner <- [l \in Locks |-> Owner(l)],
          queue <- [l \in Locks |-> wait_q[l]]

ImplementsFifoLocks == Fifo!Spec
=============================================================================
