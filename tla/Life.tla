-------------------------------- MODULE Life --------------------------------
(***************************************************************************)
(* The two rings of thread.c, all threads (next, prev) and ready threads   *)
(* (next_ready, prev_ready), both headed by ready_threads, under the       *)
(* commands of the system console: sample, wait, run, tdel, tready and     *)
(* tready_del.  A command takes any address the user types; none of the    *)
(* routines looks whether the thread is where it takes it to be.  The      *)
(* console runs the commands, so it is cur_thread in each of them.         *)
(***************************************************************************)
EXTENDS Naturals, FiniteSets

CONSTANTS
  Tcbs,          \* the tcbs of thread_pool
  Idle, Syscon,  \* the two threads main() creates
  Null,
  MaxCommands    \* bound on the commands of a session

ASSUME LifeAssumption ==
  /\ {Idle, Syscon} \subseteq Tcbs /\ Idle # Syscon /\ Null \notin Tcbs
  /\ IsFiniteSet(Tcbs) /\ MaxCommands \in Nat

VARIABLES
  all, back,            \* next, prev
  ready, rback,         \* next_ready, prev_ready
  head,                 \* ready_threads
  st,                   \* "READY", "WAITING" or "FREE"
  counted,              \* ready_count
  off,                  \* threads tready_del took off the rings
  clean,                \* every command so far was for a thread it fits
  commands

rings == <<all, back, ready, rback, head>>
lvars == <<rings, st, counted, off, clean, commands>>

LInit ==
  LET other == [t \in Tcbs |-> IF t = Idle THEN Syscon ELSE IF t = Syscon THEN Idle ELSE Null]
  IN /\ all = other /\ back = other /\ ready = other /\ rback = other
     /\ head = Idle
     /\ st = [t \in Tcbs |-> IF t \in {Idle, Syscon} THEN "READY" ELSE "FREE"]
     /\ counted = 2 /\ off = {} /\ clean = TRUE /\ commands = 0

(* t goes in front of the head, which makes it the tail, of a ring.        *)
Behind(nx, t) == [nx EXCEPT ![t] = head, ![back[head]] = t]
BehindReady(nx, t) == [nx EXCEPT ![t] = head, ![rback[head]] = t]
Before(pv, t) == [pv EXCEPT ![t] = pv[head], ![head] = t]

LinkTail(t) ==
  /\ ready' = BehindReady(ready, t)
  /\ rback' = Before(rback, t)

(* enqueue_ready(): at the tail of both rings.                             *)
EnqueueReady(t) ==
  /\ all' = Behind(all, t) /\ back' = Before(back, t)
  /\ LinkTail(t)
  /\ UNCHANGED head

(* Neighbours are joined.  Of the two writes, the second may go to the     *)
(* place the first wrote only when both are the same field of t.           *)
UnlinkReady(t) ==
  /\ rback' = [rback EXCEPT ![ready[t]] = rback[t]]
  /\ ready' = [ready EXCEPT ![rback[t]] = ready[t]]

(* Mutant: the ready ring is forgotten.                                    *)
RemoveReadyHalf(t) ==
  /\ all' = [all EXCEPT ![back[t]] = all[t]]
  /\ back' = [back EXCEPT ![all[t]] = back[t]]
  /\ head' = IF head = t THEN all[t] ELSE head
  /\ UNCHANGED <<ready, rback>>

(* remove_ready(): off both rings, unless t is the only thread.  The new   *)
(* head is the next of all threads, ready or not.                          *)
RemoveReady(t) ==
  /\ all[t] # t
  /\ all' = [all EXCEPT ![back[t]] = all[t]]
  /\ back' = [back EXCEPT ![all[t]] = back[t]]
  /\ head' = IF head = t THEN all[t] ELSE head
  /\ UnlinkReady(t)

Listed(t) == st[t] # "FREE" /\ t \notin off

(* The console runs a command for an address that is a thread's.  (It goes *)
(* to sleep in kb_getch() only: module Console.)  The first command that   *)
(* does not fit ends clean, and what follows it is left out.               *)
Command(t, fits) ==
  /\ clean /\ st[Syscon] = "READY" /\ commands < MaxCommands
  /\ st[t] # "FREE"
  /\ commands' = commands + 1
  /\ clean' = fits

(* sample: create_thread(), with a tcb fresh from the pool and cleared.    *)
CreateSample(t) ==
  /\ clean /\ st[Syscon] = "READY" /\ commands < MaxCommands
  /\ st[t] = "FREE"
  /\ commands' = commands + 1
  /\ EnqueueReady(t)
  /\ st' = [st EXCEPT ![t] = "READY"]
  /\ counted' = counted + 1
  /\ UNCHANGED <<off, clean>>

(* wait: thread_sleep().  The head stays head.                             *)
Wait(t) ==
  /\ t # Syscon
  /\ Command(t, Listed(t) /\ (st[t] = "WAITING" \/ t # head))
  /\ \/ st[t] = "WAITING" /\ UNCHANGED <<rings, st, counted>>
     \/ /\ st[t] # "WAITING"
        /\ st' = [st EXCEPT ![t] = "WAITING"]
        /\ UnlinkReady(t)
        /\ counted' = counted - 1
        /\ UNCHANGED <<all, back, head>>
  /\ UNCHANGED off

(* run: thread_wakeup(), of a thread asleep or with a warning.             *)
Run(t) ==
  /\ Command(t, Listed(t))
  /\ \/ st[t] = "READY" /\ UNCHANGED <<rings, st, counted>>
     \/ /\ st[t] # "READY"
        /\ st' = [st EXCEPT ![t] = "READY"]
        /\ LinkTail(t)
        /\ counted' = counted + 1
        /\ UNCHANGED <<all, back, head>>
  /\ UNCHANGED off

(* thread_die() for the console itself; every other thread just goes.      *)
DeleteThread(t) ==
  /\ RemoveReady(t)
  /\ counted' = counted - 1
  /\ st' = [st EXCEPT ![t] = "FREE"]
  /\ off' = off \ {t}

ThreadRemoveReady(t) ==
  /\ RemoveReady(t)
  /\ off' = off \cup {t}
  /\ UNCHANGED <<st, counted>>

ThreadSetReady(t) ==
  /\ EnqueueReady(t)
  /\ off' = off \ {t}
  /\ UNCHANGED <<st, counted>>

(* To leave both rings a thread must be on both; the next of all threads   *)
(* must be ready if it is to be the new head.                              *)
MayLeave(t) == Listed(t) /\ st[t] = "READY" /\ (t = head => st[all[t]] = "READY")

Tdel(t) == Command(t, MayLeave(t)) /\ DeleteThread(t)
TreadyDel(t) == Command(t, MayLeave(t)) /\ ThreadRemoveReady(t)
Tready(t) == Command(t, t \in off) /\ ThreadSetReady(t)

LNext ==
  \E t \in Tcbs :
    CreateSample(t) \/ Wait(t) \/ Run(t) \/ Tdel(t) \/ TreadyDel(t) \/ Tready(t)

LSpec == LInit /\ [][LNext]_lvars
-----------------------------------------------------------------------------
(* A ring of S: nx and pv are inverse to each other within S, and the walk *)
(* from its head comes through all of S and back.                          *)
RingOf(nx, pv, h, S) ==
  LET Walk[n \in 0 .. Cardinality(S)] == IF n = 0 THEN h ELSE nx[Walk[n - 1]]
  IN /\ h \in S
     /\ \A t \in S : nx[t] \in S /\ pv[nx[t]] = t
     /\ {Walk[n] : n \in 0 .. Cardinality(S) - 1} = S

(* The commands, as long as each fits its thread, and whatever threads     *)
(* were made, put to sleep, taken off and deleted in between: "ts" lists   *)
(* all threads and schedule() sees those that are ready, from one head,    *)
(* and ready_count is right.                                               *)
RingsAgree ==
  clean =>
    LET listed == {t \in Tcbs : Listed(t)}
    IN /\ RingOf(all, back, head, listed)
       /\ RingOf(ready, rback, head, {t \in listed : st[t] = "READY"})
       /\ counted = Cardinality({t \in Tcbs : st[t] = "READY"})
=============================================================================
