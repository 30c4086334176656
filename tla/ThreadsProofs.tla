--------------------------- MODULE ThreadsProofs ---------------------------
(***************************************************************************)
(* Proofs about module Threads, for any set of threads, locks and events.  *)
(* The ring is proved intact, and the scan of schedule() exact, under      *)
(* IdleNeverWaits, the condition the comment of link() states.             *)
(***************************************************************************)
EXTENDS Threads, FiniteSetTheorems, TLAPS

(* Following next_ready from the head comes to every ready thread: a set   *)
(* that holds the head and is closed under next_ready holds them all.      *)
Connected ==
  \A S \in SUBSET Threads :
    (Idle \in S /\ \A t \in S : next_ready[t] \in S) => ReadySet \subseteq S

RingInv ==
  /\ TypeOK
  /\ IdleAlwaysReady
  /\ RingLinked
  /\ Connected
  /\ ~spinning
  /\ NoBlockedRun

-----------------------------------------------------------------------------
(* The initial state satisfies the invariant: two threads in the ring.     *)
LEMMA InitRingInv == Init => RingInv
  <1> SUFFICES ASSUME Init PROVE RingInv
    OBVIOUS
  <1> USE ThreadsAssumption
  <1>1. TypeOK
    <2>1. wait_q \in [Semas -> Seq(Threads)]
      BY DEF Init
    <2>2. count \in [Semas -> Int] /\ hold \in [Threads -> SUBSET Locks]
      BY DEF Init
    <2>3. /\ next_ready \in [Threads -> Threads]
          /\ prev_ready \in [Threads -> Threads]
          /\ state \in [Threads -> {"FREE", "READY", "WAITING"}]
          /\ at \in [Threads -> {"run", "p_sched"}]
      BY DEF Init
    <2>4. ready_count \in Int /\ cur_thread \in Threads
      BY DEF Init
    <2>5. spinning \in BOOLEAN
      BY Zenon DEF Init
    <2> QED
      BY <2>1, <2>2, <2>3, <2>4, <2>5, Zenon DEF TypeOK
  <1>2. ReadySet = {Idle, Syscon}
    BY DEF Init, ReadySet
  <1>3. IdleAlwaysReady /\ ~spinning /\ NoBlockedRun
    BY DEF Init, IdleAlwaysReady, NoBlockedRun
  <1>4. RingLinked
    BY <1>2 DEF Init, RingLinked
  <1>5. Connected
    BY <1>2 DEF Init, Connected
  <1> QED
    BY <1>1, <1>3, <1>4, <1>5 DEF RingInv

(* link() of a thread that is not in the ring keeps the ring one cycle.    *)
LEMMA LinkKeepsRing ==
  ASSUME RingInv, NEW t \in Threads, state[t] # "READY",
         Link(t), state' = [state EXCEPT ![t] = "READY"]
  PROVE  /\ next_ready' \in [Threads -> Threads]
         /\ prev_ready' \in [Threads -> Threads]
         /\ state' \in [Threads -> {"FREE", "READY", "WAITING"}]
         /\ ReadySet' = ReadySet \cup {t}
         /\ IdleAlwaysReady' /\ RingLinked' /\ Connected'
  <1> USE ThreadsAssumption
  <1> DEFINE p == prev_ready[Idle]
  <1>1. /\ next_ready \in [Threads -> Threads]
        /\ prev_ready \in [Threads -> Threads]
        /\ state \in [Threads -> {"FREE", "READY", "WAITING"}]
    BY DEF RingInv, TypeOK
  <1>2. /\ Idle \in ReadySet /\ p \in ReadySet /\ next_ready[p] = Idle
        /\ t \notin ReadySet /\ ReadySet \subseteq Threads
    BY DEF RingInv, IdleAlwaysReady, RingLinked, ReadySet
  <1>3. /\ next_ready' = [next_ready EXCEPT ![t] = Idle, ![p] = t]
        /\ prev_ready' = [prev_ready EXCEPT ![t] = p, ![Idle] = t]
    BY DEF Link
  <1>4. /\ next_ready' \in [Threads -> Threads]
        /\ prev_ready' \in [Threads -> Threads]
        /\ state' \in [Threads -> {"FREE", "READY", "WAITING"}]
    BY <1>1, <1>2, <1>3
  <1>5. ReadySet' = ReadySet \cup {t}
    BY <1>1 DEF ReadySet
  <1>6. IdleAlwaysReady'
    BY <1>1, <1>2 DEF IdleAlwaysReady, ReadySet
  <1>7. RingLinked'
    BY <1>1, <1>2, <1>3, <1>5 DEF RingInv, RingLinked
  <1>8. Connected'
    <2> SUFFICES ASSUME NEW S \in SUBSET Threads,
                        Idle \in S, \A v \in S : next_ready'[v] \in S
                 PROVE  ReadySet' \subseteq S
      BY DEF Connected
    <2>1. \A v \in S \cap ReadySet : next_ready[v] \in S \cap ReadySet
      BY <1>1, <1>2, <1>3 DEF RingInv, RingLinked
    <2>2. ReadySet \subseteq S \cap ReadySet
      BY <1>2, <2>1 DEF RingInv, Connected
    <2>3. t \in S
      BY <1>1, <1>2, <1>3, <2>2
    <2> QED
      BY <1>5, <2>2, <2>3
  <1> QED
    BY <1>4, <1>5, <1>6, <1>7, <1>8

(* unlink() of a linked thread that is not the head keeps the ring one     *)
(* cycle, whatever stale pointers that thread is left with.                *)
LEMMA UnlinkKeepsRing ==
  ASSUME RingInv, NEW t \in Threads, state[t] = "READY", t # Idle,
         Unlink(t), state' = [state EXCEPT ![t] = "WAITING"]
  PROVE  /\ next_ready' \in [Threads -> Threads]
         /\ prev_ready' \in [Threads -> Threads]
         /\ state' \in [Threads -> {"FREE", "READY", "WAITING"}]
         /\ ReadySet' = ReadySet \ {t}
         /\ IdleAlwaysReady' /\ RingLinked' /\ Connected'
  <1> USE ThreadsAssumption
  <1> DEFINE n == next_ready[t]
             p == prev_ready[t]
  <1>1. /\ next_ready \in [Threads -> Threads]
        /\ prev_ready \in [Threads -> Threads]
        /\ state \in [Threads -> {"FREE", "READY", "WAITING"}]
    BY DEF RingInv, TypeOK
  <1>2. /\ Idle \in ReadySet /\ t \in ReadySet /\ ReadySet \subseteq Threads
        /\ n \in ReadySet /\ prev_ready[n] = t
        /\ p \in ReadySet /\ next_ready[p] = t
    BY DEF RingInv, IdleAlwaysReady, RingLinked, ReadySet
  <1>3. /\ prev_ready' = [prev_ready EXCEPT ![n] = p]
        /\ next_ready' = [next_ready EXCEPT ![p] = n]
    BY DEF Unlink
  <1>4. /\ next_ready' \in [Threads -> Threads]
        /\ prev_ready' \in [Threads -> Threads]
        /\ state' \in [Threads -> {"FREE", "READY", "WAITING"}]
    BY <1>1, <1>2, <1>3
  <1>5. ReadySet' = ReadySet \ {t}
    BY <1>1 DEF ReadySet
  <1>6. IdleAlwaysReady'
    BY <1>1, <1>2 DEF IdleAlwaysReady, ReadySet
  <1>7. n # t /\ p # t
    <2>1. ASSUME n = t PROVE FALSE
      (* A thread linked to itself alone would cut the head off.           *)
      <3> DEFINE R == ReadySet \ {t}
      <3>1. \A v \in R : next_ready[v] \in R
        BY <1>2, <2>1 DEF RingInv, RingLinked
      <3>2. ReadySet \subseteq R
        BY <1>2, <3>1 DEF RingInv, Connected
      <3> QED
        BY <1>2, <3>2
    <2> QED
      BY <1>2, <2>1
  <1>8. RingLinked'
    BY <1>1, <1>2, <1>3, <1>5, <1>7 DEF RingInv, RingLinked
  <1>9. Connected'
    <2> SUFFICES ASSUME NEW S \in SUBSET Threads,
                        Idle \in S, \A v \in S : next_ready'[v] \in S
                 PROVE  ReadySet' \subseteq S
      BY DEF Connected
    <2>1. CASE p \in S
      <3> DEFINE R == (S \cap ReadySet) \cup {t}
      <3>1. n \in S
        BY <1>1, <1>2, <1>3, <2>1
      <3>2. \A v \in R : next_ready[v] \in R
        BY <1>1, <1>2, <1>3, <3>1 DEF RingInv, RingLinked
      <3>3. R \in SUBSET Threads /\ Idle \in R
        BY <1>2
      <3>4. ReadySet \subseteq R
        BY <3>2, <3>3 DEF RingInv, Connected
      <3> QED
        BY <1>5, <3>4
    <2>2. CASE p \notin S
      <3> DEFINE R == (S \cap ReadySet) \ {t}
      <3>1. \A v \in R : next_ready[v] \in R
        BY <1>1, <1>2, <1>3, <2>2 DEF RingInv, RingLinked
      <3>2. R \in SUBSET Threads /\ Idle \in R
        BY <1>2
      <3>3. ReadySet \subseteq R
        BY <3>1, <3>2 DEF RingInv, Connected
      <3> QED
        BY <1>2, <3>3
    <2> QED
      BY <2>1, <2>2
  <1> QED
    BY <1>4, <1>5, <1>6, <1>8, <1>9

(* When the ring is intact the loop of schedule() sees the ready threads.  *)
LEMMA IntactRingScanned == RingInv => Scanned = ReadySet
  <1> SUFFICES ASSUME RingInv PROVE Scanned = ReadySet
    OBVIOUS
  <1> USE ThreadsAssumption
  <1>1. /\ next_ready \in [Threads -> Threads] /\ ReadySet \subseteq Threads
        /\ prev_ready[Idle] \in ReadySet
        /\ Idle \in ReadySet /\ next_ready[prev_ready[Idle]] = Idle
        /\ \A v \in ReadySet : next_ready[v] \in ReadySet
    BY DEF RingInv, TypeOK, IdleAlwaysReady, RingLinked, ReadySet
  <1>2. Scanned \subseteq ReadySet
    BY <1>1 DEF Scanned
  <1>3. ASSUME NEW S \in SUBSET Threads,
               next_ready[Idle] \in S, \A v \in S : next_ready[v] \in S
        PROVE  ReadySet \subseteq S
    <2> DEFINE R == S \cup {Idle}
    <2>0. R \in SUBSET Threads /\ \A v \in R : next_ready[v] \in R
      BY <1>3
    <2>1. ReadySet \subseteq R
      BY <2>0 DEF RingInv, Connected
    <2>2. Idle \in S
      BY <1>1, <1>3, <2>1
    <2> QED
      BY <2>1, <2>2
  <1>4. ReadySet \subseteq Scanned
    BY <1>1, <1>3 DEF Scanned
  <1> QED
    BY <1>2, <1>4

-----------------------------------------------------------------------------
(* What the parts of a step change, for the step lemma below.              *)
RingPart ==
  /\ next_ready \in [Threads -> Threads]
  /\ prev_ready \in [Threads -> Threads]
  /\ state \in [Threads -> {"FREE", "READY", "WAITING"}]
  /\ ready_count \in Int
  /\ IdleAlwaysReady
  /\ RingLinked
  /\ Connected

ThreadPart ==
  /\ cur_thread \in Threads
  /\ at \in [Threads -> {"run", "p_sched"}]
  /\ hold \in [Threads -> SUBSET Locks]
  /\ spinning = FALSE
  /\ NoBlockedRun

SemaPart ==
  /\ count \in [Semas -> Int]
  /\ wait_q \in [Semas -> Seq(Threads)]

(* The three parts make up the invariant.                                  *)
LEMMA PartsOfRingInv == RingInv <=> RingPart /\ ThreadPart /\ SemaPart
  <1>1. RingInv => RingPart /\ SemaPart
    BY Zenon DEF RingInv, TypeOK, RingPart, SemaPart
  <1>2. RingInv => ThreadPart
    BY Zenon DEF RingInv, TypeOK, ThreadPart
  <1>3. RingPart /\ ThreadPart /\ SemaPart => RingInv
    BY Zenon DEF RingInv, TypeOK, RingPart, ThreadPart, SemaPart
  <1> QED
    BY <1>1, <1>2, <1>3

(* A wake-up keeps the ring, and makes no ready thread sleep.              *)
LEMMA WakeupKeepsRing ==
  ASSUME RingInv, NEW t \in Threads, ThreadWakeup(t)
  PROVE  /\ RingPart'
         /\ \A u \in Threads : state[u] = "READY" => state'[u] = "READY"
  <1> USE PartsOfRingInv
  <1>1. CASE state[t] = "READY" /\ UNCHANGED ring
    <2>1. RingPart /\ UNCHANGED ring
      BY <1>1
    <2> QED
      BY <2>1 DEF RingPart, ring, IdleAlwaysReady, RingLinked, Connected, ReadySet
  <1>2. CASE /\ state[t] # "READY"
             /\ state' = [state EXCEPT ![t] = "READY"]
             /\ Link(t)
             /\ ready_count' = ready_count + 1
    <2>1. /\ next_ready' \in [Threads -> Threads]
          /\ prev_ready' \in [Threads -> Threads]
          /\ state' \in [Threads -> {"FREE", "READY", "WAITING"}]
          /\ IdleAlwaysReady' /\ RingLinked' /\ Connected'
      BY <1>2, LinkKeepsRing
    <2>2. ready_count' \in Int /\ state \in [Threads -> {"FREE", "READY", "WAITING"}]
      BY <1>2 DEF RingPart
    <2>3. \A u \in Threads : state[u] = "READY" => state'[u] = "READY"
      BY <1>2, <2>2
    <2> QED
      BY <2>1, <2>2, <2>3 DEF RingPart
  <1> QED
    BY <1>1, <1>2 DEF ThreadWakeup

(* So does a V, whether it finds a waiter or not.                          *)
LEMMA SemaVKeepsRing ==
  ASSUME RingInv, NEW s \in Semas, SemaV(s)
  PROVE  /\ RingPart' /\ SemaPart'
         /\ \A u \in Threads : state[u] = "READY" => state'[u] = "READY"
  <1> USE PartsOfRingInv
  <1>0. /\ count \in [Semas -> Int] /\ wait_q \in [Semas -> Seq(Threads)]
        /\ count' = [count EXCEPT ![s] = @ + 1]
    BY DEF SemaPart, SemaV
  <1>1. CASE wait_q[s] = << >> /\ UNCHANGED <<ring, wait_q>>
    <2>1. RingPart /\ UNCHANGED ring
      BY <1>1
    <2>2. RingPart' /\ state' = state
      BY <2>1 DEF RingPart, ring, IdleAlwaysReady, RingLinked, Connected, ReadySet
    <2> QED
      BY <1>0, <1>1, <2>2 DEF SemaPart
  <1>2. CASE /\ wait_q[s] # << >>
             /\ wait_q' = [wait_q EXCEPT ![s] = Tail(@)]
             /\ ThreadWakeup(Head(wait_q[s]))
    <2>1. Head(wait_q[s]) \in Threads /\ Tail(wait_q[s]) \in Seq(Threads)
      BY <1>0, <1>2
    <2>2. SemaPart'
      BY <1>0, <1>2, <2>1 DEF SemaPart
    <2> QED
      BY <1>2, <2>1, <2>2, WakeupKeepsRing
  <1> QED
    BY <1>1, <1>2 DEF SemaV

(* schedule() on an intact ring ends, with a ready thread current.         *)
LEMMA SchedulePicksReady ==
  ASSUME RingInv, Schedule
  PROVE  cur_thread' \in ReadySet /\ spinning' = FALSE
  <1>1. Scanned = ReadySet /\ Idle \in ReadySet /\ spinning = FALSE
    BY IntactRingScanned, ThreadsAssumption, PartsOfRingInv
       DEF RingInv, IdleAlwaysReady, ReadySet, ThreadPart
  <1>2. /\ cur_thread' \in IF Scanned = {Idle} THEN {Idle} ELSE Scanned \ {Idle}
        /\ UNCHANGED spinning
    BY <1>1, Zenon DEF Schedule
  <1>3. cur_thread' \in ReadySet
    BY <1>1, <1>2
  <1>4. spinning' = FALSE
    BY <1>1, <1>2, Zenon
  <1> QED
    BY <1>3, <1>4

(* Every step keeps the invariant, if the idle thread never waits.         *)
LEMMA StepRingInv ==
  ASSUME IdleNeverWaits, RingInv, [Next]_vars
  PROVE  RingInv'
  <1> USE PartsOfRingInv
  <1>0. RingPart /\ ThreadPart /\ SemaPart
    OBVIOUS
  <1>9. RingPart' /\ ThreadPart' /\ SemaPart' => RingInv'
    BY Zenon DEF RingInv, TypeOK, RingPart, ThreadPart, SemaPart
  <1>1. ASSUME NEW t \in Threads, CreateThread(t)
        PROVE  RingInv'
    <2>1. RingPart'
      <3>1. /\ state[t] # "READY" /\ Link(t)
            /\ state' = [state EXCEPT ![t] = "READY"]
            /\ ready_count' = ready_count + 1
        BY <1>1 DEF CreateThread
      <3>2. ready_count' \in Int
        BY <1>0, <3>1 DEF RingPart
      <3> QED
        BY <3>1, <3>2, LinkKeepsRing DEF RingPart
    <2>2. \A u \in Threads : state[u] = "READY" => state'[u] = "READY"
      BY <1>0, <1>1 DEF CreateThread, RingPart
    <2>3. ThreadPart'
      BY <1>0, <1>1, <2>2 DEF CreateThread, ThreadPart, NoBlockedRun
    <2>4. SemaPart'
      BY <1>0, <1>1 DEF CreateThread, SemaPart
    <2> QED
      BY <1>9, <2>1, <2>3, <2>4
  <1>2. ASSUME NEW t \in Threads, NEW s \in Semas, SemaPTake(t, s)
        PROVE  RingInv'
    <2>1. RingPart'
      BY <1>0, <1>2
         DEF SemaPTake, RingPart, ring, IdleAlwaysReady, RingLinked, Connected, ReadySet
    <2>2. hold' \in [Threads -> SUBSET Locks] /\ UNCHANGED <<state, at, cur_thread>>
      BY <1>0, <1>2 DEF SemaPTake, ThreadPart, ring
    <2>3. spinning' = FALSE
      BY <1>0, <1>2, Zenon DEF SemaPTake, ThreadPart
    <2>4. ThreadPart'
      BY <1>0, <2>2, <2>3 DEF ThreadPart, NoBlockedRun
    <2>5. SemaPart'
      BY <1>0, <1>2 DEF SemaPTake, SemaPart
    <2> QED
      BY <1>9, <2>1, <2>4, <2>5
  <1>3. ASSUME NEW t \in Threads, NEW s \in Semas, SemaPBlock(t, s)
        PROVE  RingInv'
    <2>1. cur_thread = t /\ at[t] = "run" /\ t # Idle /\ spinning' = FALSE
      BY <1>0, <1>3 DEF SemaPBlock, MayP, Running, IdleNeverWaits, ThreadPart
    <2>2. state[t] = "READY"
      BY <1>0, <2>1 DEF ThreadPart, NoBlockedRun
    <2>3. /\ state' = [state EXCEPT ![t] = "WAITING"]
          /\ Unlink(t)
          /\ ready_count' = ready_count - 1
      BY <1>3, <2>2 DEF SemaPBlock, ThreadSleep
    <2>4. RingPart'
      <3>1. ready_count' \in Int
        BY <1>0, <2>3 DEF RingPart
      <3> QED
        BY <2>1, <2>2, <2>3, <3>1, UnlinkKeepsRing DEF RingPart
    <2>5. ThreadPart'
      BY <1>0, <1>3, <2>1 DEF SemaPBlock, ThreadPart, NoBlockedRun
    <2>6. SemaPart'
      BY <1>0, <1>3 DEF SemaPBlock, SemaPart
    <2> QED
      BY <1>9, <2>4, <2>5, <2>6
  <1>4. ASSUME NEW t \in Threads, SemaPSchedule(t)
        PROVE  RingInv'
    <2>1. RingPart' /\ SemaPart' /\ state' = state
      BY <1>0, <1>4 DEF SemaPSchedule, RingPart, SemaPart, ring,
            IdleAlwaysReady, RingLinked, Connected, ReadySet
    <2>2. cur_thread' \in ReadySet /\ spinning' = FALSE
      BY <1>4, SchedulePicksReady DEF SemaPSchedule
    <2>3. ThreadPart'
      BY <1>0, <1>4, <2>1, <2>2
         DEF SemaPSchedule, ThreadPart, NoBlockedRun, ReadySet
    <2> QED
      BY <1>9, <2>1, <2>3
  <1>5. ASSUME NEW t \in Threads, NEW l \in Locks, Release(t, l)
        PROVE  RingInv'
    <2>1. /\ RingPart' /\ SemaPart'
          /\ \A u \in Threads : state[u] = "READY" => state'[u] = "READY"
      BY <1>5, SemaVKeepsRing DEF Release, Semas
    <2>2. hold' \in [Threads -> SUBSET Locks]
      BY <1>0, <1>5 DEF Release, ThreadPart
    <2>3. spinning' = FALSE
      BY <1>0, <1>5, Zenon DEF Release, ThreadPart
    <2>4. ThreadPart'
      BY <1>0, <1>5, <2>1, <2>2, <2>3 DEF Release, ThreadPart, NoBlockedRun
    <2> QED
      BY <1>9, <2>1, <2>4
  <1>6. ASSUME NEW e \in Events, Post(e)
        PROVE  RingInv'
    <2>1. /\ RingPart' /\ SemaPart'
          /\ \A u \in Threads : state[u] = "READY" => state'[u] = "READY"
      BY <1>6, SemaVKeepsRing DEF Post, Semas
    <2>2. spinning' = FALSE
      BY <1>0, <1>6, Zenon DEF Post, ThreadPart
    <2>3. ThreadPart'
      BY <1>0, <1>6, <2>1, <2>2 DEF Post, ThreadPart, NoBlockedRun
    <2> QED
      BY <1>9, <2>1, <2>3
  <1>7. ASSUME ClockSchedule
        PROVE  RingInv'
    <2>1. RingPart' /\ SemaPart' /\ state' = state
      BY <1>0, <1>7 DEF ClockSchedule, RingPart, SemaPart, ring,
            IdleAlwaysReady, RingLinked, Connected, ReadySet
    <2>2. cur_thread' \in ReadySet /\ spinning' = FALSE
      BY <1>7, SchedulePicksReady DEF ClockSchedule
    <2>3. ThreadPart'
      BY <1>0, <1>7, <2>1, <2>2
         DEF ClockSchedule, ThreadPart, NoBlockedRun, ReadySet
    <2> QED
      BY <1>9, <2>1, <2>3
  <1>8. ASSUME UNCHANGED vars
        PROVE  RingInv'
    <2>1. RingPart' /\ SemaPart'
      BY <1>0, <1>8 DEF vars, RingPart, SemaPart,
            IdleAlwaysReady, RingLinked, Connected, ReadySet
    <2>2. spinning' = FALSE
      BY <1>0, <1>8, Zenon DEF vars, ThreadPart
    <2>3. ThreadPart'
      BY <1>0, <1>8, <2>2 DEF vars, ThreadPart, NoBlockedRun
    <2> QED
      BY <1>9, <2>1, <2>3
  <1> QED
    BY <1>1, <1>2, <1>3, <1>4, <1>5, <1>6, <1>7, <1>8 DEF Next

-----------------------------------------------------------------------------
(* The ring invariant holds of every state the kernel reaches.             *)
THEOREM RingInvariant ==
  ASSUME IdleNeverWaits
  PROVE  Spec => []RingInv
  <1>1. Init => RingInv
    BY InitRingInv
  <1>2. RingInv /\ [Next]_vars => RingInv'
    BY StepRingInv
  <1> QED
    BY <1>1, <1>2, PTL DEF Spec

(* Every variable keeps its type.                                          *)
THEOREM TypeCorrect ==
  ASSUME IdleNeverWaits
  PROVE  Spec => []TypeOK
  <1>1. RingInv => TypeOK
    BY DEF RingInv
  <1> QED
    BY <1>1, RingInvariant, PTL

(* The ring's pointers stay mutually inverse (thread.c:112-128).           *)
THEOREM RingStaysLinked ==
  ASSUME IdleNeverWaits
  PROVE  Spec => []RingLinked
  <1>1. RingInv => RingLinked
    BY DEF RingInv
  <1> QED
    BY <1>1, RingInvariant, PTL

(* schedule()'s loop ends, and sees the ready threads and no others.       *)
THEOREM ScanStaysExact ==
  ASSUME IdleNeverWaits
  PROVE  Spec => []ScanExact
  <1>1. RingInv => ScanExact
    BY IntactRingScanned DEF RingInv, ScanExact
  <1> QED
    BY <1>1, RingInvariant, PTL

(* A thread asleep in sema_p does not run on.                              *)
THEOREM BlockedThreadsStop ==
  ASSUME IdleNeverWaits
  PROVE  Spec => []NoBlockedRun
  <1>1. RingInv => NoBlockedRun
    BY DEF RingInv
  <1> QED
    BY <1>1, RingInvariant, PTL
-----------------------------------------------------------------------------
(* A thread that is ready is on no queue: queueing it and putting it to    *)
(* sleep keeps the queues and the sleepers in step.                        *)
LEMMA BlockKeepsQueues ==
  ASSUME RingPart, SemaPart, SleepersQueued,
         NEW t \in Threads, NEW s \in Semas, state[t] = "READY",
         wait_q' = [wait_q EXCEPT ![s] = Append(@, t)],
         state' = [state EXCEPT ![t] = "WAITING"]
  PROVE  SleepersQueued'
  <1> DEFINE q == wait_q[s]
  <1>1. /\ wait_q \in [Semas -> Seq(Threads)] /\ q \in Seq(Threads)
        /\ state \in [Threads -> {"FREE", "READY", "WAITING"}]
    BY DEF RingPart, SemaPart
  <1>2. \A r \in Semas : t \notin Waiters(r)
    BY DEF SleepersQueued
  <1>3. /\ DOMAIN wait_q'[s] = (DOMAIN q) \cup {Len(q) + 1}
        /\ Len(q) + 1 \notin DOMAIN q
        /\ \A i \in DOMAIN q : wait_q'[s][i] = q[i]
        /\ wait_q'[s][Len(q) + 1] = t
    BY <1>1
  <1>4. \A r \in Semas : r # s => wait_q'[r] = wait_q[r]
    BY <1>1
  <1>5. /\ Waiters(s)' = Waiters(s) \cup {t}
        /\ \A r \in Semas : r # s => Waiters(r)' = Waiters(r)
    BY <1>3, <1>4 DEF Waiters
  <1>6. \A u \in Threads :
          state'[u] = "WAITING" <=> \E r \in Semas : u \in Waiters(r)'
    <2> SUFFICES ASSUME NEW u \in Threads
                 PROVE  state'[u] = "WAITING" <=> \E r \in Semas : u \in Waiters(r)'
      OBVIOUS
    <2>1. state'[u] = "WAITING" <=> (u = t \/ state[u] = "WAITING")
      BY <1>1
    <2>2. (\E r \in Semas : u \in Waiters(r)')
            <=> (u = t \/ \E r \in Semas : u \in Waiters(r))
      BY <1>5
    <2> QED
      BY <2>1, <2>2 DEF SleepersQueued
  <1>7. ASSUME NEW a \in Semas, NEW b \in Semas,
               NEW i \in DOMAIN wait_q'[a], NEW j \in DOMAIN wait_q'[b],
               wait_q'[a][i] = wait_q'[b][j]
        PROVE  a = b /\ i = j
    <2>1. \A r \in Semas : \A k \in DOMAIN wait_q'[r] :
            \/ k \in DOMAIN wait_q[r] /\ wait_q'[r][k] = wait_q[r][k]
            \/ r = s /\ k = Len(q) + 1 /\ wait_q'[r][k] = t
      BY <1>3, <1>4
    <2>2. \A r \in Semas : \A k \in DOMAIN wait_q[r] : wait_q[r][k] # t
      BY <1>2 DEF Waiters
    <2> QED
      BY <1>7, <2>1, <2>2 DEF SleepersQueued
  <1> QED
    BY <1>6, <1>7 DEF SleepersQueued

(* Dequeueing the first waiter and waking it keeps them in step too.       *)
LEMMA WakeKeepsQueues ==
  ASSUME RingPart, SemaPart, SleepersQueued,
         NEW s \in Semas, wait_q[s] # << >>,
         wait_q' = [wait_q EXCEPT ![s] = Tail(@)],
         state' = [state EXCEPT ![Head(wait_q[s])] = "READY"]
  PROVE  SleepersQueued'
  <1> DEFINE q == wait_q[s]
             t == Head(q)
  <1>1. /\ wait_q \in [Semas -> Seq(Threads)] /\ q \in Seq(Threads)
        /\ state \in [Threads -> {"FREE", "READY", "WAITING"}]
        /\ t \in Threads /\ 1 \in DOMAIN q /\ q[1] = t
    BY DEF RingPart, SemaPart
  <1>2. /\ \A i \in DOMAIN wait_q'[s] :
             i + 1 \in DOMAIN q /\ i + 1 # 1 /\ wait_q'[s][i] = q[i + 1] /\ i \in Int
        /\ \A k \in DOMAIN q :
             k # 1 => k - 1 \in DOMAIN wait_q'[s] /\ wait_q'[s][k - 1] = q[k]
    BY <1>1
  <1>3. \A r \in Semas : r # s => wait_q'[r] = wait_q[r]
    BY <1>1
  <1>4. \A r \in Semas : t \in Waiters(r) => r = s
    BY <1>1 DEF SleepersQueued, Waiters
  <1>5. \A i \in DOMAIN q : q[i] = t => i = 1
    BY <1>1 DEF SleepersQueued
  <1>6. Waiters(s)' = Waiters(s) \ {t}
    <2>1. \A u \in Waiters(s)' : u \in Waiters(s) \ {t}
      BY <1>2, <1>5 DEF Waiters
    <2>2. ASSUME NEW u \in Waiters(s) \ {t}
          PROVE  u \in Waiters(s)'
      <3>1. PICK k \in DOMAIN q : q[k] = u
        BY DEF Waiters
      <3>2. k # 1
        BY <1>1, <3>1
      <3>3. k - 1 \in DOMAIN wait_q'[s] /\ wait_q'[s][k - 1] = u
        BY <1>2, <3>1, <3>2
      <3> QED
        BY <3>3 DEF Waiters
    <2> QED
      BY <2>1, <2>2
  <1>7. \A r \in Semas : r # s => Waiters(r)' = Waiters(r)
    BY <1>3 DEF Waiters
  <1>8. \A u \in Threads :
          state'[u] = "WAITING" <=> \E r \in Semas : u \in Waiters(r)'
    <2> SUFFICES ASSUME NEW u \in Threads
                 PROVE  state'[u] = "WAITING" <=> \E r \in Semas : u \in Waiters(r)'
      OBVIOUS
    <2>1. state'[u] = "WAITING" <=> (u # t /\ state[u] = "WAITING")
      BY <1>1
    <2>2. (\E r \in Semas : u \in Waiters(r)')
            <=> (u # t /\ \E r \in Semas : u \in Waiters(r))
      BY <1>4, <1>6, <1>7
    <2> QED
      BY <2>1, <2>2 DEF SleepersQueued
  <1>9. ASSUME NEW a \in Semas, NEW b \in Semas,
               NEW i \in DOMAIN wait_q'[a], NEW j \in DOMAIN wait_q'[b],
               wait_q'[a][i] = wait_q'[b][j]
        PROVE  a = b /\ i = j
    <2>1. CASE a = s /\ b = s
      <3>1. /\ i + 1 \in DOMAIN q /\ j + 1 \in DOMAIN q /\ q[i + 1] = q[j + 1]
            /\ i \in Int /\ j \in Int
        BY <1>2, <1>9, <2>1
      <3>2. i + 1 = j + 1
        BY <3>1 DEF SleepersQueued
      <3> QED
        BY <2>1, <3>1, <3>2
    <2>2. CASE a = s /\ b # s
      BY <1>2, <1>3, <1>9, <2>2 DEF SleepersQueued
    <2>3. CASE a # s /\ b = s
      BY <1>2, <1>3, <1>9, <2>3 DEF SleepersQueued
    <2>4. CASE a # s /\ b # s
      BY <1>3, <1>9, <2>4 DEF SleepersQueued
    <2> QED
      BY <2>1, <2>2, <2>3, <2>4
  <1> QED
    BY <1>8, <1>9 DEF SleepersQueued

-----------------------------------------------------------------------------
(* A lock's count is 1 when it is free, and it has one holder at most.     *)
LockInv ==
  \A l \in Locks :
    /\ count[l] <= 1
    /\ \A t \in Threads : l \in hold[t] => count[l] <= 0
    /\ \A t, u \in Threads : l \in hold[t] /\ l \in hold[u] => t = u
    /\ count[l] <= 0 => \E t \in Threads : l \in hold[t]

SemaInv == SleepersQueued /\ CountIsQueue /\ LockInv

(* A V keeps queues, sleepers and counts in step.                          *)
LEMMA SemaVKeepsQueues ==
  ASSUME RingPart, SemaPart, SleepersQueued, CountIsQueue,
         NEW s \in Semas, SemaV(s)
  PROVE  SleepersQueued' /\ CountIsQueue'
  <1>0. /\ count \in [Semas -> Int] /\ wait_q \in [Semas -> Seq(Threads)]
        /\ count' = [count EXCEPT ![s] = @ + 1]
    BY DEF SemaPart, SemaV
  <1>1. CASE wait_q[s] = << >> /\ UNCHANGED <<ring, wait_q>>
    <2>1. SleepersQueued'
      BY <1>1 DEF SleepersQueued, Waiters, ring
    <2>2. count[s] >= 0
      BY <1>0, <1>1 DEF CountIsQueue
    <2>3. CountIsQueue'
      BY <1>0, <1>1, <2>2 DEF CountIsQueue
    <2> QED
      BY <2>1, <2>3
  <1>2. CASE /\ wait_q[s] # << >>
             /\ wait_q' = [wait_q EXCEPT ![s] = Tail(@)]
             /\ ThreadWakeup(Head(wait_q[s]))
    <2>1. Head(wait_q[s]) \in Threads /\ 1 \in DOMAIN wait_q[s]
          /\ Head(wait_q[s]) = wait_q[s][1]
      BY <1>0, <1>2
    <2>2. state[Head(wait_q[s])] = "WAITING"
      BY <2>1 DEF SleepersQueued, Waiters
    <2>3. state' = [state EXCEPT ![Head(wait_q[s])] = "READY"]
      BY <1>2, <2>2 DEF ThreadWakeup
    <2>4. SleepersQueued'
      BY <1>2, <2>3, WakeKeepsQueues
    <2>5. Len(wait_q'[s]) = Len(wait_q[s]) - 1 /\ Len(wait_q[s]) >= 1
      BY <1>0, <1>2
    <2>6. count[s] < 0 /\ Len(wait_q[s]) = -count[s]
      BY <1>0, <2>5 DEF CountIsQueue
    <2>7. \A r \in Semas : r # s => wait_q'[r] = wait_q[r] /\ count'[r] = count[r]
      BY <1>0, <1>2
    <2>8. CountIsQueue'
      BY <1>0, <2>5, <2>6, <2>7 DEF CountIsQueue
    <2> QED
      BY <2>4, <2>8
  <1> QED
    BY <1>1, <1>2 DEF SemaV

(* Every step keeps the semaphore invariant.                               *)
LEMMA StepSemaInv ==
  ASSUME RingInv, SemaInv, [Next]_vars
  PROVE  SemaInv'
  <1> USE DEF SemaInv
  <1>0. RingPart /\ ThreadPart /\ SemaPart
    BY PartsOfRingInv
  <1>t. /\ count \in [Semas -> Int] /\ wait_q \in [Semas -> Seq(Threads)]
        /\ hold \in [Threads -> SUBSET Locks]
        /\ state \in [Threads -> {"FREE", "READY", "WAITING"}]
    BY <1>0 DEF RingPart, ThreadPart, SemaPart
  <1>1. ASSUME NEW t \in Threads, CreateThread(t)
        PROVE  SemaInv'
    <2>1. \A u \in Threads : state'[u] = "WAITING" <=> state[u] = "WAITING"
      BY <1>t, <1>1 DEF CreateThread
    <2>2. SleepersQueued'
      BY <1>1, <2>1 DEF CreateThread, SleepersQueued, Waiters
    <2> QED
      BY <1>1, <2>2 DEF CreateThread, CountIsQueue, LockInv
  <1>2. ASSUME NEW t \in Threads, NEW s \in Semas, SemaPTake(t, s)
        PROVE  SemaInv'
    <2>1. SleepersQueued'
      BY <1>2 DEF SemaPTake, SleepersQueued, Waiters, ring
    <2>2. CountIsQueue'
      BY <1>t, <1>2 DEF SemaPTake, CountIsQueue
    <2>3. ASSUME NEW l \in Locks
          PROVE  /\ count'[l] <= 1
                 /\ \A u \in Threads : l \in hold'[u] => count'[l] <= 0
                 /\ \A u, v \in Threads :
                      l \in hold'[u] /\ l \in hold'[v] => u = v
                 /\ count'[l] <= 0 => \E u \in Threads : l \in hold'[u]
      <3>1. CASE l = s
        <4>1. /\ count[l] = 1 /\ count'[l] = 0
              /\ \A u \in Threads : l \notin hold[u]
          BY <1>t, <1>2, <3>1 DEF SemaPTake, LockInv, Semas
        <4>2. \A u \in Threads : l \in hold'[u] <=> u = t
          BY <1>t, <1>2, <3>1, <4>1 DEF SemaPTake
        <4> QED
          BY <4>1, <4>2
      <3>2. CASE l # s
        <4>1. count'[l] = count[l]
          BY <1>t, <1>2, <3>2 DEF SemaPTake, Semas
        <4>2. \A u \in Threads : l \in hold'[u] <=> l \in hold[u]
          BY <1>t, <1>2, <3>2 DEF SemaPTake
        <4> QED
          BY <4>1, <4>2 DEF LockInv
      <3> QED
        BY <3>1, <3>2
    <2> QED
      BY <2>1, <2>2, <2>3 DEF LockInv
  <1>3. ASSUME NEW t \in Threads, NEW s \in Semas, SemaPBlock(t, s)
        PROVE  SemaInv'
    <2>1. state[t] = "READY"
      BY <1>0, <1>3 DEF SemaPBlock, MayP, Running, ThreadPart, NoBlockedRun
    <2>2. state' = [state EXCEPT ![t] = "WAITING"]
      BY <1>3, <2>1 DEF SemaPBlock, ThreadSleep
    <2>3. SleepersQueued'
      BY <1>0, <1>3, <2>1, <2>2, BlockKeepsQueues DEF SemaPBlock
    <2>4. CountIsQueue'
      <3>1. Len(wait_q'[s]) = Len(wait_q[s]) + 1 /\ count'[s] = count[s] - 1
        BY <1>t, <1>3 DEF SemaPBlock
      <3>2. \A r \in Semas : r # s => wait_q'[r] = wait_q[r] /\ count'[r] = count[r]
        BY <1>t, <1>3 DEF SemaPBlock
      <3> QED
        BY <1>t, <1>3, <3>1, <3>2 DEF SemaPBlock, CountIsQueue
    <2>5. LockInv'
      <3>1. \A l \in Locks : count'[l] <= count[l]
        BY <1>t, <1>3 DEF SemaPBlock, Semas
      <3>2. hold' = hold /\ \A l \in Locks : count[l] \in Int /\ count'[l] \in Int
        BY <1>t, <1>3 DEF SemaPBlock, Semas
      <3>3. \A l \in Locks : count'[l] <= 0 => count[l] <= 0
        BY <1>t, <1>3 DEF SemaPBlock, Semas
      <3> QED
        BY <3>1, <3>2, <3>3 DEF LockInv
    <2> QED
      BY <2>3, <2>4, <2>5
  <1>4. ASSUME NEW t \in Threads, SemaPSchedule(t)
        PROVE  SemaInv'
    BY <1>4 DEF SemaPSchedule, ring, SleepersQueued, Waiters, CountIsQueue, LockInv
  <1>5. ASSUME NEW t \in Threads, NEW l \in Locks, Release(t, l)
        PROVE  SemaInv'
    <2>0. l \in Semas /\ SemaV(l) /\ l \in hold[t]
      BY <1>5 DEF Release, Semas
    <2>1. SleepersQueued' /\ CountIsQueue'
      BY <1>0, <2>0, SemaVKeepsQueues
    <2>2. count' = [count EXCEPT ![l] = @ + 1]
      BY <2>0 DEF SemaV
    <2>3. ASSUME NEW k \in Locks, k # l
          PROVE  /\ count'[k] = count[k]
                 /\ \A u \in Threads : k \in hold'[u] <=> k \in hold[u]
      BY <1>t, <1>5, <2>2, <2>3 DEF Release, Semas
    <2>4. /\ count'[l] <= 1
          /\ \A u \in Threads : l \in hold'[u] => count'[l] <= 0
          /\ \A u, v \in Threads : l \in hold'[u] /\ l \in hold'[v] => u = v
          /\ count'[l] <= 0 => \E u \in Threads : l \in hold'[u]
      <3>1. /\ \A u \in Threads : l \in hold[u] => u = t
            /\ count[l] <= 0 /\ count[l] \in Int /\ count'[l] = count[l] + 1
        BY <1>t, <2>0, <2>2 DEF LockInv
      <3>2. CASE wait_q[l] = << >>
        <4>1. \A u \in Threads : l \notin hold'[u]
          BY <1>t, <1>5, <3>1, <3>2 DEF Release, Woken
        <4>2. count'[l] = 1
          BY <1>t, <2>0, <3>1, <3>2 DEF CountIsQueue
        <4> QED
          BY <4>1, <4>2
      <3>3. CASE wait_q[l] # << >>
        <4>1. count[l] < 0
          BY <1>t, <2>0, <3>1, <3>3 DEF CountIsQueue
        <4>2. \A u \in Threads : l \in hold'[u] => u = Head(wait_q[l])
          BY <1>t, <1>5, <3>1, <3>3 DEF Release, Woken
        <4>3. Head(wait_q[l]) \in Threads /\ l \in hold'[Head(wait_q[l])]
          BY <1>t, <1>5, <2>0, <3>3 DEF Release, Woken
        <4> QED
          BY <3>1, <4>1, <4>2, <4>3
      <3> QED
        BY <3>2, <3>3
    <2> QED
      BY <2>1, <2>3, <2>4 DEF LockInv
  <1>6. ASSUME NEW e \in Events, Post(e)
        PROVE  SemaInv'
    <2>1. e \in Semas /\ SemaV(e) /\ hold' = hold
      BY <1>6 DEF Post, Semas
    <2>2. SleepersQueued' /\ CountIsQueue'
      BY <1>0, <2>1, SemaVKeepsQueues
    <2>3. \A l \in Locks : count'[l] = count[l]
      BY <1>t, <2>1, ThreadsAssumption DEF SemaV, Semas
    <2> QED
      BY <2>1, <2>2, <2>3 DEF LockInv
  <1>7. ASSUME ClockSchedule
        PROVE  SemaInv'
    BY <1>7 DEF ClockSchedule, ring, SleepersQueued, Waiters, CountIsQueue, LockInv
  <1>8. ASSUME UNCHANGED vars
        PROVE  SemaInv'
    BY <1>8 DEF vars, SleepersQueued, Waiters, CountIsQueue, LockInv
  <1> QED
    BY <1>1, <1>2, <1>3, <1>4, <1>5, <1>6, <1>7, <1>8 DEF Next

(* Initially nobody waits and every lock is free.                          *)
LEMMA InitSemaInv == Init => SemaInv
  <1> SUFFICES ASSUME Init PROVE SemaInv
    OBVIOUS
  <1>1. /\ \A s \in Semas : wait_q[s] = << >> /\ Waiters(s) = {}
        /\ \A t \in Threads : state[t] # "WAITING" /\ hold[t] = {}
    BY DEF Init, Waiters
  <1>2. SleepersQueued
    BY <1>1 DEF SleepersQueued
  <1>3. CountIsQueue
    BY <1>1 DEF Init, CountIsQueue
  <1>4. LockInv
    BY <1>1 DEF Init, LockInv, Semas
  <1> QED
    BY <1>2, <1>3, <1>4 DEF SemaInv

(* Queues, sleepers, counts and holders agree in every state.              *)
THEOREM SemaInvariant ==
  ASSUME IdleNeverWaits
  PROVE  Spec => []SemaInv
  <1>1. Init => SemaInv
    BY InitSemaInv
  <1>2. RingInv /\ SemaInv /\ [Next]_vars => SemaInv'
    BY StepSemaInv
  <1> QED
    BY <1>1, <1>2, RingInvariant, PTL DEF Spec

(* The sleeping threads are the queued ones, each queued once.             *)
THEOREM SleepersStayQueued ==
  ASSUME IdleNeverWaits
  PROVE  Spec => []SleepersQueued
  <1>1. SemaInv => SleepersQueued
    BY DEF SemaInv
  <1> QED
    BY <1>1, SemaInvariant, PTL

(* A negative count is the length of the queue.                            *)
THEOREM CountsMatchQueues ==
  ASSUME IdleNeverWaits
  PROVE  Spec => []CountIsQueue
  <1>1. SemaInv => CountIsQueue
    BY DEF SemaInv
  <1> QED
    BY <1>1, SemaInvariant, PTL

(* No two threads hold the same lock.                                      *)
THEOREM LocksExclude ==
  ASSUME IdleNeverWaits
  PROVE  Spec => []MutualExclusion
  <1>1. RingInv /\ SemaInv => MutualExclusion
    <2> SUFFICES ASSUME RingInv, SemaInv, NEW t \in Threads, NEW u \in Threads,
                        t # u, NEW l \in hold[t] \cap hold[u]
                 PROVE  FALSE
      BY DEF MutualExclusion
    <2>1. l \in Locks
      BY DEF RingInv, TypeOK
    <2> QED
      BY <2>1 DEF SemaInv, LockInv
  <1> QED
    BY <1>1, RingInvariant, SemaInvariant, PTL

-----------------------------------------------------------------------------
(* How a step changes the set of ready threads.                            *)
LEMMA WakeupCounts ==
  ASSUME RingInv, ReadyCounted, NEW t \in Threads,
         state[t] # "READY", state' = [state EXCEPT ![t] = "READY"],
         ready_count' = ready_count + 1
  PROVE  ReadyCounted'
  <1>1. ReadySet' = ReadySet \cup {t} /\ t \notin ReadySet
    BY DEF RingInv, TypeOK, ReadySet
  <1>2. IsFiniteSet(ReadySet)
    BY FS_Subset, ThreadsAssumption DEF ReadySet
  <1> QED
    BY <1>1, <1>2, FS_AddElement DEF ReadyCounted

(* A thread that goes to sleep is counted off ready_count.                 *)
LEMMA SleepCounts ==
  ASSUME RingInv, ReadyCounted, NEW t \in Threads,
         state[t] = "READY", state' = [state EXCEPT ![t] = "WAITING"],
         ready_count' = ready_count - 1
  PROVE  ReadyCounted'
  <1>1. ReadySet' = ReadySet \ {t} /\ t \in ReadySet
    BY DEF RingInv, TypeOK, ReadySet
  <1>2. IsFiniteSet(ReadySet)
    BY FS_Subset, ThreadsAssumption DEF ReadySet
  <1> QED
    BY <1>1, <1>2, FS_RemoveElement DEF ReadyCounted

(* sema_v() keeps ready_count right.                                       *)
LEMMA SemaVCounts ==
  ASSUME RingInv, ReadyCounted, NEW s \in Semas, SemaV(s)
  PROVE  ReadyCounted'
  <1>1. CASE UNCHANGED ring
    BY <1>1 DEF ring, ReadyCounted, ReadySet
  <1>2. CASE wait_q[s] # << >> /\ ThreadWakeup(Head(wait_q[s])) /\ ~UNCHANGED ring
    <2>1. Head(wait_q[s]) \in Threads
      BY <1>2 DEF RingInv, TypeOK
    <2> QED
      BY <1>2, <2>1, WakeupCounts DEF ThreadWakeup
  <1> QED
    BY <1>1, <1>2 DEF SemaV

(* ready_count counts the ready threads, which is what schedule() and      *)
(* sched_aging() take it for.                                              *)
THEOREM ReadyStaysCounted ==
  ASSUME IdleNeverWaits
  PROVE  Spec => []ReadyCounted
  <1>1. Init => ReadyCounted
    <2> SUFFICES ASSUME Init PROVE ReadyCounted
      OBVIOUS
    <2>1. ReadySet = {Idle, Syscon}
      BY ThreadsAssumption DEF Init, ReadySet
    <2>2. Cardinality({Idle}) = 1 /\ IsFiniteSet({Idle})
      BY FS_Singleton
    <2>3. Cardinality({Idle} \cup {Syscon}) = 2
      <3>1. Syscon \notin {Idle}
        BY ThreadsAssumption
      <3>2. Cardinality({Idle} \cup {Syscon}) = Cardinality({Idle}) + 1
        BY <2>2, <3>1, FS_AddElement, Zenon
      <3> QED
        BY <2>2, <3>2
    <2>4. {Idle} \cup {Syscon} = {Idle, Syscon}
      OBVIOUS
    <2> QED
      BY <2>1, <2>3, <2>4 DEF Init, ReadyCounted
  <1>2. RingInv /\ ReadyCounted /\ [Next]_vars => ReadyCounted'
    <2> SUFFICES ASSUME RingInv, ReadyCounted, [Next]_vars
                 PROVE  ReadyCounted'
      OBVIOUS
    <2>1. CASE UNCHANGED ring
      BY <2>1 DEF ring, ReadyCounted, ReadySet
    <2>2. ASSUME NEW t \in Threads, CreateThread(t)
          PROVE  ReadyCounted'
      BY <2>2, WakeupCounts DEF CreateThread
    <2>3. ASSUME NEW t \in Threads, NEW s \in Semas, SemaPBlock(t, s)
          PROVE  ReadyCounted'
      <3>1. state[t] = "READY"
        BY <2>3 DEF RingInv, NoBlockedRun, SemaPBlock, MayP, Running
      <3> QED
        BY <2>3, <3>1, SleepCounts DEF SemaPBlock, ThreadSleep
    <2>4. ASSUME NEW t \in Threads, NEW l \in Locks, Release(t, l)
          PROVE  ReadyCounted'
      BY <2>4, SemaVCounts DEF Release, Semas
    <2>5. ASSUME NEW e \in Events, Post(e)
          PROVE  ReadyCounted'
      BY <2>5, SemaVCounts DEF Post, Semas
    <2>6. ASSUME \/ \E t \in Threads, s \in Semas : SemaPTake(t, s)
                 \/ \E t \in Threads : SemaPSchedule(t)
                 \/ ClockSchedule
                 \/ UNCHANGED vars
          PROVE  UNCHANGED ring
      BY <2>6 DEF vars, ring, SemaPTake, SemaPSchedule, ClockSchedule
    <2> QED
      BY <2>1, <2>2, <2>3, <2>4, <2>5, <2>6 DEF Next
  <1> QED
    BY <1>1, <1>2, RingInvariant, PTL DEF Spec

-----------------------------------------------------------------------------
(* The owner the refinement reads off hold.                                *)
LEMMA HolderIsOwner ==
  ASSUME SemaInv, NEW l \in Locks
  PROVE  /\ \A t \in Threads : l \in hold[t] => Owner(l) = t
         /\ (\A t \in Threads : l \notin hold[t]) => Owner(l) = NoOwner
         /\ count[l] \in Int => (Owner(l) = NoOwner <=> ~ count[l] <= 0)
  <1>1. ASSUME NEW t \in Threads, l \in hold[t] PROVE Owner(l) = t
    <2>1. \A u \in Threads : l \in hold[u] => u = t
      BY <1>1 DEF SemaInv, LockInv
    <2> QED
      BY <1>1, <2>1 DEF Owner
  <1>2. ASSUME \A t \in Threads : l \notin hold[t] PROVE Owner(l) = NoOwner
    BY <1>2, Zenon DEF Owner
  <1>3. ASSUME count[l] \in Int PROVE Owner(l) = NoOwner <=> ~ count[l] <= 0
    <2>1. count[l] <= 0 <=> \E t \in Threads : l \in hold[t]
      BY <1>3 DEF SemaInv, LockInv
    <2> QED
      BY <1>1, <1>2, <2>1, ThreadsAssumption
  <1> QED
    BY <1>1, <1>2, <1>3

Mapped == <<[l \in Locks |-> Owner(l)], [l \in Locks |-> wait_q[l]]>>

(* A step that leaves every holder and every lock's queue alone is a       *)
(* stutter of the abstract locks.                                          *)
LEMMA LocksStutter ==
  ASSUME hold' = hold, \A l \in Locks : wait_q'[l] = wait_q[l]
  PROVE  UNCHANGED Mapped
  <1>1. \A l \in Locks : Owner(l)' = Owner(l)
    BY Zenon DEF Owner
  <1>2. [l \in Locks |-> Owner(l)]' = [l \in Locks |-> Owner(l)]
    BY <1>1, Zenon
  <1>3. [l \in Locks |-> wait_q[l]]' = [l \in Locks |-> wait_q[l]]
    BY Zenon
  <1> QED
    BY <1>2, <1>3, Zenon DEF Mapped

(* Every step of the kernel is a step of the abstract locks or a stutter.  *)
LEMMA StepFifoLocks ==
  ASSUME RingInv, SemaInv, SemaInv', [Next]_vars
  PROVE  [Fifo!Next]_(Fifo!vars)
  <1> DEFINE o == [l \in Locks |-> Owner(l)]
             q == [l \in Locks |-> wait_q[l]]
  <1>t. /\ count \in [Semas -> Int] /\ wait_q \in [Semas -> Seq(Threads)]
        /\ hold \in [Threads -> SUBSET Locks] /\ Locks \subseteq Semas
    BY DEF RingInv, TypeOK, Semas
  <1>0. ASSUME hold' = hold, \A l \in Locks : wait_q'[l] = wait_q[l]
        PROVE  [Fifo!Next]_(Fifo!vars)
    BY <1>0, LocksStutter DEF Mapped, Fifo!vars
  <1>c. ASSUME NEW t \in Threads, CreateThread(t)
        PROVE  [Fifo!Next]_(Fifo!vars)
    BY <1>c, <1>0 DEF CreateThread
  <1>1. ASSUME NEW t \in Threads, NEW s \in Semas, SemaPTake(t, s)
        PROVE  [Fifo!Next]_(Fifo!vars)
    <2>1. CASE s \notin Locks
      <3>1. hold' = hold /\ wait_q' = wait_q
        BY <1>t, <1>1, <2>1 DEF SemaPTake
      <3> QED
        BY <3>1, <1>0
    <2>2. CASE s \in Locks
      <3>1. Owner(s) = NoOwner
        BY <1>t, <1>1, <2>2, HolderIsOwner DEF SemaPTake
      <3>2. s \in hold'[t] /\ \A u \in Threads, l \in Locks :
                                l # s => (l \in hold'[u] <=> l \in hold[u])
        BY <1>t, <1>1, <2>2 DEF SemaPTake
      <3>3. Owner(s)' = t
        BY <2>2, <3>2 DEF SemaInv, LockInv, Owner
      <3>4. \A l \in Locks : l # s => Owner(l)' = Owner(l)
        BY <3>2 DEF Owner
      <3>5. o' = [o EXCEPT ![s] = t] /\ o[s] = NoOwner /\ q' = q
        BY <1>1, <2>2, <3>1, <3>3, <3>4 DEF SemaPTake
      <3>6. Fifo!Take(t, s)
        BY <3>5 DEF Fifo!Take
      <3> QED
        BY <2>2, <3>6 DEF Fifo!Next
    <2> QED
      BY <2>1, <2>2
  <1>2. ASSUME NEW t \in Threads, NEW s \in Semas, SemaPBlock(t, s)
        PROVE  [Fifo!Next]_(Fifo!vars)
    <2>1. CASE s \notin Locks
      <3>1. hold' = hold /\ \A l \in Locks : wait_q'[l] = wait_q[l]
        BY <1>t, <1>2, <2>1 DEF SemaPBlock
      <3> QED
        BY <3>1, <1>0
    <2>2. CASE s \in Locks
      <3>1. Owner(s) # NoOwner
        BY <1>t, <1>2, <2>2, HolderIsOwner DEF SemaPBlock
      <3>2. \A l \in Locks : Owner(l)' = Owner(l)
        BY <1>2, Zenon DEF SemaPBlock, Owner
      <3>3. o' = o /\ o[s] # NoOwner
        BY <2>2, <3>1, <3>2
      <3>4. q' = [q EXCEPT ![s] = Append(@, t)]
        BY <1>t, <1>2, <2>2 DEF SemaPBlock
      <3>5. Fifo!Wait(t, s)
        BY <3>3, <3>4 DEF Fifo!Wait
      <3> QED
        BY <2>2, <3>5 DEF Fifo!Next
    <2> QED
      BY <2>1, <2>2
  <1>3. ASSUME NEW t \in Threads, NEW l \in Locks, Release(t, l)
        PROVE  [Fifo!Next]_(Fifo!vars)
    <2>0. t # NoOwner /\ Owner(l) = t
      BY <1>3, HolderIsOwner, ThreadsAssumption DEF Release
    <2>1. \A k \in Locks : k # l => Owner(k)' = Owner(k) /\ wait_q'[k] = wait_q[k]
      <3>1. ASSUME NEW k \in Locks, k # l
            PROVE  \A u \in Threads : k \in hold'[u] <=> k \in hold[u]
        BY <1>t, <1>3, <3>1 DEF Release
      <3>2. \A k \in Locks : k # l => wait_q'[k] = wait_q[k]
        BY <1>t, <1>3 DEF Release, SemaV
      <3> QED
        BY <3>1, <3>2 DEF Owner
    <2>2. CASE wait_q[l] = << >>
      <3>1. wait_q' = wait_q
        BY <1>3, <2>2 DEF Release, SemaV
      <3>2. \A u \in Threads : l \notin hold'[u]
        <4>1. \A u \in Threads : l \in hold[u] => u = t
          BY <1>3 DEF Release, SemaInv, LockInv
        <4> QED
          BY <1>t, <1>3, <2>2, <4>1 DEF Release, Woken
      <3>3. Owner(l)' = NoOwner
        BY <3>2, Zenon DEF Owner
      <3>4. o' = [o EXCEPT ![l] = NoOwner] /\ o[l] # NoOwner /\ q' = q /\ q[l] = << >>
        BY <2>0, <2>1, <2>2, <3>1, <3>3
      <3>5. Fifo!GiveBack(l)
        BY <3>4 DEF Fifo!GiveBack
      <3> QED
        BY <3>5 DEF Fifo!Next
    <2>3. CASE wait_q[l] # << >>
      <3>1. wait_q'[l] = Tail(wait_q[l])
        BY <1>t, <1>3, <2>3 DEF Release, SemaV
      <3>2. Head(wait_q[l]) \in Threads /\ l \in hold'[Head(wait_q[l])]
        BY <1>t, <1>3, <2>3 DEF Release, Woken
      <3>3. Owner(l)' = Head(wait_q[l])
        BY <3>2 DEF SemaInv, LockInv, Owner
      <3>4. /\ o' = [o EXCEPT ![l] = Head(wait_q[l])] /\ o[l] # NoOwner
            /\ q' = [q EXCEPT ![l] = Tail(@)] /\ q[l] = wait_q[l]
        BY <2>0, <2>1, <2>3, <3>1, <3>3
      <3>5. Fifo!HandOver(l)
        BY <2>3, <3>4 DEF Fifo!HandOver
      <3> QED
        BY <3>5 DEF Fifo!Next
    <2> QED
      BY <2>2, <2>3
  <1>4. ASSUME NEW e \in Events, Post(e)
        PROVE  [Fifo!Next]_(Fifo!vars)
    <2>1. hold' = hold /\ \A l \in Locks : wait_q'[l] = wait_q[l]
      BY <1>t, <1>4, ThreadsAssumption DEF Post, SemaV, Semas
    <2> QED
      BY <2>1, <1>0
  <1>5. ASSUME \/ \E t \in Threads : SemaPSchedule(t)
               \/ ClockSchedule
               \/ UNCHANGED vars
        PROVE  [Fifo!Next]_(Fifo!vars)
    <2>1. hold' = hold /\ wait_q' = wait_q
      BY <1>5 DEF SemaPSchedule, ClockSchedule, vars
    <2> QED
      BY <2>1, <1>0
  <1> QED
    BY <1>c, <1>1, <1>2, <1>3, <1>4, <1>5 DEF Next

(* The lock semaphores implement first-come first-served locks: from the   *)
(* counts, queues and wake-ups of sema.c, for any threads and locks.       *)
THEOREM SemasImplementFifoLocks ==
  ASSUME IdleNeverWaits
  PROVE  Spec => ImplementsFifoLocks
  <1>1. Init => Fifo!Init
    <2> SUFFICES ASSUME Init PROVE Fifo!Init
      OBVIOUS
    <2>1. \A l \in Locks : (\A t \in Threads : l \notin hold[t]) /\ wait_q[l] = << >>
      BY DEF Init, Semas
    <2>2. \A l \in Locks : Owner(l) = NoOwner
      BY <2>1, Zenon DEF Owner
    <2> QED
      BY <2>1, <2>2 DEF Fifo!Init
  <1>2. RingInv /\ SemaInv /\ SemaInv' /\ [Next]_vars => [Fifo!Next]_(Fifo!vars)
    BY StepFifoLocks
  <1> QED
    BY <1>1, <1>2, RingInvariant, SemaInvariant, PTL
       DEF Spec, ImplementsFifoLocks, Fifo!Spec

(* The ready ring is whole at every step, for any number of threads:       *)
(* linked, seen as a whole by schedule(), and counted.                     *)
THEOREM RingStaysSound ==
  ASSUME IdleNeverWaits
  PROVE  Spec => []RingSound
  <1>1. TypeOK /\ RingLinked /\ ScanExact /\ ReadyCounted => RingSound
    BY DEF RingSound
  <1> QED
    BY <1>1, TypeCorrect, RingStaysLinked, ScanStaysExact, ReadyStaysCounted, PTL

(* Sleepers, wait queues and counts of sema_p() and sema_v() agree, for    *)
(* any number of threads and semaphores.                                   *)
THEOREM QueuesStaySound ==
  ASSUME IdleNeverWaits
  PROVE  Spec => []QueuesSound
  <1>1. SleepersQueued /\ CountIsQueue => QueuesSound
    BY DEF QueuesSound
  <1> QED
    BY <1>1, SleepersStayQueued, CountsMatchQueues, PTL
=============================================================================
