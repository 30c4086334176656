---------------------------- MODULE SchedProofs ----------------------------
(***************************************************************************)
(* Proofs about module Sched: choosing by priority implements the choice   *)
(* Threads leaves open, clock() never leaves in_clock behind, the current  *)
(* thread has quantum left, and cpu usage stays bounded.  As for Threads,  *)
(* all of it rests on IdleNeverWaits, the condition of link()'s comment;   *)
(* and on NoNegativePrio, for users of the console command prio.           *)
(***************************************************************************)
EXTENDS Sched, ThreadsProofs, Chains

(* What the choice of the next thread needs to know of the numbers.        *)
Usable ==
  /\ prio \in [Threads -> Nat] /\ cnt \in [Threads -> Nat]
  /\ cur_prio \in [Threads -> Nat]

-----------------------------------------------------------------------------
(* A priority computed from a usage is not below its floor.                *)
LEMMA PrioInRange ==
  /\ Prio \in Nat
  /\ \A p, c \in Nat : PrioOf(p, c) \in Nat
  <1>1. Prio \in Nat
    BY SchedAssumption
  <1>2. ASSUME NEW p \in Nat, NEW c \in Nat PROVE PrioOf(p, c) \in Nat
    <2>1. c \div 2 \in Nat
      OBVIOUS
    <2> QED
      BY <2>1 DEF PrioOf
  <1> QED
    BY <1>1, <1>2

(* Every thread the loop of schedule() comes to has a place behind the     *)
(* head, and no two have the same.                                         *)
LEMMA PlacesDiffer ==
  ASSUME next_ready \in [Threads -> Threads]
  PROVE  /\ \A t \in Scanned : ScanPos[t] \in Nat
         /\ \A t, u \in Scanned : ScanPos[t] = ScanPos[u] => t = u
  <1> DEFINE N == Cardinality(Threads)
             At[i \in 0 .. N] == IF i = 0 THEN Idle ELSE next_ready[At[i - 1]]
             Places(t) == {i \in 0 .. N : i > 0 /\ At[i] = t}
  <1>0. N \in Nat /\ IsFiniteSet(Threads) /\ Idle \in Threads
    BY ThreadsAssumption, FS_CardinalityType
  <1>1. \E f : f = [i \in 0 .. N |-> IF i = 0 THEN Idle ELSE next_ready[f[i - 1]]]
    <2> HIDE DEF N, At, Places
    <2>1. \E f : IsWalk(f, N, Idle, next_ready)
      BY <1>0, WalkExists
    <2> QED
      BY <2>1 DEF IsWalk
  <1>2. At = [i \in 0 .. N |-> IF i = 0 THEN Idle ELSE next_ready[At[i - 1]]]
    BY <1>1
  <1>3. ScanPos = [t \in Threads |-> Min(Places(t))]
    BY DEF ScanPos
  <1> HIDE DEF At
  <1> DEFINE met == {At[i] : i \in 1 .. N}
  <1>4. met \subseteq Threads /\ next_ready[Idle] \in met
        /\ \A v \in met : next_ready[v] \in met
    <2> HIDE DEF Places
    <2>1. IsWalk(At, Cardinality(Threads), Idle, next_ready)
      BY <1>2 DEF IsWalk
    <2> QED
      BY <1>0, <2>1, WalkCloses
  <1> HIDE DEF N
  <1>5. Scanned \subseteq met
    <2> HIDE DEF met
    <2> QED
      BY <1>4 DEF Scanned
  <1>6. ASSUME NEW t \in Scanned
        PROVE  t \in Threads /\ Min(Places(t)) \in Nat /\ At[Min(Places(t))] = t
    <2>1. PICK i \in 1 .. N : At[i] = t
      BY <1>5
    <2>2. i \in Places(t)
      BY <1>0, <2>1
    <2>3. Places(t) \subseteq Nat /\ Places(t) # {}
      BY <1>0, <2>2
    <2>4. \E x \in Places(t) : \A y \in Places(t) : x <= y
      <3> HIDE DEF Places
      <3> QED
        BY <2>3, LeastNat
    <2>5. Min(Places(t)) \in Places(t)
      <3> HIDE DEF Places
      <3> QED
        BY <2>4 DEF Min
    <2>6. Min(Places(t)) \in Nat /\ At[Min(Places(t))] = t
      BY <2>3, <2>5
    <2> QED
      BY <2>6 DEF Scanned
  <1> HIDE DEF Places
  <1>7. \A t \in Scanned : ScanPos[t] = Min(Places(t))
    BY <1>3, <1>6
  <1> QED
    BY <1>6, <1>7

(* Finite sets are taken apart one chosen element at a time.               *)
Chosen(s) == CHOOSE x \in s : TRUE

(* What holds of the empty set and of a set when it holds of the set       *)
(* without its chosen element holds of all subsets of a finite set.        *)
LEMMA SetsBySize ==
  ASSUME NEW T, IsFiniteSet(T), NEW Q, {} \in Q,
         \A s \in SUBSET T : s # {} /\ s \ {Chosen(s)} \in Q => s \in Q
  PROVE  SUBSET T \subseteq Q
  <1> DEFINE N == Cardinality(T)
             P == {n \in 0 .. N : \A s \in SUBSET T : Cardinality(s) = n => s \in Q}
  <1>1. N \in Nat
    BY FS_CardinalityType
  <1>2. \A s \in SUBSET T : IsFiniteSet(s) /\ Cardinality(s) \in 0 .. N
                            /\ (Cardinality(s) = 0 <=> s = {})
    <2> SUFFICES ASSUME NEW s \in SUBSET T
                 PROVE  IsFiniteSet(s) /\ Cardinality(s) \in 0 .. N
                        /\ (Cardinality(s) = 0 <=> s = {})
      OBVIOUS
    <2>1. IsFiniteSet(s) /\ Cardinality(s) <= N
      BY FS_Subset
    <2>2. Cardinality(s) \in Nat /\ (Cardinality(s) = 0 <=> s = {})
      BY <2>1, FS_CardinalityType, FS_EmptySet
    <2> QED
      BY <1>1, <2>1, <2>2
  <1> HIDE DEF N
  <1>3. 0 \in P
    BY <1>1, <1>2
  <1>4. ASSUME NEW n \in 0 .. N, n < N, n \in P PROVE n + 1 \in P
    <2> SUFFICES ASSUME NEW s \in SUBSET T, Cardinality(s) = n + 1 PROVE s \in Q
      BY <1>1, <1>4
    <2>1. s # {} /\ IsFiniteSet(s)
      BY <1>2, <1>1
    <2>2. Chosen(s) \in s
      BY <2>1 DEF Chosen
    <2>3. Cardinality(s \ {Chosen(s)}) = n
      <3>1. Cardinality(s \ {Chosen(s)}) = Cardinality(s) - 1
        BY <2>1, <2>2, FS_RemoveElement
      <3> QED
        BY <1>1, <3>1
    <2>4. s \ {Chosen(s)} \in Q
      BY <1>4, <2>3
    <2> QED
      BY <2>1, <2>4
  <1>5. 0 .. N \subseteq P
    <2> HIDE DEF P
    <2> QED
      BY <1>1, <1>3, <1>4, UpTo
  <1> QED
    BY <1>2, <1>5

(* Finitely many numbers have a bound.                                     *)
LEMMA HasTop ==
  ASSUME NEW f \in [Threads -> Nat]
  PROVE  \E b \in Nat : \A t \in Threads : f[t] <= b
  <1> DEFINE Q == {s \in SUBSET Threads : \E b \in Nat : \A t \in s : f[t] <= b}
  <1>1. {} \in Q
    OBVIOUS
  <1>2. \A s \in SUBSET Threads : s # {} /\ s \ {Chosen(s)} \in Q => s \in Q
    <2> SUFFICES ASSUME NEW s \in SUBSET Threads, s # {}, s \ {Chosen(s)} \in Q
                 PROVE  \E b \in Nat : \A t \in s : f[t] <= b
      OBVIOUS
    <2>1. PICK b \in Nat : \A t \in s \ {Chosen(s)} : f[t] <= b
      OBVIOUS
    <2>2. Chosen(s) \in Threads /\ f[Chosen(s)] \in Nat
      BY DEF Chosen
    <2>3. PICK c \in Nat : c >= b /\ c >= f[Chosen(s)]
      <3>1. CASE b >= f[Chosen(s)]
        BY <2>1, <3>1
      <3>2. CASE b < f[Chosen(s)]
        BY <2>1, <2>2, <3>2
      <3> QED
        BY <2>1, <2>2, <3>1, <3>2
    <2>4. ASSUME NEW t \in s PROVE f[t] <= c
      <3>1. CASE t = Chosen(s)
        BY <2>3, <3>1
      <3>2. CASE t # Chosen(s)
        <4>1. f[t] <= b /\ f[t] \in Nat
          BY <2>1, <3>2
        <4> QED
          BY <2>1, <2>3, <4>1
      <3> QED
        BY <3>1, <3>2
    <2> QED
      BY <2>3, <2>4
  <1>3. Threads \in Q
    <2> HIDE DEF Q
    <2> QED
      BY <1>1, <1>2, ThreadsAssumption, SetsBySize
  <1> QED
    BY <1>3

(* The loop of schedule() finds a best thread, and the head only when it   *)
(* is alone: a floor of 0 is still above the loop's c = -1.                *)
LEMMA BestIsFound ==
  ASSUME RingInv, NEW now \in [Threads -> Nat]
  PROVE  /\ Idle \in Scanned
         /\ BestOf(now) \in IF Scanned = {Idle} THEN {Idle} ELSE Scanned \ {Idle}
  <1> DEFINE seen == {t \in Scanned \ {Idle} : now[t] > -1}
             Better(t, u) == \/ now[t] > now[u]
                             \/ now[t] = now[u] /\ ScanPos[t] < ScanPos[u]
  <1>b. PICK b \in Nat : \A t \in Threads : now[t] <= b
    BY HasTop
  <1>0. /\ Scanned \subseteq Threads /\ Idle \in Scanned
        /\ b \in Nat /\ \A t \in Threads : now[t] \in Nat /\ now[t] <= b
    <2>1. Scanned = ReadySet /\ Idle \in ReadySet /\ ReadySet \subseteq Threads
      BY IntactRingScanned, ThreadsAssumption DEF RingInv, IdleAlwaysReady, ReadySet
    <2> QED
      BY <1>b, <2>1
  <1>1. seen = Scanned \ {Idle}
    <2>1. \A t \in Threads : now[t] > -1
      BY <1>0
    <2> QED
      BY <1>0, <2>1
  <1>2. CASE Scanned = {Idle}
    BY <1>0, <1>1, <1>2 DEF BestOf
  <1>3. CASE Scanned # {Idle}
    <2>1. seen # {} /\ seen \subseteq Scanned /\ seen \subseteq Threads
      BY <1>0, <1>1, <1>3
    <2> HIDE DEF seen
    <2> DEFINE gaps == {b - now[t] : t \in seen}
    <2>2. gaps \subseteq Nat /\ gaps # {}
      BY <1>0, <2>1
    <2>3. PICK g \in gaps : \A y \in gaps : g <= y
      <3> HIDE DEF gaps
      <3> QED
        BY <2>2, LeastNat
    <2>4. PICK top \in seen : g = b - now[top]
      OBVIOUS
    <2>5. \A u \in seen : now[u] <= now[top]
      <3> SUFFICES ASSUME NEW u \in seen PROVE now[u] <= now[top]
        OBVIOUS
      <3>1. b - now[top] <= b - now[u]
        BY <2>3, <2>4
      <3>2. now[u] \in Nat /\ now[top] \in Nat /\ b \in Nat
        BY <1>0, <2>1
      <3> QED
        BY <3>1, <3>2
    <2> DEFINE tops == {u \in seen : now[u] = now[top]}
               places == {ScanPos[u] : u \in tops}
    <2>6. /\ \A u \in seen : ScanPos[u] \in Nat
          /\ \A t, u \in seen : ScanPos[t] = ScanPos[u] => t = u
      <3>1. next_ready \in [Threads -> Threads]
        BY DEF RingInv, TypeOK
      <3> QED
        BY <2>1, <3>1, PlacesDiffer
    <2>7. places \subseteq Nat /\ places # {}
      BY <2>6
    <2>8. PICK p \in places : \A y \in places : p <= y
      <3> HIDE DEF places
      <3> QED
        BY <2>7, LeastNat
    <2>9. PICK best \in seen : now[best] = now[top] /\ p = ScanPos[best]
      OBVIOUS
    <2>10. ASSUME NEW u \in seen \ {best} PROVE Better(best, u)
      <3>1. now[u] \in Nat /\ now[top] \in Nat /\ now[u] <= now[top]
        BY <1>0, <2>1, <2>5
      <3>2. CASE now[u] = now[top]
        <4>1. ScanPos[best] <= ScanPos[u] /\ ScanPos[best] # ScanPos[u]
          BY <2>6, <2>8, <2>9, <3>2
        <4>2. ScanPos[best] \in Nat /\ ScanPos[u] \in Nat
          BY <2>6
        <4>3. ScanPos[best] < ScanPos[u]
          BY <4>1, <4>2
        <4> QED
          BY <2>9, <3>2, <4>3
      <3>3. CASE now[u] # now[top]
        BY <2>9, <3>1, <3>3
      <3> QED
        BY <3>2, <3>3
    <2>11. \E t \in seen : \A u \in seen \ {t} : Better(t, u)
      BY <2>10
    <2>12. BestOf(now) = CHOOSE t \in seen : \A u \in seen \ {t} : Better(t, u)
      BY <2>1 DEF BestOf, seen
    <2>13. BestOf(now) \in seen
      <3> HIDE DEF Better
      <3> QED
        BY <2>11, <2>12
    <2> QED
      BY <1>0, <1>1, <1>3, <2>13 DEF seen
  <1> QED
    BY <1>0, <1>2, <1>3

(* schedule() with its priorities does what Threads lets schedule() do.    *)
LEMMA ScheduleByPriority ==
  ASSUME RingInv, Usable, SSchedule
  PROVE  /\ Schedule
         /\ cur_prio' \in [Threads -> Nat]
         /\ cur_thread' \in Scanned /\ UNCHANGED spinning
         /\ quantum' = [quantum EXCEPT ![cur_thread'] = Refill(@)]
         /\ in_clock' = IF cur_thread' # cur_thread THEN 0 ELSE in_clock
  <1> DEFINE now == [cur_prio EXCEPT ![cur_thread] = PrioOf(prio[cur_thread], cnt[cur_thread])]
  <1>1. now \in [Threads -> Nat]
    <2>1. cur_thread \in Threads /\ PrioOf(prio[cur_thread], cnt[cur_thread]) \in Nat
      BY PrioInRange DEF RingInv, TypeOK, Usable
    <2> QED
      BY <2>1 DEF Usable
  <1> HIDE DEF now
  <1>2. /\ Idle \in Scanned
        /\ BestOf(now) \in IF Scanned = {Idle} THEN {Idle} ELSE Scanned \ {Idle}
    BY <1>1, BestIsFound
  <1>3. /\ cur_prio' = now /\ cur_thread' = BestOf(now) /\ UNCHANGED spinning
        /\ quantum' = [quantum EXCEPT ![BestOf(now)] = Refill(@)]
        /\ in_clock' = IF BestOf(now) # cur_thread THEN 0 ELSE in_clock
    BY <1>2 DEF SSchedule, now
  <1>4. Schedule
    BY <1>2, <1>3 DEF Schedule
  <1> QED
    BY <1>1, <1>2, <1>3, <1>4

(* Each step of Sched is a step of Threads or leaves its state alone.      *)
LEMMA StepThreads ==
  ASSUME RingInv, Usable, [SNext]_svars
  PROVE  [Next]_vars
  <1>1. CASE \E t \in Threads : SCreateThread(t)
    BY <1>1 DEF SCreateThread, Next
  <1>2. CASE \E t \in Threads, s \in Semas : SSemaPTake(t, s) \/ SSemaPBlock(t, s)
    BY <1>2 DEF SSemaPTake, SSemaPBlock, Next
  <1>3. CASE \E t \in Threads : SSemaPSchedule(t)
    <2>1. PICK t \in Threads : SSemaPSchedule(t)
      BY <1>3
    <2>2. Schedule
      BY <2>1, ScheduleByPriority DEF SSemaPSchedule
    <2>3. SemaPSchedule(t)
      BY <2>1, <2>2 DEF SSemaPSchedule, SemaPSchedule
    <2> QED
      BY <2>3 DEF Next
  <1>4. CASE \E t \in Threads, l \in Locks : SRelease(t, l)
    BY <1>4 DEF SRelease, Next
  <1>5. CASE \E e \in Events : SPost(e)
    BY <1>5 DEF SPost, Next
  <1>6. CASE ClockEnter \/ ClockStay \/ ClockReturn
    BY <1>6 DEF ClockEnter, ClockStay, ClockReturn
  <1>9. CASE \E g \in Given : PrioCommand(g[1], g[2])
    BY <1>9 DEF PrioCommand
  <1>7. CASE ClockSwitch
    <2>1. Schedule
      BY <1>7, ScheduleByPriority DEF ClockSwitch
    <2>2. ClockSchedule
      BY <1>7, <2>1 DEF ClockSwitch, ClockSchedule
    <2> QED
      BY <2>2 DEF Next
  <1>8. CASE UNCHANGED svars
    BY <1>8 DEF svars
  <1> QED
    BY <1>1, <1>2, <1>3, <1>4, <1>5, <1>6, <1>7, <1>8, <1>9 DEF SNext

(* Usages and priorities stay natural numbers.                             *)
LEMMA StepUsable ==
  ASSUME NoNegativePrio, RingInv, Usable, [SNext]_svars
  PROVE  Usable'
  <1> USE DEF Usable
  <1>0. cur_thread \in Threads /\ Prio \in Nat
    BY PrioInRange DEF RingInv, TypeOK
  <1>1. CASE \E t \in Threads : SCreateThread(t)
    BY <1>0, <1>1 DEF SCreateThread
  <1>2. CASE \E t \in Threads, s \in Semas : SSemaPTake(t, s)
    BY <1>2 DEF SSemaPTake, usage
  <1>3. CASE \E t \in Threads, s \in Semas : SSemaPBlock(t, s)
    BY <1>0, <1>3 DEF SSemaPBlock
  <1>4. CASE ClockSwitch \/ \E t \in Threads : SSemaPSchedule(t)
    BY <1>4, ScheduleByPriority DEF SSemaPSchedule, ClockSwitch
  <1>5. CASE (\E t \in Threads, l \in Locks : SRelease(t, l)) \/ \E e \in Events : SPost(e)
    BY <1>5 DEF SRelease, SPost, usage
  <1>6. CASE ClockEnter
    <2> DEFINE charged == [cnt EXCEPT ![cur_thread] =
                             IF cur_thread # Idle THEN @ + 1 ELSE @]
    <2>0. cnt[cur_thread] \in Nat /\ cnt[cur_thread] + 1 \in Nat
      BY <1>0
    <2>1. charged \in [Threads -> Nat]
      BY <1>0, <2>0
    <2>2. /\ cnt' = [u \in Threads |-> IF Ages(u) THEN charged[u] \div 2 ELSE charged[u]]
          /\ prio' = prio
          /\ cur_prio' = [u \in Threads |->
                            IF Ages(u) THEN PrioOf(prio[u], charged[u] \div 2) ELSE cur_prio[u]]
      BY <1>6 DEF ClockEnter
    <2> HIDE DEF charged
    <2>3. \A u \in Threads : charged[u] \in Nat /\ charged[u] \div 2 \in Nat
      BY <2>1
    <2>4. cnt' \in [Threads -> Nat]
      BY <2>2, <2>3
    <2>5. \A u \in Threads : PrioOf(prio[u], charged[u] \div 2) \in Nat
      BY <2>3, PrioInRange
    <2> QED
      BY <2>2, <2>4, <2>5
  <1>7. CASE ClockStay \/ ClockReturn \/ UNCHANGED svars
    BY <1>7 DEF ClockStay, ClockReturn, svars, usage
  <1>8. CASE \E g \in Given : PrioCommand(g[1], g[2])
    BY <1>8 DEF PrioCommand, NoNegativePrio
  <1> QED
    BY <1>1, <1>2, <1>3, <1>4, <1>5, <1>6, <1>7, <1>8 DEF SNext

(* The ring stays intact under the scheduler of Sched.                     *)
THEOREM SchedRing ==
  ASSUME IdleNeverWaits, NoNegativePrio
  PROVE  SSpec => [](RingInv /\ Usable)
  <1>1. SInit => RingInv /\ Usable
    <2>1. SInit => Usable
      BY PrioInRange DEF SInit, Usable
    <2> QED
      BY <2>1, InitRingInv DEF SInit
  <1>2. NoNegativePrio /\ RingInv /\ Usable /\ [SNext]_svars => (RingInv /\ Usable)'
    BY StepThreads, StepUsable, StepRingInv
  <1> QED
    BY <1>1, <1>2, PTL DEF SSpec

(* Choosing the best priority, with aging and preemption, implements the   *)
(* choice that Threads leaves open: the idle thread runs only when it is   *)
(* alone, and the head of the ring is never lost (sched.c:165-215).        *)
THEOREM SchedImplementsThreads ==
  ASSUME IdleNeverWaits, NoNegativePrio
  PROVE  SSpec => ImplementsThreads
  <1>1. SInit => Init
    BY DEF SInit
  <1>2. RingInv /\ Usable /\ [SNext]_svars => [Next]_vars
    BY StepThreads
  <1> QED
    BY <1>1, <1>2, SchedRing, PTL DEF SSpec, Spec, ImplementsThreads

-----------------------------------------------------------------------------
(* The clock's numbers, and who has set in_clock: a tick that is before    *)
(* its call of schedule() has, and its frame is on the current stack.      *)
ClockInv ==
  /\ quantum \in [Threads -> 0 .. Quanta]
  /\ in_clock \in {0, 1}
  /\ sched_timer \in 0 .. AgePeriod - 1
  /\ sched_preempt \in 0 .. PreemptMod - 1
  /\ clk \in [Threads -> 0 .. MaxFrames]
  /\ body \in BOOLEAN
  /\ ClockNotLost
  /\ body => in_clock = 1
  /\ QuantumLeft

(* What the assumption says of the constants one by one.                   *)
LEMMA SchedNumbers ==
  /\ Quanta \in Nat \ {0} /\ MinQuanta \in Nat \ {0} /\ MinQuanta <= Quanta
  /\ PerQuantum \in Nat \ {0} /\ AgePeriod \in Nat \ {0}
  /\ PreemptMod \in Nat \ {0} /\ MaxFrames \in Nat \ {0}
  BY SchedAssumption

(* A refilled quantum lets its thread run: it is not exhausted, and not    *)
(* larger than a fresh one, however many threads are ready.                *)
LEMMA RefillGives ==
  ASSUME NEW q \in 0 .. Quanta, ready_count \in Nat
  PROVE  Refill(q) \in 1 .. Quanta
  <1> USE SchedNumbers
  <1> DEFINE x == q + (Quanta - ready_count \div PerQuantum)
  <1>1. ready_count \div PerQuantum \in Nat
    <2>1. \A a \in Nat, b \in Nat \ {0} : a \div b \in Nat
      OBVIOUS
    <2> QED
      BY <2>1
  <1>2. x \in Int /\ (q = 0 => x <= Quanta)
    BY <1>1
  <1> HIDE DEF x
  <1>3. Max({MinQuanta, x}) = IF x >= MinQuanta THEN x ELSE MinQuanta
    BY <1>2 DEF Max
  <1>4. CASE q > 0
    BY <1>4 DEF Refill
  <1>5. CASE q = 0
    <2>1. Refill(q) = Max({MinQuanta, x})
      BY <1>5 DEF Refill, x
    <2> QED
      BY <1>2, <1>3, <1>5, <2>1
  <1> QED
    BY <1>4, <1>5

(* schedule() leaves a quantum to whoever it chose, and in_clock set only  *)
(* if it returns into the tick that set it.                                *)
LEMMA ScheduleKeepsClock ==
  ASSUME RingInv, ReadyCounted, Usable, ClockInv, SSchedule
  PROVE  /\ quantum' \in [Threads -> 0 .. Quanta]
         /\ quantum'[cur_thread'] >= 1
         /\ in_clock' \in {0, 1}
         /\ in_clock' = 1 => in_clock = 1 /\ cur_thread' = cur_thread
  <1> USE SchedNumbers
  <1>1. /\ cur_thread' \in Threads
        /\ quantum' = [quantum EXCEPT ![cur_thread'] = Refill(@)]
        /\ in_clock' = IF cur_thread' # cur_thread THEN 0 ELSE in_clock
    BY ScheduleByPriority DEF Scanned
  <1>2. ready_count \in Nat
    <2>1. IsFiniteSet(ReadySet)
      BY ThreadsAssumption, FS_Subset DEF ReadySet
    <2> QED
      BY <2>1, FS_CardinalityType DEF ReadyCounted
  <1>3. PICK n \in Threads : n = cur_thread'
    BY <1>1
  <1>4. quantum \in [Threads -> 0 .. Quanta] /\ quantum[n] \in 0 .. Quanta
    BY DEF ClockInv
  <1>5. Refill(quantum[n]) \in 1 .. Quanta
    BY <1>2, <1>4, RefillGives
  <1>6. quantum' \in [Threads -> 0 .. Quanta] /\ quantum'[n] >= 1
    BY <1>1, <1>3, <1>4, <1>5
  <1> QED
    BY <1>1, <1>3, <1>6 DEF ClockInv

(* Every step keeps the clock's invariant.                                 *)
LEMMA StepClockInv ==
  ASSUME RingInv, ReadyCounted, Usable, ClockInv, [SNext]_svars
  PROVE  ClockInv'
  <1> USE SchedNumbers
  <1>0. /\ cur_thread \in Threads
        /\ quantum \in [Threads -> 0 .. Quanta] /\ clk \in [Threads -> 0 .. MaxFrames]
        /\ sched_timer \in 0 .. AgePeriod - 1 /\ sched_preempt \in 0 .. PreemptMod - 1
    BY DEF RingInv, TypeOK, ClockInv
  <1>i. /\ in_clock \in {0, 1} /\ body \in BOOLEAN
        /\ in_clock = 1 => clk[cur_thread] > 0
        /\ body => in_clock = 1
        /\ ~body => quantum[cur_thread] >= 1
    BY DEF ClockInv, ClockNotLost, QuantumLeft
  <1>1. CASE \E t \in Threads : SCreateThread(t)
    <2>1. PICK t \in Threads : SCreateThread(t)
      BY <1>1
    <2>2. /\ UNCHANGED clock /\ cur_thread' = cur_thread
          /\ quantum' = [quantum EXCEPT ![t] = Quanta]
      BY <2>1 DEF SCreateThread, CreateThread
    <2>3. /\ quantum' \in [Threads -> 0 .. Quanta]
          /\ ~body' => quantum'[cur_thread'] >= 1
      BY <1>0, <1>i, <2>2 DEF clock
    <2> QED
      BY <1>0, <1>i, <2>2, <2>3 DEF clock, ClockInv, ClockNotLost, QuantumLeft
  <1>2. ASSUME UNCHANGED <<quantum, in_clock, sched_timer, clk, body, cur_thread>>,
               sched_preempt' \in 0 .. PreemptMod - 1
        PROVE  ClockInv'
    BY <1>2 DEF ClockInv, ClockNotLost, QuantumLeft
  <1>3. CASE \E t \in Threads, s \in Semas : SSemaPTake(t, s) \/ SSemaPBlock(t, s)
    BY <1>0, <1>2, <1>3 DEF SSemaPTake, SSemaPBlock, SemaPTake, SemaPBlock, usage, clock
  <1>4. CASE \E t \in Threads, l \in Locks : SRelease(t, l)
    BY <1>0, <1>2, <1>4 DEF SRelease, Release, usage, clock
  <1>5. CASE \E e \in Events : SPost(e)
    <2>1. sched_preempt' \in 0 .. PreemptMod - 1
      <3>1. \A a \in Nat, b \in Nat \ {0} : a % b \in 0 .. b - 1
        OBVIOUS
      <3> QED
        BY <1>0, <1>5, <3>1 DEF SPost
    <2> QED
      BY <1>2, <1>5, <2>1 DEF SPost, Post, usage
  <1>6. CASE \E t \in Threads : SSemaPSchedule(t)
    <2>1. PICK t \in Threads : SSemaPSchedule(t)
      BY <1>6
    <2>2. /\ SSchedule /\ clk[cur_thread] = 0
          /\ UNCHANGED <<sched_timer, sched_preempt, clk, body>>
      BY <2>1 DEF SSemaPSchedule
    <2>3. in_clock = 0 /\ ~body
      BY <1>i, <2>2
    <2>4. in_clock' = 0 /\ ~body'
      BY <2>2, <2>3, ScheduleKeepsClock
    <2>5. quantum' \in [Threads -> 0 .. Quanta] /\ quantum'[cur_thread'] >= 1
      BY <2>2, ScheduleKeepsClock
    <2> QED
      BY <1>0, <1>i, <2>2, <2>4, <2>5 DEF ClockInv, ClockNotLost, QuantumLeft
  <1>7. CASE ClockEnter
    <2>1. in_clock = 0 /\ ~body /\ quantum[cur_thread] \in 1 .. Quanta
          /\ clk[cur_thread] \in 0 .. MaxFrames /\ clk[cur_thread] < MaxFrames
      BY <1>0, <1>i, <1>7 DEF ClockEnter
    <2>2. /\ in_clock' = 1 /\ body' = TRUE /\ cur_thread' = cur_thread
          /\ sched_preempt' = sched_preempt
          /\ clk' = [clk EXCEPT ![cur_thread] = @ + 1]
          /\ quantum' = [quantum EXCEPT ![cur_thread] = @ - 1]
          /\ sched_timer' = IF sched_timer + 1 >= AgePeriod THEN 0 ELSE sched_timer + 1
      BY <1>7 DEF ClockEnter, vars
    <2>3. clk' \in [Threads -> 0 .. MaxFrames] /\ clk'[cur_thread'] > 0
      BY <1>0, <2>1, <2>2
    <2>4. quantum' \in [Threads -> 0 .. Quanta]
      BY <1>0, <2>1, <2>2
    <2>5. sched_timer' \in 0 .. AgePeriod - 1
      BY <1>0, <2>2
    <2> QED
      BY <1>0, <2>2, <2>3, <2>4, <2>5 DEF ClockInv, ClockNotLost, QuantumLeft
  <1>8. CASE ClockStay
    <2>1. /\ body' = FALSE /\ sched_preempt' = PreemptMod - 1
          /\ cur_thread' = cur_thread /\ quantum[cur_thread] > 0
          /\ UNCHANGED <<quantum, in_clock, sched_timer, clk>>
      BY <1>8 DEF ClockStay, vars, usage
    <2>2. quantum'[cur_thread'] >= 1
      BY <1>0, <2>1
    <2>3. sched_preempt' \in 0 .. PreemptMod - 1
      BY <2>1
    <2> QED
      BY <1>0, <1>i, <2>1, <2>2, <2>3 DEF ClockInv, ClockNotLost, QuantumLeft
  <1>9. CASE ClockSwitch
    <2>1. /\ SSchedule /\ body' = FALSE /\ UNCHANGED <<sched_timer, clk>>
      BY <1>9 DEF ClockSwitch
    <2>2. sched_preempt' \in 0 .. PreemptMod - 1
      BY <1>0, <1>9 DEF ClockSwitch
    <2>3. /\ quantum' \in [Threads -> 0 .. Quanta]
          /\ quantum'[cur_thread'] >= 1
          /\ in_clock' \in {0, 1}
          /\ in_clock' = 1 => in_clock = 1 /\ cur_thread' = cur_thread
      BY <2>1, ScheduleKeepsClock
    <2> QED
      BY <1>0, <1>i, <2>1, <2>2, <2>3 DEF ClockInv, ClockNotLost, QuantumLeft
  <1>10. CASE ClockReturn
    <2>1. /\ in_clock' = 0 /\ ~body /\ body' = body /\ cur_thread' = cur_thread
          /\ clk' = [clk EXCEPT ![cur_thread] = @ - 1]
          /\ clk[cur_thread] > 0
          /\ UNCHANGED <<quantum, sched_timer, sched_preempt>>
      BY <1>10 DEF ClockReturn, vars, usage
    <2>2. clk' \in [Threads -> 0 .. MaxFrames]
      BY <1>0, <2>1
    <2> QED
      BY <1>0, <1>i, <2>1, <2>2 DEF ClockInv, ClockNotLost, QuantumLeft
  <1>11. CASE UNCHANGED svars
    BY <1>0, <1>2, <1>11 DEF svars, vars, usage, clock
  <1>12. CASE \E g \in Given : PrioCommand(g[1], g[2])
    BY <1>0, <1>2, <1>12 DEF PrioCommand, vars, clock
  <1> QED
    BY <1>1, <1>3, <1>4, <1>5, <1>6, <1>7, <1>8, <1>9, <1>10, <1>11, <1>12 DEF SNext

(* The clock's invariant holds of every behaviour.                         *)
THEOREM ClockInvariant ==
  ASSUME IdleNeverWaits, NoNegativePrio
  PROVE  SSpec => []ClockInv
  <1>1. SInit => ClockInv
    <2> SUFFICES ASSUME SInit PROVE ClockInv
      OBVIOUS
    <2> USE SchedNumbers
    <2>1. Idle \in Threads /\ cur_thread = Idle
      BY ThreadsAssumption DEF SInit, Init
    <2>2. /\ quantum \in [Threads -> 0 .. Quanta] /\ clk \in [Threads -> 0 .. MaxFrames]
          /\ quantum[Idle] >= 1
      BY <2>1 DEF SInit
    <2>3. body \in BOOLEAN
      BY Zenon DEF SInit
    <2>4. sched_timer \in 0 .. AgePeriod - 1 /\ sched_preempt \in 0 .. PreemptMod - 1
      BY DEF SInit
    <2> QED
      BY <2>1, <2>2, <2>3, <2>4 DEF SInit, ClockInv, ClockNotLost, QuantumLeft
  <1>2. RingInv /\ Usable /\ ReadyCounted /\ ClockInv /\ [SNext]_svars => ClockInv'
    BY StepClockInv
  <1>3. Spec => []ReadyCounted
    BY ReadyStaysCounted
  <1> QED
    BY <1>1, <1>2, <1>3, SchedRing, SchedImplementsThreads, PTL DEF SSpec, ImplementsThreads

(* The mark of a clock interrupt in progress is never left behind on the   *)
(* stack of a thread that was switched away: no tick is turned away for    *)
(* good (sched.c:207, 256, 290).                                           *)
THEOREM ClockStaysFound ==
  ASSUME IdleNeverWaits, NoNegativePrio
  PROVE  SSpec => []ClockNotLost
  <1>1. ClockInv => ClockNotLost
    BY DEF ClockInv
  <1> QED
    BY <1>1, ClockInvariant, PTL

(* Outside clock() the current thread has quantum left, whatever the       *)
(* number of ready threads (sched.c:194-204).                              *)
THEOREM QuantumStaysLeft ==
  ASSUME IdleNeverWaits, NoNegativePrio
  PROVE  SSpec => []QuantumLeft
  <1>1. ClockInv => QuantumLeft
    BY DEF ClockInv
  <1> QED
    BY <1>1, ClockInvariant, PTL

-----------------------------------------------------------------------------
(* The sum over a finite set is a recursion over its subsets, which takes  *)
(* off one chosen element at a time.                                       *)
IsSum(it, T, f) ==
  it = [s \in SUBSET T |-> IF s = {} THEN 0
                           ELSE f[Chosen(s)] + it[s \ {Chosen(s)}]]

(* The recursion has a solution.                                           *)
LEMMA SumExists ==
  ASSUME NEW T, IsFiniteSet(T), NEW f
  PROVE  \E it : IsSum(it, T, f)
  <1> DEFINE N == Cardinality(T)
             Small(n) == {s \in SUBSET T : Cardinality(s) <= n}
             Step(it, s) == IF s = {} THEN 0 ELSE f[Chosen(s)] + it[s \ {Chosen(s)}]
             P == {n \in 0 .. N : \E it : it = [s \in Small(n) |-> Step(it, s)]}
  <1>1. N \in Nat
    BY FS_CardinalityType
  <1>2. \A s \in SUBSET T : /\ Cardinality(s) \in Nat /\ Cardinality(s) <= N
                            /\ (Cardinality(s) = 0 <=> s = {})
                            /\ (s # {} => Cardinality(s \ {Chosen(s)}) = Cardinality(s) - 1)
    <2> SUFFICES ASSUME NEW s \in SUBSET T
                 PROVE  /\ Cardinality(s) \in Nat /\ Cardinality(s) <= N
                        /\ (Cardinality(s) = 0 <=> s = {})
                        /\ (s # {} => Cardinality(s \ {Chosen(s)}) = Cardinality(s) - 1)
      OBVIOUS
    <2>1. IsFiniteSet(s) /\ Cardinality(s) <= N
      BY FS_Subset
    <2>2. Cardinality(s) \in Nat /\ (Cardinality(s) = 0 <=> s = {})
      BY <2>1, FS_CardinalityType, FS_EmptySet
    <2>3. s # {} => Chosen(s) \in s
      BY DEF Chosen
    <2> QED
      BY <2>1, <2>2, <2>3, FS_RemoveElement
  <1> HIDE DEF N
  <1>3. 0 \in P
    <2> DEFINE it == [s \in Small(0) |-> 0]
    <2>1. \A s \in Small(0) : s = {} /\ Step(it, s) = 0
      BY <1>2
    <2>2. it = [s \in Small(0) |-> Step(it, s)]
      BY <2>1
    <2> HIDE DEF it, Step, Small
    <2> QED
      BY <1>1, <2>2
  <1>4. ASSUME NEW n \in 0 .. N, n < N, n \in P PROVE n + 1 \in P
    <2>1. PICK it : it = [s \in Small(n) |-> Step(it, s)]
      BY <1>4
    <2> DEFINE g == [s \in Small(n + 1) |-> Step(it, s)]
    <2>2. ASSUME NEW s \in Small(n + 1) PROVE g[s] = Step(g, s)
      <3>1. CASE s = {}
        BY <3>1
      <3>2. CASE s # {}
        <4> DEFINE r == s \ {Chosen(s)}
        <4>0. s \in SUBSET T /\ Cardinality(s) \in Nat /\ Cardinality(s) <= n + 1
          BY <1>2
        <4>1. r \in SUBSET T /\ Cardinality(r) = Cardinality(s) - 1
          BY <1>2, <3>2, <4>0
        <4>2. Cardinality(r) <= n /\ Cardinality(r) <= n + 1
          BY <1>1, <4>0, <4>1
        <4> HIDE DEF r
        <4>3. r \in Small(n) /\ r \in Small(n + 1)
          BY <4>1, <4>2
        <4> HIDE DEF Small
        <4>4. it[r] = Step(it, r) /\ g[r] = Step(it, r) /\ g[s] = Step(it, s)
          <5> HIDE DEF Step
          <5> QED
            BY <2>1, <4>3
        <4>5. Step(it, s) = f[Chosen(s)] + it[r] /\ Step(g, s) = f[Chosen(s)] + g[r]
          <5> HIDE DEF g
          <5> QED
            BY <3>2 DEF r
        <4> HIDE DEF g, Step
        <4> QED
          BY <4>4, <4>5
      <3> QED
        BY <3>1, <3>2
    <2>3. g = [s \in Small(n + 1) |-> g[s]]
      <3> HIDE DEF Small, Step
      <3> QED
        OBVIOUS
    <2> HIDE DEF g, Small, Step
    <2>4. g = [s \in Small(n + 1) |-> Step(g, s)]
      BY <2>2, <2>3
    <2>5. n + 1 \in 0 .. N
      BY <1>1, <1>4
    <2> QED
      BY <2>4, <2>5
  <1>5. 0 .. N \subseteq P
    <2> HIDE DEF P
    <2> QED
      BY <1>1, <1>3, <1>4, UpTo
  <1>6. N \in P
    <2> HIDE DEF P
    <2> QED
      BY <1>1, <1>5
  <1>7. Small(N) = SUBSET T
    BY <1>2
  <1>8. PICK it : it = [s \in Small(N) |-> Step(it, s)]
    BY <1>6
  <1>9. it = [s \in SUBSET T |-> Step(it, s)]
    <2> HIDE DEF Small, Step
    <2> QED
      BY <1>7, <1>8
  <1> QED
    BY <1>9 DEF IsSum

(* What the library's sum over a finite set is, for usages.                *)
Total(f) == MapThenSumSet(LAMBDA t : f[t], Threads)

(* The sum of usages is added up thread by thread.                         *)
LEMMA TotalIs ==
  ASSUME NEW f \in [Threads -> Nat]
  PROVE  \E it : /\ Total(f) = it[Threads] /\ it \in [SUBSET Threads -> Nat]
                 /\ it[{}] = 0
                 /\ \A s \in SUBSET Threads :
                      s # {} => it[s] = f[Chosen(s)] + it[s \ {Chosen(s)}]
  <1> DEFINE it[s \in SUBSET Threads] ==
               IF s = {} THEN 0
               ELSE LET x == CHOOSE x \in s : TRUE IN f[x] + it[s \ {x}]
  <1>1. Total(f) = it[Threads]
    BY DEF Total, MapThenSumSet, MapThenFoldSet
  <1>2. \E h : IsSum(h, Threads, f)
    <2> HIDE DEF it
    <2> QED
      BY ThreadsAssumption, SumExists
  <1>3. IsSum(it, Threads, f)
    BY <1>2 DEF IsSum, Chosen
  <1> HIDE DEF it
  <1>4. /\ it[{}] = 0
        /\ \A s \in SUBSET Threads :
             s # {} => it[s] = f[Chosen(s)] + it[s \ {Chosen(s)}]
    <2> QED
      BY <1>3 DEF IsSum
  <1>5. SUBSET Threads \subseteq {s \in SUBSET Threads : it[s] \in Nat}
    <2> DEFINE Q == {s \in SUBSET Threads : it[s] \in Nat}
    <2>1. {} \in Q
      BY <1>4
    <2>2. \A s \in SUBSET Threads : s # {} /\ s \ {Chosen(s)} \in Q => s \in Q
      <3> SUFFICES ASSUME NEW s \in SUBSET Threads, s # {}, it[s \ {Chosen(s)}] \in Nat
                   PROVE  it[s] \in Nat
        OBVIOUS
      <3>1. Chosen(s) \in Threads
        BY DEF Chosen
      <3> QED
        BY <1>4, <3>1
    <2> HIDE DEF Q
    <2>3. SUBSET Threads \subseteq Q
      BY <2>1, <2>2, ThreadsAssumption, SetsBySize
    <2> QED
      BY <2>3 DEF Q
  <1>6. it = [s \in SUBSET Threads |-> it[s]]
    BY <1>3 DEF IsSum
  <1>7. it \in [SUBSET Threads -> Nat]
    BY <1>5, <1>6
  <1> QED
    BY <1>1, <1>4, <1>7

(* What one thread is charged is all that the sum of the usages can grow.  *)
LEMMA TotalCharged ==
  ASSUME NEW f \in [Threads -> Nat], NEW g \in [Threads -> Nat], NEW t \in Threads,
         NEW n \in Nat, \A u \in Threads : g[u] <= IF u = t THEN f[u] + n ELSE f[u]
  PROVE  /\ Total(f) \in Nat /\ Total(g) \in Nat
         /\ Total(g) <= Total(f) + n
  <1>1. PICK it : /\ Total(f) = it[Threads] /\ it \in [SUBSET Threads -> Nat]
                  /\ it[{}] = 0
                  /\ \A s \in SUBSET Threads :
                       s # {} => it[s] = f[Chosen(s)] + it[s \ {Chosen(s)}]
    BY TotalIs
  <1>2. PICK jt : /\ Total(g) = jt[Threads] /\ jt \in [SUBSET Threads -> Nat]
                  /\ jt[{}] = 0
                  /\ \A s \in SUBSET Threads :
                       s # {} => jt[s] = g[Chosen(s)] + jt[s \ {Chosen(s)}]
    BY TotalIs
  <1> DEFINE Q == {s \in SUBSET Threads : jt[s] <= it[s] + (IF t \in s THEN n ELSE 0)}
  <1>3. {} \in Q
    BY <1>1, <1>2
  <1>4. \A s \in SUBSET Threads : s # {} /\ s \ {Chosen(s)} \in Q => s \in Q
    <2> SUFFICES ASSUME NEW s \in SUBSET Threads, s # {}, s \ {Chosen(s)} \in Q
                 PROVE  s \in Q
      OBVIOUS
    <2>0. PICK c \in s : c = Chosen(s)
      BY DEF Chosen
    <2>1. PICK r \in SUBSET Threads : r = s \ {c}
      OBVIOUS
    <2>2. jt[r] <= it[r] + (IF t \in r THEN n ELSE 0)
      BY <2>0, <2>1
    <2>3. it[s] = f[c] + it[r] /\ jt[s] = g[c] + jt[r]
      BY <1>1, <1>2, <2>0, <2>1
    <2>4. /\ f[c] \in Nat /\ g[c] \in Nat /\ it[r] \in Nat /\ jt[r] \in Nat
          /\ g[c] <= IF c = t THEN f[c] + n ELSE f[c]
      BY <1>1, <1>2
    <2>5. jt[s] <= it[s] + (IF t \in s THEN n ELSE 0)
      <3>1. CASE c = t
        BY <2>1, <2>2, <2>3, <2>4, <3>1
      <3>2. CASE c # t
        <4>1. t \in s <=> t \in r
          BY <2>1, <3>2
        <4> QED
          BY <2>2, <2>3, <2>4, <3>2, <4>1
      <3> QED
        BY <3>1, <3>2
    <2> QED
      BY <2>5
  <1>5. SUBSET Threads \subseteq Q
    <2> HIDE DEF Q
    <2> QED
      BY <1>3, <1>4, ThreadsAssumption, SetsBySize
  <1>6. Threads \in Q
    <2> HIDE DEF Q
    <2> QED
      BY <1>5
  <1>7. /\ jt[Threads] <= it[Threads] + n
        /\ it[Threads] \in Nat /\ jt[Threads] \in Nat
    BY <1>1, <1>2, <1>6
  <1> QED
    BY <1>1, <1>2, <1>7

(* When every usage is at most half of what it was, so is the sum.         *)
LEMMA TotalHalved ==
  ASSUME NEW f \in [Threads -> Nat], NEW g \in [Threads -> Nat],
         \A u \in Threads : 2 * g[u] <= f[u]
  PROVE  Total(f) \in Nat /\ Total(g) \in Nat /\ 2 * Total(g) <= Total(f)
  <1>1. PICK it : /\ Total(f) = it[Threads] /\ it \in [SUBSET Threads -> Nat]
                  /\ it[{}] = 0
                  /\ \A s \in SUBSET Threads :
                       s # {} => it[s] = f[Chosen(s)] + it[s \ {Chosen(s)}]
    BY TotalIs
  <1>2. PICK jt : /\ Total(g) = jt[Threads] /\ jt \in [SUBSET Threads -> Nat]
                  /\ jt[{}] = 0
                  /\ \A s \in SUBSET Threads :
                       s # {} => jt[s] = g[Chosen(s)] + jt[s \ {Chosen(s)}]
    BY TotalIs
  <1> DEFINE Q == {s \in SUBSET Threads : 2 * jt[s] <= it[s]}
  <1>3. {} \in Q
    BY <1>1, <1>2
  <1>4. \A s \in SUBSET Threads : s # {} /\ s \ {Chosen(s)} \in Q => s \in Q
    <2> SUFFICES ASSUME NEW s \in SUBSET Threads, s # {}, s \ {Chosen(s)} \in Q
                 PROVE  s \in Q
      OBVIOUS
    <2>0. PICK c \in s : c = Chosen(s)
      BY DEF Chosen
    <2>1. PICK r \in SUBSET Threads : r = s \ {c}
      OBVIOUS
    <2>2. 2 * jt[r] <= it[r]
      BY <2>0, <2>1
    <2>3. it[s] = f[c] + it[r] /\ jt[s] = g[c] + jt[r]
      BY <1>1, <1>2, <2>0, <2>1
    <2>4. /\ f[c] \in Nat /\ g[c] \in Nat /\ it[r] \in Nat /\ jt[r] \in Nat
          /\ 2 * g[c] <= f[c]
      BY <1>1, <1>2
    <2>5. 2 * jt[s] <= it[s]
      BY <2>2, <2>3, <2>4
    <2> QED
      BY <2>5
  <1>5. SUBSET Threads \subseteq Q
    <2> HIDE DEF Q
    <2> QED
      BY <1>3, <1>4, ThreadsAssumption, SetsBySize
  <1>6. Threads \in Q
    <2> HIDE DEF Q
    <2> QED
      BY <1>5
  <1>7. 2 * jt[Threads] <= it[Threads] /\ it[Threads] \in Nat /\ jt[Threads] \in Nat
    BY <1>1, <1>2, <1>6
  <1> QED
    BY <1>1, <1>2, <1>7

(* Nobody has used anything: the sum is 0.                                 *)
LEMMA TotalZero ==
  ASSUME NEW f \in [Threads -> Nat], \A u \in Threads : f[u] = 0
  PROVE  Total(f) = 0
  <1>1. PICK it : /\ Total(f) = it[Threads] /\ it \in [SUBSET Threads -> Nat]
                  /\ it[{}] = 0
                  /\ \A s \in SUBSET Threads :
                       s # {} => it[s] = f[Chosen(s)] + it[s \ {Chosen(s)}]
    BY TotalIs
  <1> DEFINE Q == {s \in SUBSET Threads : it[s] = 0}
  <1>2. {} \in Q
    BY <1>1
  <1>3. \A s \in SUBSET Threads : s # {} /\ s \ {Chosen(s)} \in Q => s \in Q
    <2> SUFFICES ASSUME NEW s \in SUBSET Threads, s # {}, s \ {Chosen(s)} \in Q
                 PROVE  s \in Q
      OBVIOUS
    <2>1. Chosen(s) \in Threads /\ s \ {Chosen(s)} \in SUBSET Threads
      BY DEF Chosen
    <2>2. it[s \ {Chosen(s)}] = 0
      OBVIOUS
    <2>3. it[s] = 0
      BY <1>1, <2>1, <2>2
    <2> QED
      BY <2>3
  <1>4. SUBSET Threads \subseteq Q
    <2> HIDE DEF Q
    <2> QED
      BY <1>2, <1>3, ThreadsAssumption, SetsBySize
  <1>5. Threads \in Q
    <2> HIDE DEF Q
    <2> QED
      BY <1>4
  <1> QED
    BY <1>1, <1>5

-----------------------------------------------------------------------------
(* Who is charged: not a tcb that is not in use; and the idle thread, whom *)
(* aging leaves out, does not count.                                       *)
UsageInv ==
  /\ state[cur_thread] # "FREE"
  /\ \A t \in Threads : state[t] = "FREE" => cnt[t] = 0
  /\ granted \in Nat
  /\ Total(Used(cnt)) <= AgePeriod + sched_timer + granted

(* The usages that count, when there are any.                              *)
LEMMA UsedIs ==
  ASSUME NEW f \in [Threads -> Nat]
  PROVE  /\ Used(f) \in [Threads -> Nat]
         /\ \A t \in Threads : Used(f)[t] = IF t = Idle THEN 0 ELSE f[t]
  BY DEF Used

(* The bound on usage, in terms of that sum.                               *)
LEMMA UsageIsTotal ==
  UsageBounded <=> Total(Used(cnt)) <= AgePeriod + sched_timer + granted
  BY DEF UsageBounded, Total, MapThenSumSet, MapThenFoldSet

(* A tcb that is in use stays so.                                          *)
LEMMA StaysInUse ==
  ASSUME RingInv, [Next]_vars
  PROVE  \A t \in Threads : state'[t] = "FREE" => state[t] = "FREE"
  <1> DEFINE Kept == \/ state' = state
                     \/ \E t, v : v # "FREE" /\ state' = [state EXCEPT ![t] = v]
  <1>0. state \in [Threads -> {"FREE", "READY", "WAITING"}]
    BY DEF RingInv, TypeOK
  <1>w. \A t : ThreadWakeup(t) \/ ThreadSleep(t) => Kept
    BY DEF ThreadWakeup, ThreadSleep, ring
  <1>v. \A s : SemaV(s) => Kept
    <2> HIDE DEF Kept
    <2>1. UNCHANGED ring => Kept
      BY DEF Kept, ring
    <2> QED
      BY <1>w, <2>1 DEF SemaV
  <1>1. Kept
    <2> HIDE DEF Kept
    <2>1. state' = state => Kept
      BY DEF Kept
    <2>2. \A t : CreateThread(t) => Kept
      BY DEF CreateThread, Kept
    <2>3. \A t, s : SemaPTake(t, s) \/ SemaPBlock(t, s) => Kept
      BY <1>w, <2>1 DEF SemaPTake, SemaPBlock, ring
    <2>4. ClockSchedule \/ (\E t \in Threads : SemaPSchedule(t)) => Kept
      BY <2>1 DEF ClockSchedule, SemaPSchedule, ring
    <2>5. (\E t \in Threads, l \in Locks : Release(t, l)) \/ (\E e \in Events : Post(e)) => Kept
      BY <1>v DEF Release, Post
    <2>6. UNCHANGED vars => Kept
      BY <2>1 DEF vars
    <2> QED
      BY <2>2, <2>3, <2>4, <2>5, <2>6 DEF Next
  <1> QED
    BY <1>0, <1>1

(* Every step keeps the usages within the bound.                           *)
LEMMA StepUsageInv ==
  ASSUME NoNegativePrio, RingInv, Usable, ClockInv, UsageInv, [SNext]_svars
  PROVE  UsageInv'
  <1> USE SchedNumbers
  <1>0. /\ cur_thread \in Threads /\ Idle \in Threads
        /\ cnt \in [Threads -> Nat] /\ granted \in Nat
        /\ state[cur_thread] # "FREE"
        /\ \A t \in Threads : state[t] = "FREE" => cnt[t] = 0
        /\ Total(Used(cnt)) <= AgePeriod + sched_timer + granted
        /\ sched_timer \in 0 .. AgePeriod - 1
    BY ThreadsAssumption DEF RingInv, TypeOK, Usable, UsageInv, ClockInv
  <1>f. \A t \in Threads : state'[t] = "FREE" => state[t] = "FREE"
    BY StepThreads, StaysInUse
  <1>n. Total(Used(cnt))' = Total(Used(cnt'))
    BY DEF Total, Used, MapThenSumSet, MapThenFoldSet
  <1>k. ASSUME cnt' = cnt, granted' = granted, sched_timer' = sched_timer,
               cur_thread' = cur_thread \/ cur_thread' \in Scanned
        PROVE  UsageInv'
    <2>1. cur_thread' \in Threads /\ state[cur_thread'] # "FREE"
      BY <1>0, <1>k, IntactRingScanned DEF ReadySet
    <2>2. state'[cur_thread'] # "FREE"
      BY <1>f, <2>1
    <2>3. Total(Used(cnt')) <= AgePeriod + sched_timer' + granted'
      BY <1>0, <1>k
    <2> QED
      BY <1>0, <1>f, <1>k, <1>n, <2>2, <2>3 DEF UsageInv
  <1>1. CASE \E t \in Threads : SCreateThread(t)
    <2>1. PICK t \in Threads : SCreateThread(t)
      BY <1>1
    <2>2. /\ state[t] = "FREE" /\ cnt' = [cnt EXCEPT ![t] = 0]
          /\ cur_thread' = cur_thread /\ sched_timer' = sched_timer
          /\ granted' = granted
      BY <2>1 DEF SCreateThread, CreateThread, clock
    <2>3. cnt' = cnt
      BY <1>0, <2>2
    <2> QED
      BY <1>k, <2>2, <2>3
  <1>2. CASE \E t \in Threads, s \in Semas : SSemaPTake(t, s) \/ SSemaPBlock(t, s)
    BY <1>k, <1>2 DEF SSemaPTake, SSemaPBlock, SemaPTake, SemaPBlock, usage, clock
  <1>3. CASE (\E t \in Threads, l \in Locks : SRelease(t, l)) \/ \E e \in Events : SPost(e)
    BY <1>k, <1>3 DEF SRelease, Release, SPost, Post, usage, clock
  <1>4. CASE ClockSwitch \/ \E t \in Threads : SSemaPSchedule(t)
    BY <1>k, <1>4, ScheduleByPriority DEF ClockSwitch, SSemaPSchedule
  <1>5. CASE ClockStay \/ ClockReturn \/ UNCHANGED svars
    BY <1>k, <1>5 DEF ClockStay, ClockReturn, svars, vars, usage, clock
  <1>7. CASE \E g \in Given : PrioCommand(g[1], g[2])
    <2>0. PICK g \in Given : PrioCommand(g[1], g[2])
      BY <1>7
    <2>1. PICK t \in Threads, n \in Nat : PrioCommand(t, n)
      BY <2>0 DEF NoNegativePrio
    <2>2. /\ n \in Nat /\ state[t] # "FREE" /\ UNCHANGED <<state, cur_thread, sched_timer>>
          /\ cnt' = [cnt EXCEPT ![t] = n] /\ granted' = granted + n
      BY <2>1 DEF PrioCommand, vars, clock
    <2>3. cnt' \in [Threads -> Nat]
      BY <1>0, <2>2
    <2>4. \A u \in Threads : Used(cnt')[u] <= IF u = t THEN Used(cnt)[u] + n ELSE Used(cnt)[u]
      <3> SUFFICES ASSUME NEW u \in Threads
                   PROVE  Used(cnt')[u] <= IF u = t THEN Used(cnt)[u] + n ELSE Used(cnt)[u]
        OBVIOUS
      <3>1. /\ Used(cnt)[u] = IF u = Idle THEN 0 ELSE cnt[u]
            /\ Used(cnt')[u] = IF u = Idle THEN 0 ELSE cnt'[u]
        BY DEF Used
      <3>2. cnt[u] \in Nat /\ cnt'[u] = IF u = t THEN n ELSE cnt[u]
        BY <1>0, <2>2
      <3> QED
        BY <2>2, <3>1, <3>2
    <2>5. Used(cnt) \in [Threads -> Nat] /\ Used(cnt') \in [Threads -> Nat]
      BY <1>0, <2>3, UsedIs
    <2>6. /\ Total(Used(cnt)) \in Nat /\ Total(Used(cnt')) \in Nat
          /\ Total(Used(cnt')) <= Total(Used(cnt)) + n
      BY <2>2, <2>4, <2>5, TotalCharged
    <2>7. Total(Used(cnt')) <= AgePeriod + sched_timer' + granted' /\ granted' \in Nat
      BY <1>0, <2>2, <2>6
    <2>8. \A u \in Threads : state'[u] = "FREE" => cnt'[u] = 0
      BY <1>0, <2>2
    <2> QED
      BY <1>0, <1>n, <2>2, <2>7, <2>8 DEF UsageInv
  <1>6. CASE ClockEnter
    <2> DEFINE charged == [cnt EXCEPT ![cur_thread] =
                             IF cur_thread # Idle THEN @ + 1 ELSE @]
    <2>0. cnt[cur_thread] \in Nat /\ cnt[cur_thread] + 1 \in Nat
      BY <1>0
    <2>1. charged \in [Threads -> Nat]
      BY <1>0, <2>0
    <2>2. /\ cnt' = [u \in Threads |-> IF Ages(u) THEN charged[u] \div 2 ELSE charged[u]]
          /\ sched_timer' = IF sched_timer + 1 >= AgePeriod THEN 0 ELSE sched_timer + 1
          /\ granted' = IF sched_timer + 1 >= AgePeriod THEN granted \div 2 ELSE granted
          /\ UNCHANGED vars
      BY <1>6 DEF ClockEnter
    <2>3. \A u \in Threads : charged[u] = IF u = cur_thread /\ u # Idle THEN cnt[u] + 1 ELSE cnt[u]
      BY <1>0
    <2>4. \A u \in Threads : state[u] = "FREE" => charged[u] = 0
      BY <1>0
    <2> HIDE DEF charged
    <2>5. \A u \in Threads : charged[u] \in Nat /\ charged[u] \div 2 \in Nat
                             /\ 2 * (charged[u] \div 2) <= charged[u]
      BY <2>1
    <2>6. cnt' \in [Threads -> Nat]
      BY <2>2, <2>5
    <2>7. /\ state'[cur_thread'] # "FREE"
          /\ \A u \in Threads : state'[u] = "FREE" => cnt'[u] = 0
      BY <1>0, <2>2, <2>4 DEF vars, Ages
    <2>10. /\ Used(cnt) \in [Threads -> Nat] /\ Used(cnt') \in [Threads -> Nat]
           /\ Used(charged) \in [Threads -> Nat]
           /\ \A u \in Threads :
                /\ Used(cnt)[u] = IF u = Idle THEN 0 ELSE cnt[u]
                /\ Used(cnt')[u] = IF u = Idle THEN 0 ELSE cnt'[u]
                /\ Used(charged)[u] = IF u = Idle THEN 0 ELSE charged[u]
      BY <1>0, <2>1, <2>6, UsedIs
    <2>11. /\ Total(Used(charged)) \in Nat
           /\ Total(Used(charged)) <= AgePeriod + sched_timer + granted + 1
      <3>1. \A u \in Threads :
              Used(charged)[u] <= IF u = cur_thread THEN Used(cnt)[u] + 1 ELSE Used(cnt)[u]
        BY <1>0, <2>3, <2>10
      <3>2. /\ Total(Used(cnt)) \in Nat /\ Total(Used(charged)) \in Nat
            /\ Total(Used(charged)) <= Total(Used(cnt)) + 1
        BY <1>0, <2>10, <3>1, TotalCharged
      <3> QED
        BY <1>0, <3>2
    <2>8. Total(Used(cnt')) <= AgePeriod + sched_timer' + granted' /\ granted' \in Nat
      <3>1. CASE sched_timer + 1 >= AgePeriod
        <4>1. \A u \in Threads : 2 * Used(cnt')[u] <= Used(charged)[u]
          BY <2>2, <2>4, <2>5, <2>10, <3>1 DEF Ages
        <4>2. /\ Total(Used(cnt')) \in Nat
              /\ 2 * Total(Used(cnt')) <= Total(Used(charged))
          BY <2>10, <4>1, TotalHalved
        <4>3. granted' = granted \div 2 /\ sched_timer' = 0
          BY <2>2, <3>1
        <4>4. \A x \in Nat : x \div 2 \in Nat /\ 2 * (x \div 2) >= x - 1
          OBVIOUS
        <4>5. granted' \in Nat /\ 2 * granted' >= granted - 1
          BY <1>0, <4>3, <4>4
        <4> QED
          BY <1>0, <2>11, <4>2, <4>3, <4>5
      <3>2. CASE ~(sched_timer + 1 >= AgePeriod)
        <4>1. \A u \in Threads : ~Ages(u)
          BY <3>2 DEF Ages
        <4>2. cnt' = charged
          BY <2>1, <2>2, <4>1
        <4> QED
          BY <1>0, <2>2, <2>11, <3>2, <4>2
      <3> QED
        BY <3>1, <3>2
    <2> QED
      BY <1>n, <2>7, <2>8 DEF UsageInv
  <1> QED
    BY <1>1, <1>2, <1>3, <1>4, <1>5, <1>6, <1>7 DEF SNext

(* The scheduler's numbers keep their ranges, and the usages of all        *)
(* threads together their bound, for any number of threads, any aging      *)
(* period and any quantum, and for all numbers users type after prio       *)
(* (sched.c:139-160, 247-290, syscon.c:351-363).                           *)
THEOREM SchedStaysSound ==
  ASSUME IdleNeverWaits, NoNegativePrio
  PROVE  SSpec => []SchedSound
  <1>1. SInit => UsageInv
    <2> SUFFICES ASSUME SInit PROVE UsageInv
      OBVIOUS
    <2>1. /\ cnt = [t \in Threads |-> 0] /\ sched_timer = 0 /\ granted = 0
          /\ Idle \in Threads /\ state[cur_thread] = "READY"
      BY ThreadsAssumption DEF SInit, Init
    <2>2. cnt \in [Threads -> Nat] /\ \A t \in Threads : cnt[t] = 0
      BY <2>1
    <2>3. Used(cnt) \in [Threads -> Nat] /\ \A t \in Threads : Used(cnt)[t] = 0
      BY <2>2, UsedIs
    <2>4. Total(Used(cnt)) = 0
      BY <2>3, TotalZero
    <2> QED
      BY <2>1, <2>2, <2>4, SchedNumbers DEF UsageInv
  <1>2. NoNegativePrio /\ RingInv /\ Usable /\ ClockInv /\ UsageInv /\ [SNext]_svars => UsageInv'
    BY StepUsageInv
  <1>3. RingInv /\ Usable /\ ClockInv /\ UsageInv => SchedSound
    <2> SUFFICES ASSUME RingInv, Usable, ClockInv, UsageInv PROVE SchedSound
      OBVIOUS
    <2>1. STypeOK
      <3>1. granted \in Nat
        BY DEF UsageInv
      <3> QED
        BY <3>1, Zenon DEF RingInv, Usable, ClockInv, STypeOK
    <2>2. UsageBounded
      BY UsageIsTotal DEF UsageInv
    <2> QED
      BY <2>1, <2>2 DEF SchedSound
  <1> QED
    BY <1>1, <1>2, <1>3, SchedRing, ClockInvariant, PTL DEF SSpec
=============================================================================
