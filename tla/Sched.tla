------------------------------- MODULE Sched -------------------------------
(***************************************************************************)
(* The clock and the scheduler of kern/sched.c on top of Threads: cpu      *)
(* usage, priorities and their aging, quanta, the guard against nested     *)
(* clock interrupts, and the request to preempt the current thread.        *)
(*                                                                         *)
(* clock() turns interrupts on after setting in_clock, and schedule() may  *)
(* switch away in the middle of it: the handler's frame then stays on the  *)
(* stack of the interrupted thread until that thread runs again.  clk      *)
(* counts those frames; body says that the current thread's newest frame   *)
(* is before its call of schedule() and not behind it.                     *)
(***************************************************************************)
EXTENDS Threads, FiniteSetsExt

CONSTANTS
  Prio,        \* DEFAULT_PRIO
  Quanta,      \* DEFAULT_QUANTA
  MinQuanta,   \* MIN_QUANTA
  PerQuantum,  \* ready threads that shorten the quantum by one: 8
  AgePeriod,   \* clock ticks between two runs of sched_aging: 100
  PreemptMod,  \* 2 to the width of sched_preempt
  MaxFrames,   \* bound on the clock frames on one stack
  Given,       \* <<t, n>>: a user may type the tcb t and the number n after prio
  MaxGranted   \* bound on those that have not aged away

ASSUME SchedAssumption ==
  /\ {Prio, Quanta, MinQuanta, PerQuantum, AgePeriod, PreemptMod, MaxFrames}
       \subseteq Nat \ {0}
  /\ MinQuanta <= Quanta
  /\ Given \subseteq Threads \X Int /\ MaxGranted \in Nat

VARIABLES
  prio,           \* tcb.prio, the base priority
  cnt,            \* tcb.cnt, recent cpu usage in ticks
  cur_prio,       \* tcb.cur_prio
  quantum,        \* tcb.quantum
  in_clock,       \* a clock interrupt is being handled
  sched_timer,    \* ticks since the last run of sched_aging
  sched_preempt,  \* interrupt handlers ask for a preemption by counting it up
  clk,            \* clock() frames on each thread's kernel stack
  body,           \* the newest of them is before schedule(), on cur_thread
  granted         \* the usage that users gave to threads, aged as usage is

usage == <<prio, cnt, cur_prio, quantum, granted>>
clock == <<in_clock, sched_timer, sched_preempt, clk, body>>
svars == <<vars, usage, clock>>

SInit ==
  /\ Init
  /\ prio = [t \in Threads |-> Prio]
  /\ cnt = [t \in Threads |-> 0] /\ granted = 0
  /\ cur_prio = [t \in Threads |-> Prio]
  /\ quantum = [t \in Threads |-> Quanta]
  /\ in_clock = 0
  /\ sched_timer = 0
  /\ sched_preempt = 0
  /\ clk = [t \in Threads |-> 0]
  /\ body = FALSE

(* Mutant: no floor.                                                       *)
PrioNoFloor(p, c) == p - c \div 2

(* Mutant: usage does not count.                                           *)
PrioFlat(p, c) == p

(* cur_prio = prio - (cnt >> 1), and not below 0.                          *)
PrioOf(p, c) == IF p - c \div 2 < 0 THEN 0 ELSE p - c \div 2

(* The i-th tcb after the head along next_ready.                           *)
ScanPos ==
  LET At[i \in 0 .. Cardinality(Threads)] ==
        IF i = 0 THEN Idle ELSE next_ready[At[i - 1]]
  IN  [t \in Threads |-> Min({i \in 0 .. Cardinality(Threads) : i > 0 /\ At[i] = t})]

(* Mutant: the loop starts from c = 0 and wants more.                      *)
BestAboveZero(now) ==
  LET seen == {t \in Scanned \ {Idle} : now[t] > 0}
  IN  IF seen = {} THEN Idle
      ELSE CHOOSE t \in seen :
             \A u \in seen \ {t} :
               \/ now[t] > now[u]
               \/ now[t] = now[u] /\ ScanPos[t] < ScanPos[u]

(* The first tcb with the highest priority above -1, else the head.        *)
BestOf(now) ==
  LET seen == {t \in Scanned \ {Idle} : now[t] > -1}
  IN  IF seen = {} THEN Idle
      ELSE CHOOSE t \in seen :
             \A u \in seen \ {t} :
               \/ now[t] > now[u]
               \/ now[t] = now[u] /\ ScanPos[t] < ScanPos[u]

(* Mutant: many ready threads leave no quantum.                            *)
RefillNoMin(q) == IF q > 0 THEN q ELSE q + (Quanta - ready_count \div PerQuantum)

(* An exhausted quantum is refilled, less when many threads are ready.     *)
Refill(q) ==
  IF q > 0 THEN q ELSE Max({MinQuanta, q + (Quanta - ready_count \div PerQuantum)})

(* Mutant: in_clock is not cleared when clock() is switched away from.     *)
SScheduleInClock ==
  LET now  == [cur_prio EXCEPT ![cur_thread] = PrioOf(prio[cur_thread], cnt[cur_thread])]
      next == BestOf(now)
  IN  /\ cur_prio' = now
      /\ UNCHANGED in_clock
      /\ \/ /\ Idle \in Scanned
            /\ cur_thread' = next
            /\ quantum' = [quantum EXCEPT ![next] = Refill(@)]
            /\ UNCHANGED spinning
         \/ /\ Idle \notin Scanned
            /\ spinning' = TRUE
            /\ UNCHANGED <<cur_thread, quantum>>

(* schedule() with its priorities.                                         *)
SSchedule ==
  LET now  == [cur_prio EXCEPT ![cur_thread] = PrioOf(prio[cur_thread], cnt[cur_thread])]
      next == BestOf(now)
  IN  /\ cur_prio' = now
      /\ \/ /\ Idle \in Scanned
            /\ cur_thread' = next
            /\ quantum' = [quantum EXCEPT ![next] = Refill(@)]
            /\ in_clock' = IF next # cur_thread THEN 0 ELSE in_clock
            /\ UNCHANGED spinning
         \/ /\ Idle \notin Scanned
            /\ spinning' = TRUE
            /\ UNCHANGED <<cur_thread, quantum, in_clock>>

-----------------------------------------------------------------------------
(* What threads and other interrupt handlers do, with the fields it sets.  *)
SCreateThread(t) ==
  /\ clk[cur_thread] = 0
  /\ CreateThread(t)
  /\ prio' = [prio EXCEPT ![t] = Prio]
  /\ cnt' = [cnt EXCEPT ![t] = 0]
  /\ cur_prio' = [cur_prio EXCEPT ![t] = Prio]
  /\ quantum' = [quantum EXCEPT ![t] = Quanta]
  /\ UNCHANGED <<clock, granted>>

SSemaPTake(t, s) ==
  /\ clk[t] = 0
  /\ SemaPTake(t, s)
  /\ UNCHANGED <<usage, clock>>

(* thread_sleep() lets the thread start afresh with its base priority.     *)
SSemaPBlock(t, s) ==
  /\ clk[t] = 0
  /\ SemaPBlock(t, s)
  /\ cur_prio' = IF state[t] = "WAITING" THEN cur_prio
                 ELSE [cur_prio EXCEPT ![t] = prio[t]]
  /\ UNCHANGED <<prio, cnt, quantum, granted, clock>>

SSemaPSchedule(t) ==
  /\ ~spinning /\ cur_thread = t /\ at[t] = "p_sched" /\ clk[t] = 0
  /\ at' = [at EXCEPT ![t] = "run"]
  /\ SSchedule
  /\ UNCHANGED <<ring, count, wait_q, hold, prio, cnt, granted, sched_timer,
                 sched_preempt, clk, body>>

SRelease(t, l) ==
  /\ clk[t] = 0
  /\ Release(t, l)
  /\ UNCHANGED <<usage, clock>>

(* ide_io_done(): the handler posts the event and asks for a preemption.   *)
SPost(e) ==
  /\ Post(e)
  /\ sched_preempt' = (sched_preempt + 1) % PreemptMod
  /\ UNCHANGED <<usage, in_clock, sched_timer, clk, body>>

(* The console command prio gives any thread a new base priority, and as   *)
(* much usage; cur_prio stays as it is.  The address typed is that of a    *)
(* tcb in use.  The two writes are one step: a tick between them does one  *)
(* more computation of cur_prio, with the old base priority.               *)
PrioCommand(t, n) ==
  /\ Running(Syscon) /\ hold[Syscon] = {} /\ clk[Syscon] = 0
  /\ state[t] # "FREE"
  /\ prio' = [prio EXCEPT ![t] = n]
  /\ cnt' = [cnt EXCEPT ![t] = n]
  /\ granted + n <= MaxGranted
  /\ granted' = granted + n
  /\ UNCHANGED <<vars, cur_prio, quantum, clock>>

-----------------------------------------------------------------------------
(* Mutant: only the threads that are ready are aged.                       *)
AgesReady(t) == sched_timer + 1 >= AgePeriod /\ t # Idle /\ state[t] = "READY"

(* sched_aging(): every thread but the head loses half of its usage.       *)
Ages(t) == sched_timer + 1 >= AgePeriod /\ t # Idle /\ state[t] # "FREE"

(* clock() up to the decision to schedule: the tick is charged, usage ages *)
(* once per period.  A tick that finds in_clock set returns at once.       *)
ClockEnter ==
  LET t == cur_thread
      charged == [cnt EXCEPT ![t] = IF t # Idle THEN @ + 1 ELSE @]
  IN  /\ ~spinning
      /\ in_clock = 0
      /\ clk[t] < MaxFrames
      /\ in_clock' = 1
      /\ clk' = [clk EXCEPT ![t] = @ + 1]
      /\ body' = TRUE
      /\ quantum' = [quantum EXCEPT ![t] = @ - 1]
      /\ sched_timer' = IF sched_timer + 1 >= AgePeriod THEN 0 ELSE sched_timer + 1
      /\ cnt' = [u \in Threads |->
                   IF Ages(u) THEN charged[u] \div 2 ELSE charged[u]]
      /\ cur_prio' = [u \in Threads |->
                   IF Ages(u) THEN PrioOf(prio[u], charged[u] \div 2) ELSE cur_prio[u]]
      /\ granted' = IF sched_timer + 1 >= AgePeriod THEN granted \div 2 ELSE granted
      /\ UNCHANGED <<vars, prio, sched_preempt>>

(* The quantum is left and sched_preempt reads 0: clock() just returns.    *)
(* The test counts sched_preempt down whatever it reads.                   *)
ClockStay ==
  /\ ~spinning /\ body
  /\ quantum[cur_thread] > 0
  /\ sched_preempt = 0
  /\ sched_preempt' = PreemptMod - 1
  /\ body' = FALSE
  /\ UNCHANGED <<vars, usage, in_clock, sched_timer, clk>>

(* The quantum has run out, or sched_preempt reads not 0: schedule().      *)
ClockSwitch ==
  /\ ~spinning /\ body
  /\ \/ quantum[cur_thread] <= 0 /\ UNCHANGED sched_preempt
     \/ /\ quantum[cur_thread] > 0
        /\ sched_preempt # 0
        /\ sched_preempt' = sched_preempt - 1
  /\ body' = FALSE
  /\ SSchedule
  /\ UNCHANGED <<ring, at, count, wait_q, hold, prio, cnt, granted, sched_timer, clk>>

(* The end of clock(), perhaps long after schedule() switched away in it.  *)
ClockReturn ==
  /\ ~spinning /\ ~body
  /\ clk[cur_thread] > 0
  /\ in_clock' = 0
  /\ clk' = [clk EXCEPT ![cur_thread] = @ - 1]
  /\ UNCHANGED <<vars, usage, sched_timer, sched_preempt, body>>

SNext ==
  \/ \E t \in Threads : SCreateThread(t)
  \/ \E t \in Threads, s \in Semas : SSemaPTake(t, s) \/ SSemaPBlock(t, s)
  \/ \E t \in Threads : SSemaPSchedule(t)
  \/ \E t \in Threads, l \in Locks : SRelease(t, l)
  \/ \E e \in Events : SPost(e)
  \/ \E g \in Given : PrioCommand(g[1], g[2])
  \/ ClockEnter
  \/ ClockStay
  \/ ClockSwitch
  \/ ClockReturn

SSpec == SInit /\ [][SNext]_svars

(* The processor goes on: ticks keep coming, clock() runs to its end, and  *)
(* a thread that keeps getting the processor gets on between the ticks.    *)
SFair ==
  /\ WF_svars(ClockEnter)
  /\ WF_svars(ClockStay \/ ClockSwitch \/ ClockReturn)
  /\ \A t \in Threads : SF_svars(SSemaPSchedule(t))

FairSSpec == SSpec /\ SFair

(* Critical sections are finite: a thread that holds a lock and keeps      *)
(* getting the processor comes to its sema_v.                              *)
ReleasingSSpec ==
  FairSSpec /\ \A t \in Threads, l \in Locks : SF_svars(SRelease(t, l))
-----------------------------------------------------------------------------
STypeOK ==
  /\ TypeOK
  /\ prio \in [Threads -> Nat] /\ cnt \in [Threads -> Nat] /\ granted \in Nat
  /\ cur_prio \in [Threads -> Nat]
  /\ quantum \in [Threads -> 0 .. Quanta]
  /\ in_clock \in {0, 1}
  /\ sched_timer \in 0 .. AgePeriod - 1
  /\ sched_preempt \in 0 .. PreemptMod - 1
  /\ clk \in [Threads -> 0 .. MaxFrames]
  /\ body \in BOOLEAN

(* What the numbers below need of the users: they type none below 0.  A    *)
(* thread whose base priority is negative is out of sight of schedule()    *)
(* from thread_sleep(), which has no floor (thread.c:145), to the next     *)
(* aging.                                                                  *)
NoNegativePrio == Given \subseteq Threads \X Nat

(* Whoever has set in_clock is the current thread and will clear it: the   *)
(* flag is never left behind on the stack of a thread that was switched    *)
(* away, where it would make every later tick return at once (sched.c:256, *)
(* 207, 290).                                                              *)
ClockNotLost == in_clock = 1 => clk[cur_thread] > 0

(* The cpu usage of the threads but the idle one together is at most the   *)
(* ticks since the last aging and one period more, and what users gave out *)
(* with the command prio and has not aged away: halving balances charging, *)
(* and a thread that does not run regains its base priority.               *)
Used(f) == [t \in Threads |-> IF t = Idle THEN 0 ELSE f[t]]

UsageBounded ==
  MapThenSumSet(LAMBDA t : Used(cnt)[t], Threads) <= AgePeriod + sched_timer + granted

(* The scheduler's numbers keep their ranges through nested ticks, aging,  *)
(* requests and the command prio: no priority below its floor, no usage    *)
(* beyond the ticks and what users gave.                                   *)
SchedSound == STypeOK /\ UsageBounded

(* Outside clock() the current thread always has quantum left: whoever     *)
(* schedule() chose has been given some (sched.c:194-204), whatever the    *)
(* number of ready threads and however it lost the processor before.       *)
QuantumLeft == ~body => quantum[cur_thread] >= 1

(* Choosing by priority refines the choice Threads leaves open: the loop's *)
(* c = -1 and the floor of cur_prio make every ready thread better than    *)
(* the head, so the idle thread runs only when it is alone.                *)
ImplementsThreads == Spec

(* No ready thread starves: usage ages away while a thread waits, woken    *)
(* threads queue behind it in the ring, and the quantum ends every turn.   *)
NoStarvation ==
  \A t \in Threads \ {Idle} : state[t] = "READY" ~> cur_thread = t

(* Whoever waits for a lock gets it: the hand-over in sema_v, the place at *)
(* the tail of the ring and the scheduler's choice together leave nobody   *)
(* behind, if the holders come to their sema_v.                            *)
WaitersServed ==
  \A t \in Threads, l \in Locks : t \in Waiters(l) ~> l \in hold[t]

=============================================================================
