-------------------------------- MODULE Port --------------------------------
(***************************************************************************)
(* Message passing of kern/msg.c: client threads in m_send(), server       *)
(* threads in m_receive(), and an interrupt handler in do_send().          *)
(*                                                                         *)
(* The port's queue is the chain of next pointers from head; m_receive()   *)
(* moves head on and never touches tail, so tail may name a message that   *)
(* left the queue long ago.  A step is a splhi() section, a semaphore call *)
(* or an access of a message that an interrupt may come between.           *)
(***************************************************************************)
EXTENDS Integers, Sequences, FiniteSets

CONSTANTS
  Clients,   \* threads that call m_send
  Servers,   \* threads that call m_receive in a loop
  Isr,       \* the id of the interrupt message
  Msgs,      \* the messages alloc_port() puts on the free list
  IsrMsg,    \* the message the interrupt handler owns (MF_INTERRUPT)
  Null,
  Sends,     \* messages each client sends
  MaxRef     \* bound on the interrupts counted in one qref

AllMsgs == Msgs \cup {IsrMsg}
Thrds   == Clients \cup Servers
Recv    == "recv"               \* port->recv; a message names its own lock
Sems    == AllMsgs \cup {Recv}

ASSUME PortAssumption ==
  /\ IsFiniteSet(Msgs) /\ Msgs # {} /\ IsrMsg \notin Msgs
  /\ IsFiniteSet(Clients) /\ IsFiniteSet(Servers)
  /\ Clients \cap Servers = {} /\ Isr \notin Clients
  /\ Null \notin AllMsgs /\ Recv \notin AllMsgs
  /\ Sends \in Nat /\ MaxRef \in Nat \ {0}

VARIABLES
  head, tail,      \* port->head, port->tail
  next,            \* message.next
  free_list,       \* port->free_list
  next_free,       \* message.next_free
  qref,            \* message.qref
  id,              \* message.id: who filled the message in
  count, wait_q,   \* the semaphores port->recv and message.lock
  asleep,          \* threads asleep in sema_p
  pc,              \* the next step of each thread
  msg,             \* the local variable msg of m_send and m_receive
  left             \* messages a client has yet to send

queue == <<head, tail, next>>
pool  == <<free_list, next_free>>
sema  == <<count, wait_q, asleep>>
vars  == <<queue, pool, qref, id, sema, pc, msg, left>>

Seqs == [1 .. Cardinality(Msgs) -> Msgs]

(* Mutant: port->recv keeps the count of 1 that sema_init() gave it.       *)
InitNoSetval ==
  /\ head = Null /\ tail = Null
  /\ next = [m \in AllMsgs |-> Null]
  /\ free_list = Null /\ next_free = [m \in AllMsgs |-> Null]
  /\ qref = [m \in AllMsgs |-> 0]
  /\ id = [m \in AllMsgs |-> IF m = IsrMsg THEN Isr ELSE Null]
  /\ count = [s \in Sems |-> IF s = Recv THEN 1 ELSE 0]
  /\ wait_q = [s \in Sems |-> << >>]
  /\ asleep = {}
  /\ pc = [t \in Thrds |-> "idle"]
  /\ msg = [t \in Thrds |-> Null]
  /\ left = [c \in Clients |-> Sends]

(* alloc_port(): empty queue, recv at 0, every message on the free list.   *)
Init ==
  /\ head = Null /\ tail = Null
  /\ next = [m \in AllMsgs |-> Null]
  /\ \E order \in Seqs :
       /\ \A i, j \in DOMAIN order : order[i] = order[j] => i = j
       /\ free_list = order[1]
       /\ next_free = [m \in AllMsgs |->
            IF \E i \in DOMAIN order : i + 1 \in DOMAIN order /\ order[i] = m
            THEN order[(CHOOSE i \in DOMAIN order : order[i] = m) + 1] ELSE Null]
  /\ qref = [m \in AllMsgs |-> 0]
  /\ id = [m \in AllMsgs |-> IF m = IsrMsg THEN Isr ELSE Null]
  /\ count = [s \in Sems |-> 0]
  /\ wait_q = [s \in Sems |-> << >>]
  /\ asleep = {}
  /\ pc = [t \in Thrds |-> "idle"]
  /\ msg = [t \in Thrds |-> Null]
  /\ left = [c \in Clients |-> Sends]

At(t, label) == t \notin asleep /\ pc[t] = label
Goto(t, label) == pc' = [pc EXCEPT ![t] = label]

(* sema_p(s) called by t: wait_q and hand-over as in module Threads.       *)
SemaP(t, s) ==
  /\ count' = [count EXCEPT ![s] = @ - 1]
  /\ \/ count[s] > 0 /\ UNCHANGED <<wait_q, asleep>>
     \/ /\ count[s] <= 0
        /\ wait_q' = [wait_q EXCEPT ![s] = Append(@, t)]
        /\ asleep' = asleep \cup {t}

SemaV(s) ==
  /\ count' = [count EXCEPT ![s] = @ + 1]
  /\ \/ wait_q[s] = << >> /\ UNCHANGED <<wait_q, asleep>>
     \/ /\ wait_q[s] # << >>
        /\ wait_q' = [wait_q EXCEPT ![s] = Tail(@)]
        /\ asleep' = asleep \ {Head(wait_q[s])}

(* Mutant: m->next is cleared first.                                       *)
EnqueueClearFirst(m) ==
  /\ next' = [n \in AllMsgs |-> IF n = tail THEN m ELSE IF n = m THEN Null ELSE next[n]]
  /\ tail' = m
  /\ head' = IF head = Null THEN m ELSE head

(* m_enq(): the old tail, perhaps long received, is made to point to m;    *)
(* then m->next is cleared, also when that old tail is m itself.           *)
Enqueue(m) ==
  /\ next' = [n \in AllMsgs |-> IF n = m THEN Null
                                ELSE IF n = tail THEN m ELSE next[n]]
  /\ tail' = m
  /\ head' = IF head = Null THEN m ELSE head

-----------------------------------------------------------------------------
(* m_send(): m_getfree(), which finds a message or has the send dropped.   *)
GetFree(c) ==
  /\ At(c, "idle") /\ left[c] > 0
  /\ left' = [left EXCEPT ![c] = @ - 1]
  /\ \/ /\ free_list = Null
        /\ UNCHANGED <<pool, pc, msg>>
     \/ /\ free_list # Null
        /\ msg' = [msg EXCEPT ![c] = free_list]
        /\ free_list' = next_free[free_list]
        /\ next_free' = [next_free EXCEPT ![free_list] = Null]
        /\ Goto(c, "send")
  /\ UNCHANGED <<queue, qref, id, sema>>

(* m_send() fills the message in, do_send() counts qref up and enqueues;   *)
(* nobody else knows the message until m_enq() has linked it.              *)
SendEnqueue(c) ==
  LET m == msg[c] IN
  /\ At(c, "send")
  /\ id' = [id EXCEPT ![m] = c]
  /\ qref' = [qref EXCEPT ![m] = @ + 1]
  /\ IF qref[m] + 1 > 1
     THEN Goto(c, "idle") /\ UNCHANGED queue
     ELSE Goto(c, "signal") /\ Enqueue(m)
  /\ UNCHANGED <<pool, sema, msg, left>>

(* do_send(): sema_v(&port->recv).                                         *)
SendSignal(c) ==
  /\ At(c, "signal")
  /\ SemaV(Recv)
  /\ Goto(c, "wait")
  /\ UNCHANGED <<queue, pool, qref, id, msg, left>>

(* do_send(): sema_p(&msg->lock), until the message has been taken.        *)
SendWait(c) ==
  /\ At(c, "wait")
  /\ SemaP(c, msg[c])
  /\ Goto(c, "putfree")
  /\ UNCHANGED <<queue, pool, qref, id, msg, left>>

(* Mutant: the message is not linked to the rest of the list.              *)
PutFreeUnlinked(c) ==
  /\ At(c, "putfree")
  /\ free_list' = msg[c]
  /\ msg' = [msg EXCEPT ![c] = Null]
  /\ Goto(c, "idle")
  /\ UNCHANGED <<queue, next_free, qref, id, sema, left>>

(* do_send(): m_putfree(), and m_send() returns.                           *)
PutFree(c) ==
  /\ At(c, "putfree")
  /\ next_free' = [next_free EXCEPT ![msg[c]] = free_list]
  /\ free_list' = msg[c]
  /\ msg' = [msg EXCEPT ![c] = Null]
  /\ Goto(c, "idle")
  /\ UNCHANGED <<queue, qref, id, sema, left>>

(* Mutant: recv is signalled also for a message that is only counted.      *)
IsrSendSignals ==
  /\ qref[IsrMsg] < MaxRef
  /\ qref' = [qref EXCEPT ![IsrMsg] = @ + 1]
  /\ \/ qref[IsrMsg] + 1 > 1 /\ UNCHANGED queue
     \/ qref[IsrMsg] + 1 <= 1 /\ Enqueue(IsrMsg)
  /\ SemaV(Recv)
  /\ UNCHANGED <<pool, id, pc, msg, left>>

(* do_send() of an interrupt message, with interrupts off throughout: one  *)
(* that is on the queue is only counted.                                   *)
IsrSend ==
  /\ qref[IsrMsg] < MaxRef
  /\ qref' = [qref EXCEPT ![IsrMsg] = @ + 1]
  /\ \/ /\ qref[IsrMsg] + 1 > 1
        /\ UNCHANGED <<queue, sema>>
     \/ /\ qref[IsrMsg] + 1 <= 1
        /\ Enqueue(IsrMsg)
        /\ SemaV(Recv)
  /\ UNCHANGED <<pool, id, pc, msg, left>>

-----------------------------------------------------------------------------
(* m_receive(): sema_p(&port->recv).                                       *)
ReceiveWait(s) ==
  /\ At(s, "idle")
  /\ SemaP(s, Recv)
  /\ Goto(s, "take")
  /\ UNCHANGED <<queue, pool, qref, id, msg, left>>

(* m_receive(): the first message, or -1 when there is none.               *)
ReceiveTake(s) ==
  /\ At(s, "take")
  /\ IF head = Null
     THEN Goto(s, "idle") /\ UNCHANGED <<head, msg>>
     ELSE /\ msg' = [msg EXCEPT ![s] = head]
          /\ head' = next[head]
          /\ Goto(s, "clear")
  /\ UNCHANGED <<tail, next, pool, qref, id, sema, left>>

(* Mutant: only an interrupt message's qref is cleared.                    *)
ReceiveClearIsrOnly(s) ==
  /\ At(s, "clear")
  /\ IF msg[s] = IsrMsg
     THEN /\ qref' = [qref EXCEPT ![IsrMsg] = 0]
          /\ Goto(s, "idle") /\ msg' = [msg EXCEPT ![s] = Null]
     ELSE Goto(s, "release") /\ UNCHANGED <<qref, msg>>
  /\ UNCHANGED <<queue, pool, id, sema, left>>

(* Mutant: every message is treated as an interrupt message.               *)
ReceiveClearNoReply(s) ==
  /\ At(s, "clear")
  /\ qref' = [qref EXCEPT ![msg[s]] = 0]
  /\ Goto(s, "idle") /\ msg' = [msg EXCEPT ![s] = Null]
  /\ UNCHANGED <<queue, pool, id, sema, left>>

(* m_receive(): qref is cleared; an interrupt message needs no more.  An   *)
(* interrupt that comes before this step is counted, and announced by no   *)
(* message of its own.                                                     *)
ReceiveClear(s) ==
  /\ At(s, "clear")
  /\ qref' = [qref EXCEPT ![msg[s]] = 0]
  /\ IF msg[s] = IsrMsg
     THEN Goto(s, "idle") /\ msg' = [msg EXCEPT ![s] = Null]
     ELSE Goto(s, "release") /\ UNCHANGED msg
  /\ UNCHANGED <<queue, pool, id, sema, left>>

(* m_receive(): the data is copied, then sema_v(&msg->lock).               *)
ReceiveRelease(s) ==
  /\ At(s, "release")
  /\ SemaV(msg[s])
  /\ msg' = [msg EXCEPT ![s] = Null]
  /\ Goto(s, "idle")
  /\ UNCHANGED <<queue, pool, qref, id, left>>

Client(c) == GetFree(c) \/ SendEnqueue(c) \/ SendSignal(c) \/ SendWait(c) \/ PutFree(c)
Server(s) == ReceiveWait(s) \/ ReceiveTake(s) \/ ReceiveClear(s) \/ ReceiveRelease(s)

Next ==
  \/ \E c \in Clients : Client(c)
  \/ \E s \in Servers : Server(s)
  \/ IsrSend

Spec == Init /\ [][Next]_vars

-----------------------------------------------------------------------------
(* Every value is of its kind, and recv counts no more messages than there *)
(* are: do_send() signals a message it links, and none it only counts.     *)
TypeOK ==
  /\ head \in AllMsgs \cup {Null} /\ tail \in AllMsgs \cup {Null}
  /\ next \in [AllMsgs -> AllMsgs \cup {Null}]
  /\ free_list \in Msgs \cup {Null} /\ next_free \in [AllMsgs -> Msgs \cup {Null}]
  /\ qref \in [AllMsgs -> 0 .. MaxRef]
  /\ id \in [AllMsgs -> Clients \cup {Isr, Null}]
  /\ count \in [Sems -> Int] /\ wait_q \in [Sems -> Seq(Thrds)]
  /\ count[Recv] <= Cardinality(AllMsgs)
  /\ asleep \subseteq Thrds
  /\ pc \in [Thrds -> {"idle", "send", "signal", "wait", "putfree",
                       "take", "clear", "release"}]
  /\ msg \in [Thrds -> AllMsgs \cup {Null}]
  /\ left \in [Clients -> 0 .. Sends]

(* The messages a chain of links leads through.                            *)
Chain(first, link) ==
  LET At_[i \in 0 .. Cardinality(AllMsgs)] ==
        IF i = 0 THEN first
        ELSE LET m == At_[i - 1] IN IF m = Null THEN Null ELSE link[m]
      N == Cardinality({i \in DOMAIN At_ : At_[i] # Null})
  IN [i \in 1 .. N |-> At_[i - 1]]

Queued == Chain(head, next)
Free   == Chain(free_list, next_free)
Elems(q) == {q[i] : i \in DOMAIN q}

(* A server that got past recv finds a message: m_receive() never returns  *)
(* -1 (msg.c:221-226), whoever was served and in whatever order.           *)
NoEmptyTake == \A s \in Servers : At(s, "take") => head # Null

(* The free list and the clients share the messages out: a message is on   *)
(* the list once, or in the hands of one client, never lost and never two  *)
(* clients'.                                                               *)
SlotsAccounted ==
  /\ Cardinality(Elems(Free)) = Len(Free)
  /\ \A m \in Msgs :
       Cardinality({c \in Clients : msg[c] = m}) = (IF m \in Elems(Free) THEN 0 ELSE 1)

(* A message given back is done with: it is on no queue, no server is      *)
(* still reading it, nobody counts it, and its lock is at 0 with nobody    *)
(* waiting, so that its next sender waits for its own reply.               *)
FreeIsQuiet ==
  \A m \in Elems(Free) :
    /\ m \notin Elems(Queued)
    /\ \A s \in Servers : msg[s] # m
    /\ qref[m] = 0 /\ count[m] = 0 /\ wait_q[m] = << >>

(* The message slots are sound: each is free or in one client's hands, and *)
(* a free one has been given up by queue, servers and counts.              *)
SlotsSound == TypeOK /\ SlotsAccounted /\ FreeIsQuiet

(* What the port promises: module Mailbox, with one slot per message.      *)
Stage(c) ==
  CASE pc[c] = "idle" -> "idle"
    [] pc[c] = "send" -> "begun"
    [] OTHER -> IF msg[c] \in Elems(Queued) THEN "sent" ELSE "taken"

Box == INSTANCE Mailbox WITH
  Slots <- Cardinality(Msgs),
  box   <- [i \in DOMAIN Queued |-> id[Queued[i]]],
  stage <- [c \in Clients |-> Stage(c)]

ImplementsMailbox == Box!Spec

(* Every thread that can run gets the processor (NoStarvation of Sched).   *)
FairSpec ==
  /\ Spec
  /\ \A c \in Clients : WF_vars(Client(c))
  /\ \A s \in Servers : WF_vars(Server(s))

(* A client that has linked its message returns from m_send(): the reply   *)
(* of the server is never lost, and reaches its own sender.                *)
ClientsReturn == \A c \in Clients : pc[c] = "signal" ~> pc[c] = "idle"
=============================================================================
