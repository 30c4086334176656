----------------------------- MODULE PortProofs -----------------------------
(***************************************************************************)
(* Proofs about kern/msg.c (module Port): the slots are sound, a server    *)
(* that got past recv finds a message, and the port is a Mailbox, for any  *)
(* number of clients, servers and slots.                                   *)
(***************************************************************************)
EXTENDS Port, Chains

(* TypeOK but for the bound on recv, which follows from the rest.          *)
Typed ==
  /\ head \in AllMsgs \cup {Null} /\ tail \in AllMsgs \cup {Null}
  /\ next \in [AllMsgs -> AllMsgs \cup {Null}]
  /\ free_list \in Msgs \cup {Null} /\ next_free \in [AllMsgs -> Msgs \cup {Null}]
  /\ qref \in [AllMsgs -> 0 .. MaxRef]
  /\ id \in [AllMsgs -> Clients \cup {Isr, Null}]
  /\ count \in [Sems -> Int] /\ wait_q \in [Sems -> Seq(Thrds)]
  /\ asleep \subseteq Thrds
  /\ pc \in [Thrds -> {"idle", "send", "signal", "wait", "putfree",
                       "take", "clear", "release"}]
  /\ msg \in [Thrds -> AllMsgs \cup {Null}]
  /\ left \in [Clients -> 0 .. Sends]

(* The queue and the free list are lists, and tail names the last message  *)
(* of a queue that is not empty.                                           *)
Lists ==
  /\ Queued \in Seq(AllMsgs) /\ IsList(Queued, head, next, Null) /\ Distinct(Queued)
  /\ Queued # << >> => tail = Queued[Len(Queued)]
  /\ Free \in Seq(Msgs) /\ IsList(Free, free_list, next_free, Null) /\ Distinct(Free)

(* Every slot is free or one client's.                                     *)
Slotted ==
  /\ \A c \in Clients :
       /\ pc[c] \in {"idle", "send", "signal", "wait", "putfree"}
       /\ msg[c] = Null <=> pc[c] = "idle"
       /\ msg[c] # Null => msg[c] \in Msgs /\ msg[c] \notin Members(Free)
  /\ \A c, d \in Clients : msg[c] = msg[d] /\ msg[c] # Null => c = d
  /\ \A m \in Msgs : m \in Members(Free) \/ \E c \in Clients : msg[c] = m

(* What the servers hold is theirs alone and off the queue.                *)
Served ==
  /\ \A s \in Servers :
       /\ pc[s] \in {"idle", "take", "clear", "release"}
       /\ msg[s] = Null <=> pc[s] \in {"idle", "take"}
       /\ pc[s] = "release" => msg[s] \in Msgs
       /\ msg[s] \notin Members(Queued)
  /\ \A s, z \in Servers : msg[s] = msg[z] /\ msg[s] # Null => s = z

Held(m)    == \E s \in Servers : msg[s] = m
Pending(m) == m \in Members(Queued) \/ Held(m)

(* qref counts what is queued or was taken and not yet cleared.            *)
Counted ==
  /\ \A m \in AllMsgs :
       qref[m] > 0 <=> \/ m \in Members(Queued)
                       \/ \E s \in Servers : pc[s] = "clear" /\ msg[s] = m
  /\ \A m \in Msgs : qref[m] <= 1

Quiet(m) == ~ Pending(m) /\ count[m] = 0 /\ wait_q[m] = << >>

(* The lock of the message a client sends is down for it exactly until the *)
(* message was replied to.                                                 *)
Locked(c) ==
  /\ pc[c] = "idle" => c \notin asleep
  /\ pc[c] = "send" => c \notin asleep /\ Quiet(msg[c])
  /\ pc[c] \in {"signal", "wait"} =>
       /\ c \notin asleep /\ wait_q[msg[c]] = << >>
       /\ count[msg[c]] = IF Pending(msg[c]) THEN 0 ELSE 1
  /\ pc[c] = "putfree" =>
       IF c \in asleep
       THEN Pending(msg[c]) /\ count[msg[c]] = -1 /\ wait_q[msg[c]] = <<c>>
       ELSE Quiet(msg[c])
  /\ pc[c] \in {"signal", "wait", "putfree"} => id[msg[c]] = c

(* A message nobody sends has a lock at rest.                              *)
Replied ==
  /\ count[IsrMsg] = 0 /\ wait_q[IsrMsg] = << >> /\ id[IsrMsg] = Isr
  /\ \A m \in Members(Free) : Quiet(m)
  /\ \A c \in Clients : Locked(c)

(* recv counts the queued messages that were announced and not yet asked   *)
(* for; servers wait for it only when there are none.                      *)
Signalling == {c \in Clients : pc[c] = "signal"}
Taking     == {s \in Servers : pc[s] = "take" /\ s \notin asleep}
Announced ==
  /\ Len(Queued) = Cardinality(Signalling) + Cardinality(Taking)
                   + IF count[Recv] > 0 THEN count[Recv] ELSE 0
  /\ Len(wait_q[Recv]) = IF count[Recv] < 0 THEN 0 - count[Recv] ELSE 0
  /\ wait_q[Recv] \in Seq(Servers) /\ Distinct(wait_q[Recv])
  /\ \A s \in Servers : s \in Members(wait_q[Recv]) <=> s \in asleep
  /\ \A s \in Servers : s \in asleep => pc[s] = "take"

Inv == Typed /\ Lists /\ Slotted /\ Served /\ Counted /\ Replied /\ Announced

-----------------------------------------------------------------------------
(* Messages, the semaphore recv and the threads are told apart.            *)
LEMMA MsgFacts ==
  /\ IsFiniteSet(AllMsgs) /\ Cardinality(AllMsgs) \in Nat
  /\ Null \notin AllMsgs /\ Recv \notin AllMsgs /\ IsrMsg \in AllMsgs /\ IsrMsg \notin Msgs
  /\ \A m \in Msgs : m \in AllMsgs
  /\ \A c \in Clients : c \in Thrds /\ c \notin Servers /\ c # Isr
  /\ \A s \in Servers : s \in Thrds /\ s \notin Clients
  /\ Recv \in Sems /\ \A m \in AllMsgs : m \in Sems /\ m # Recv
  <1>1. IsFiniteSet(AllMsgs) /\ Cardinality(AllMsgs) \in Nat
    BY PortAssumption, FS_AddElement, FS_CardinalityType DEF AllMsgs
  <1> QED
    BY <1>1, PortAssumption DEF AllMsgs, Thrds, Sems

(* Following the links from the first element of a list yields the list.   *)
LEMMA ChainOfList ==
  ASSUME NEW first, NEW link, NEW q \in Seq(AllMsgs),
         IsList(q, first, link, Null), Distinct(q)
  PROVE  Chain(first, link) = q
  <1> DEFINE N == Cardinality(AllMsgs)
             At_[i \in 0 .. N] ==
               IF i = 0 THEN first
               ELSE LET m == At_[i - 1] IN IF m = Null THEN Null ELSE link[m]
             w == [i \in 0 .. N |-> IF i < Len(q) THEN q[i + 1] ELSE Null]
  <1>1. N \in Nat /\ Len(q) \in Nat
    BY MsgFacts
  <1>2. Len(q) <= N
    BY MsgFacts, DistinctLen, FS_Subset
  <1>3. \E f : f = [i \in 0 .. N |->
                      IF i = 0 THEN first
                      ELSE LET m == f[i - 1] IN IF m = Null THEN Null ELSE link[m]]
    <2>1. w = [i \in 0 .. N |->
                 IF i = 0 THEN first
                 ELSE IF w[i - 1] = Null THEN Null ELSE link[w[i - 1]]]
      <3> HIDE DEF N
      <3> QED
        BY <1>1, <1>2, ListHasWalk
    <2> HIDE DEF w
    <2> QED
      BY <2>1
  <1>4. At_ = [i \in 0 .. N |->
                 IF i = 0 THEN first
                 ELSE LET m == At_[i - 1] IN IF m = Null THEN Null ELSE link[m]]
    BY <1>3
  <1>5. Chain(first, link)
          = [i \in 1 .. Cardinality({i \in DOMAIN At_ : At_[i] # Null}) |-> At_[i - 1]]
    BY DEF Chain
  <1> HIDE DEF At_, N
  <1>6. At_ = w
    <2>1. IsPath(At_, N, first, link, Null)
      BY <1>4 DEF IsPath
    <2> QED
      BY <1>1, <1>2, <2>1, WalkOfList
  <1>7. \A i \in 1 .. Len(q) : q[i] # Null
    BY DEF IsList
  <1> HIDE DEF w
  <1>8. /\ Cardinality({i \in DOMAIN At_ : At_[i] # Null}) = Len(q)
        /\ [i \in 1 .. Len(q) |-> At_[i - 1]] = q
    BY <1>1, <1>2, <1>6, <1>7, WalkCounts DEF w
  <1> QED
    BY <1>5, <1>8

(* Queue and free list read off the links are the lists q and f.           *)
LEMMA ListsFromLinks ==
  ASSUME NEW q \in Seq(AllMsgs), NEW f \in Seq(Msgs), Distinct(q), Distinct(f),
         IsList(q, head, next, Null), IsList(f, free_list, next_free, Null),
         q # << >> => tail = q[Len(q)]
  PROVE  Lists /\ Queued = q /\ Free = f
  <1>1. f \in Seq(AllMsgs)
    BY MsgFacts
  <1>2. Queued = q /\ Free = f
    BY <1>1, ChainOfList DEF Queued, Free
  <1> QED
    BY <1>2 DEF Lists

(* The same of the next state.                                             *)
LEMMA ListsFromLinksNext ==
  ASSUME NEW q \in Seq(AllMsgs), NEW f \in Seq(Msgs), Distinct(q), Distinct(f),
         IsList(q, head', next', Null), IsList(f, free_list', next_free', Null),
         q # << >> => tail' = q[Len(q)]
  PROVE  Lists' /\ Queued' = q /\ Free' = f
  <1>1. f \in Seq(AllMsgs)
    BY MsgFacts
  <1>2. Queued' = q /\ Free' = f
    BY <1>1, ChainOfList DEF Queued, Free
  <1> QED
    BY <1>2 DEF Lists

(* A section that leaves the links alone leaves queue and free list alone. *)
LEMMA LinksSame ==
  ASSUME Lists, UNCHANGED queue, UNCHANGED pool
  PROVE  Lists' /\ Queued' = Queued /\ Free' = Free
  <1>1. head' = head /\ tail' = tail /\ next' = next
        /\ free_list' = free_list /\ next_free' = next_free
    BY DEF queue, pool
  <1>2. Queued' = Queued /\ Free' = Free
    BY <1>1 DEF Queued, Free
  <1> QED
    BY <1>1, <1>2 DEF Lists

(* m_enq() puts a message that is not queued at the end, whatever tail is. *)
LEMMA EnqueueAppends ==
  ASSUME Typed, Lists, NEW m \in AllMsgs, m \notin Members(Queued), Enqueue(m),
         UNCHANGED pool
  PROVE  /\ Lists' /\ Free' = Free /\ Queued' = Append(Queued, m)
         /\ Members(Queued') = Members(Queued) \cup {m}
         /\ Len(Queued') = Len(Queued) + 1
  <1> DEFINE q == Queued
  <1>1. /\ q \in Seq(AllMsgs) /\ IsList(q, head, next, Null) /\ Distinct(q)
        /\ q # << >> => tail = q[Len(q)]
        /\ Len(q) \in Nat /\ m \notin Members(q)
    BY DEF Lists
  <1>2. /\ next' = [n \in AllMsgs |-> IF n = m THEN Null
                                      ELSE IF n = tail THEN m ELSE next[n]]
        /\ tail' = m /\ head' = IF head = Null THEN m ELSE head
    BY DEF Enqueue
  <1>3. free_list' = free_list /\ next_free' = next_free
    BY DEF pool
  <1> HIDE DEF q
  <1>4. \A i \in 1 .. Len(q) : q[i] \in AllMsgs /\ q[i] # m
    BY <1>1 DEF Members
  <1>5. next'[m] = Null /\ m # Null
    BY <1>2, MsgFacts
  <1>6. q # << >> => next'[q[Len(q)]] = m
    BY <1>1, <1>2, <1>4
  <1>7. \A i \in 1 .. Len(q) - 1 : next'[q[i]] = next[q[i]]
    <2> SUFFICES ASSUME NEW i \in 1 .. Len(q) - 1 PROVE next'[q[i]] = next[q[i]]
      OBVIOUS
    <2>1. i \in 1 .. Len(q) /\ Len(q) \in 1 .. Len(q) /\ i # Len(q) /\ q # << >>
      BY <1>1
    <2>2. q[i] # q[Len(q)]
      BY <1>1, <2>1 DEF Distinct
    <2> QED
      BY <1>1, <1>2, <1>4, <2>1, <2>2
  <1>8. /\ IsList(Append(q, m), head', next', Null)
        /\ Distinct(Append(q, m)) /\ Append(q, m) \in Seq(AllMsgs)
        /\ Members(Append(q, m)) = Members(q) \cup {m}
    BY <1>1, <1>2, <1>5, <1>6, <1>7, ListAppend
  <1>9. tail' = Append(q, m)[Len(Append(q, m))] /\ Len(Append(q, m)) = Len(q) + 1
    BY <1>1, <1>2
  <1>10. /\ Free \in Seq(Msgs) /\ IsList(Free, free_list', next_free', Null)
         /\ Distinct(Free)
    BY <1>3 DEF Lists
  <1>11. Lists' /\ Queued' = Append(q, m) /\ Free' = Free
    BY <1>8, <1>9, <1>10, ListsFromLinksNext
  <1> QED
    BY <1>8, <1>9, <1>11 DEF q

(* m_receive() takes the first message; tail and the links stay.           *)
LEMMA TakeRemoves ==
  ASSUME Typed, Lists, head # Null, head' = next[head], UNCHANGED <<tail, next>>,
         UNCHANGED pool
  PROVE  /\ Lists' /\ Free' = Free /\ Queued # << >> /\ head = Queued[1]
         /\ Queued' = Tail(Queued)
         /\ Members(Queued') = Members(Queued) \ {head} /\ head \in Members(Queued)
         /\ Len(Queued') = Len(Queued) - 1
  <1> DEFINE q == Queued
  <1>1. /\ q \in Seq(AllMsgs) /\ IsList(q, head, next, Null) /\ Distinct(q)
        /\ q # << >> => tail = q[Len(q)]
        /\ Len(q) \in Nat
    BY DEF Lists
  <1>2. free_list' = free_list /\ next_free' = next_free
    BY DEF pool
  <1> HIDE DEF q
  <1>3. /\ q # << >> /\ head = q[1]
        /\ IsList(Tail(q), head', next', Null) /\ Distinct(Tail(q))
        /\ Tail(q) \in Seq(AllMsgs)
        /\ Members(Tail(q)) = Members(q) \ {head} /\ head \in Members(q)
    BY <1>1, ListTail
  <1>4. Len(Tail(q)) = Len(q) - 1
        /\ (Tail(q) # << >> => tail' = Tail(q)[Len(Tail(q))])
    BY <1>1, <1>3
  <1>5. /\ Free \in Seq(Msgs) /\ IsList(Free, free_list', next_free', Null)
        /\ Distinct(Free)
    BY <1>2 DEF Lists
  <1>6. Lists' /\ Queued' = Tail(q) /\ Free' = Free
    BY <1>3, <1>4, <1>5, ListsFromLinksNext
  <1> QED
    BY <1>3, <1>4, <1>6 DEF q

(* m_getfree() takes the first free message.                               *)
LEMMA GetFreeRemoves ==
  ASSUME Typed, Lists, free_list # Null, free_list' = next_free[free_list],
         \A n \in AllMsgs : n # free_list => next_free'[n] = next_free[n],
         UNCHANGED queue
  PROVE  /\ Lists' /\ Queued' = Queued /\ Free' = Tail(Free)
         /\ Members(Free') = Members(Free) \ {free_list}
         /\ free_list \in Members(Free) /\ Len(Free') = Len(Free) - 1
  <1> DEFINE f == Free
  <1>1. f \in Seq(Msgs) /\ IsList(f, free_list, next_free, Null) /\ Distinct(f)
        /\ Len(f) \in Nat
    BY DEF Lists
  <1>2. head' = head /\ next' = next /\ tail' = tail
    BY DEF queue
  <1> HIDE DEF f
  <1>3. f # << >> /\ f[1] = free_list /\ 1 \in DOMAIN f
    BY <1>1 DEF IsList
  <1>4. \A i \in 2 .. Len(f) : next_free'[f[i]] = next_free[f[i]]
    <2> SUFFICES ASSUME NEW i \in 2 .. Len(f) PROVE next_free'[f[i]] = next_free[f[i]]
      OBVIOUS
    <2>1. i \in DOMAIN f /\ f[i] # free_list /\ f[i] \in AllMsgs
      BY <1>1, <1>3, MsgFacts DEF Distinct
    <2> QED
      BY <2>1
  <1>5. /\ IsList(Tail(f), free_list', next_free', Null) /\ Distinct(Tail(f))
        /\ Tail(f) \in Seq(Msgs)
        /\ Members(Tail(f)) = Members(f) \ {free_list} /\ free_list \in Members(f)
    BY <1>1, <1>4, ListTail
  <1>6. Len(Tail(f)) = Len(f) - 1
    BY <1>1, <1>3
  <1>7. /\ Queued \in Seq(AllMsgs) /\ IsList(Queued, head', next', Null)
        /\ Distinct(Queued)
        /\ Queued # << >> => tail' = Queued[Len(Queued)]
    BY <1>2 DEF Lists
  <1>8. Lists' /\ Queued' = Queued /\ Free' = Tail(f)
    BY <1>5, <1>7, ListsFromLinksNext
  <1> QED
    BY <1>5, <1>6, <1>8 DEF f

(* m_putfree() puts a message that is not free before the free ones.       *)
LEMMA PutFreePushes ==
  ASSUME Typed, Lists, NEW m \in Msgs, m \notin Members(Free),
         next_free'[m] = free_list, free_list' = m,
         \A n \in AllMsgs : n # m => next_free'[n] = next_free[n],
         UNCHANGED queue
  PROVE  /\ Lists' /\ Queued' = Queued
         /\ Members(Free') = Members(Free) \cup {m} /\ Len(Free') = Len(Free) + 1
  <1> DEFINE f == Free
  <1>1. f \in Seq(Msgs) /\ IsList(f, free_list, next_free, Null) /\ Distinct(f)
        /\ m \notin Members(f)
    BY DEF Lists
  <1>2. head' = head /\ next' = next /\ tail' = tail
    BY DEF queue
  <1> HIDE DEF f
  <1>3. m # Null
    BY MsgFacts
  <1>4. \A i \in 1 .. Len(f) : next_free'[f[i]] = next_free[f[i]]
    <2> SUFFICES ASSUME NEW i \in 1 .. Len(f) PROVE next_free'[f[i]] = next_free[f[i]]
      OBVIOUS
    <2>1. f[i] # m /\ f[i] \in AllMsgs
      BY <1>1, MsgFacts DEF Members
    <2> QED
      BY <2>1
  <1>5. /\ IsList(<<m>> \o f, free_list', next_free', Null) /\ Distinct(<<m>> \o f)
        /\ <<m>> \o f \in Seq(Msgs) /\ Members(<<m>> \o f) = Members(f) \cup {m}
        /\ Len(<<m>> \o f) = Len(f) + 1
    BY <1>1, <1>3, <1>4, ListPush
  <1>6. /\ Queued \in Seq(AllMsgs) /\ IsList(Queued, head', next', Null)
        /\ Distinct(Queued)
        /\ Queued # << >> => tail' = Queued[Len(Queued)]
    BY <1>2 DEF Lists
  <1>7. Lists' /\ Queued' = Queued /\ Free' = <<m>> \o f
    BY <1>5, <1>6, ListsFromLinksNext
  <1> QED
    BY <1>5, <1>7 DEF f

-----------------------------------------------------------------------------
(* What the invariant says of a client and its message.                    *)
LEMMA InvClients ==
  ASSUME Inv, NEW c \in Clients
  PROVE  /\ msg[c] # Null => /\ msg[c] \in Msgs /\ msg[c] \in AllMsgs /\ msg[c] \in Sems
                             /\ msg[c] # IsrMsg /\ msg[c] # Recv
                             /\ count[msg[c]] \in Int
         /\ msg[c] # Null => pc[c] \in {"send", "signal", "wait", "putfree"}
         /\ pc[c] # "idle" => msg[c] # Null
         /\ c \in Thrds /\ c \notin Servers
  BY SMTT(60), MsgFacts DEF Inv, Slotted, Typed

(* A message the servers hold or the queue has is the interrupt message or *)
(* that of a client that waits for the reply.                              *)
LEMMA PendingHasClient ==
  ASSUME Inv, NEW m \in Msgs, Pending(m)
  PROVE  \E c \in Clients : msg[c] = m /\ pc[c] \in {"signal", "wait", "putfree"}
  <1>1. m \notin Members(Free)
    BY DEF Inv, Replied, Quiet
  <1>2. PICK c \in Clients : msg[c] = m
    BY <1>1 DEF Inv, Slotted
  <1>3. m # Null
    BY MsgFacts
  <1>4. pc[c] # "send"
    BY <1>2 DEF Inv, Replied, Locked, Quiet
  <1> QED
    BY <1>2, <1>3, <1>4, InvClients

(* A step that touches neither a client nor its message leaves its lock as *)
(* it must be.                                                             *)
LEMMA LockedFrame ==
  ASSUME Inv, NEW c \in Clients,
         pc'[c] = pc[c], msg'[c] = msg[c], c \in asleep' <=> c \in asleep,
         msg[c] # Null =>
           /\ count'[msg[c]] = count[msg[c]] /\ wait_q'[msg[c]] = wait_q[msg[c]]
           /\ id'[msg[c]] = id[msg[c]]
           /\ Pending(msg[c])' <=> Pending(msg[c])
  PROVE  Locked(c)'
  <1>1. Locked(c)
    BY DEF Inv, Replied
  <1>2. CASE pc[c] = "idle"
    BY <1>1, <1>2 DEF Locked
  <1>3. CASE pc[c] # "idle"
    <2>1. msg[c] # Null
      BY <1>3, InvClients
    <2>2. Quiet(msg[c]) => Quiet(msg[c])'
      BY <2>1 DEF Quiet
    <2> QED
      BY <1>1, <1>3, <2>1, <2>2 DEF Locked
  <1> QED
    BY <1>2, <1>3

(* A step that leaves recv and the threads around it alone leaves its      *)
(* count right.                                                            *)
LEMMA AnnouncedFrame ==
  ASSUME Announced, Len(Queued') = Len(Queued), count'[Recv] = count[Recv],
         wait_q'[Recv] = wait_q[Recv],
         \A c \in Clients : pc'[c] = "signal" <=> pc[c] = "signal",
         \A s \in Servers : /\ pc'[s] = "take" <=> pc[s] = "take"
                            /\ s \in asleep' <=> s \in asleep
  PROVE  Announced'
  <1>1. Signalling' = Signalling /\ Taking' = Taking
    BY DEF Signalling, Taking
  <1> QED
    BY <1>1 DEF Announced

(* do_send() waits for the reply, or goes on when it has come.             *)
LEMMA SendWaitKeeps ==
  ASSUME Inv, NEW c \in Clients, SendWait(c)
  PROVE  Inv'
  <1>0. PICK m : m = msg[c]
    OBVIOUS
  <1>1. Lists' /\ Queued' = Queued /\ Free' = Free
    BY LinksSame DEF Inv, SendWait
  <1>2. /\ pc[c] = "wait" /\ c \notin asleep /\ pc' = [pc EXCEPT ![c] = "putfree"]
        /\ msg' = msg /\ qref' = qref /\ id' = id /\ left' = left
        /\ UNCHANGED <<head, tail, next, free_list, next_free>>
        /\ SemaP(c, m)
    BY <1>0 DEF SendWait, At, Goto, queue, pool
  <1>3. /\ m # Null /\ m \in Msgs /\ m \in AllMsgs /\ m \in Sems /\ m # IsrMsg /\ m # Recv
        /\ c \in Thrds /\ c \notin Servers /\ count[m] \in Int
    BY <1>0, <1>2, InvClients
  <1>4. wait_q[m] = << >> /\ count[m] = IF Pending(m) THEN 0 ELSE 1
    BY <1>0, <1>2 DEF Inv, Replied, Locked
  <1>5. count' = [count EXCEPT ![m] = @ - 1]
    BY <1>2 DEF SemaP
  <1>6. \/ ~ Pending(m) /\ count'[m] = 0 /\ wait_q' = wait_q /\ asleep' = asleep
        \/ /\ Pending(m) /\ count'[m] = -1
           /\ wait_q' = [wait_q EXCEPT ![m] = <<c>>] /\ asleep' = asleep \cup {c}
    <2>1. Append(<< >>, c) = <<c>>
      OBVIOUS
    <2>2. count'[m] = count[m] - 1
      BY <1>3, <1>5 DEF Inv, Typed
    <2>3. CASE Pending(m)
      BY <1>2, <1>4, <2>1, <2>2, <2>3 DEF SemaP
    <2>4. CASE ~ Pending(m)
      BY <1>2, <1>4, <2>2, <2>4 DEF SemaP
    <2> QED
      BY <2>3, <2>4
  <1>7. /\ \A n \in Sems : n # m => count'[n] = count[n] /\ wait_q'[n] = wait_q[n]
        /\ \A t \in Thrds : t # c => (t \in asleep' <=> t \in asleep) /\ pc'[t] = pc[t]
        /\ pc'[c] = "putfree"
    BY <1>2, <1>3, <1>5, <1>6 DEF Inv, Typed
  <1>8. Typed'
    <2>1. <<c>> \in Seq(Thrds)
      BY <1>3
    <2>2. count' \in [Sems -> Int] /\ wait_q' \in [Sems -> Seq(Thrds)] /\ asleep' \subseteq Thrds
      <3>1. count \in [Sems -> Int] /\ wait_q \in [Sems -> Seq(Thrds)] /\ asleep \subseteq Thrds
        BY DEF Inv, Typed
      <3>2. count' \in [Sems -> Int]
        BY <1>3, <1>5, <3>1
      <3>3. wait_q' \in [Sems -> Seq(Thrds)] /\ asleep' \subseteq Thrds
        BY <1>3, <1>6, <2>1, <3>1
      <3> QED
        BY <3>2, <3>3
    <2> QED
      BY <1>2, <2>2 DEF Inv, Typed
  <1>9. Slotted'
    BY <1>0, <1>1, <1>2, <1>3, <1>7, MsgFacts DEF Inv, Slotted
  <1>10. Served'
    BY <1>1, <1>2, <1>7, MsgFacts DEF Inv, Served
  <1>11. Counted'
    BY <1>1, <1>2, <1>7, MsgFacts DEF Inv, Counted
  <1>12. Replied'
    <2>1. \A n : Pending(n)' <=> Pending(n)
      BY <1>1, <1>2 DEF Pending, Held
    <2>2. count'[IsrMsg] = 0 /\ wait_q'[IsrMsg] = << >> /\ id'[IsrMsg] = Isr
      BY <1>2, <1>3, <1>7, MsgFacts DEF Inv, Replied
    <2>3. ASSUME NEW n \in Members(Free') PROVE Quiet(n)'
      <3>1. Quiet(n) /\ n \in Msgs /\ n # m
        BY <1>0, <1>1, <1>3, <2>3, DistinctLen DEF Inv, Replied, Slotted, Lists
      <3> QED
        BY <1>7, <2>1, <3>1, MsgFacts DEF Quiet
    <2>4. ASSUME NEW d \in Clients PROVE Locked(d)'
      <3>1. CASE d = c
        <4>1. id[m] = c
          BY <1>0, <1>2 DEF Inv, Replied, Locked
        <4>2. pc'[d] = "putfree" /\ msg'[d] = m /\ id'[m] = c
          BY <1>2, <1>7, <1>0, <3>1, <4>1
        <4>3. IF d \in asleep'
              THEN Pending(m)' /\ count'[m] = -1 /\ wait_q'[m] = <<d>>
              ELSE Quiet(m)'
          <5>1. wait_q \in [Sems -> Seq(Thrds)] /\ asleep \subseteq Thrds
            BY DEF Inv, Typed
          <5> QED
            BY <1>2, <1>3, <1>4, <1>6, <2>1, <3>1, <5>1 DEF Quiet
        <4> QED
          BY <3>1, <4>2, <4>3 DEF Locked
      <3>2. CASE d # c
        <4>1. msg[d] # Null => msg[d] # m
          BY <1>0, <1>3, <3>2 DEF Inv, Slotted
        <4> QED
          BY <1>2, <1>7, <2>1, <3>2, <4>1, InvClients, LockedFrame
      <3> QED
        BY <3>1, <3>2
    <2> QED
      BY <2>2, <2>3, <2>4 DEF Replied
  <1>13. Announced'
    BY <1>1, <1>2, <1>3, <1>7, MsgFacts, AnnouncedFrame DEF Inv
  <1> QED
    BY <1>1, <1>8, <1>9, <1>10, <1>11, <1>12, <1>13 DEF Inv

(* sema_v(&port->recv) counts recv up, or hands what it counts to the      *)
(* server that waits longest.                                              *)
LEMMA RecvSignalled ==
  ASSUME Inv, SemaV(Recv)
  PROVE  /\ count' \in [Sems -> Int] /\ wait_q' \in [Sems -> Seq(Thrds)]
         /\ asleep' \subseteq asleep
         /\ count'[Recv] = count[Recv] + 1
         /\ \A n \in AllMsgs : count'[n] = count[n] /\ wait_q'[n] = wait_q[n]
         /\ \A c \in Clients : c \in asleep' <=> c \in asleep
         /\ \/ count[Recv] >= 0 /\ wait_q'[Recv] = wait_q[Recv] /\ asleep' = asleep
            \/ /\ count[Recv] < 0 /\ wait_q[Recv] # << >>
               /\ wait_q'[Recv] = Tail(wait_q[Recv])
               /\ asleep' = asleep \ {Head(wait_q[Recv])}
  <1>1. /\ count \in [Sems -> Int] /\ wait_q \in [Sems -> Seq(Thrds)]
        /\ asleep \subseteq Thrds /\ Recv \in Sems
        /\ \A n \in AllMsgs : n \in Sems /\ n # Recv
    BY MsgFacts DEF Inv, Typed
  <1>2. count' = [count EXCEPT ![Recv] = @ + 1]
    BY DEF SemaV
  <1>3. count' \in [Sems -> Int] /\ count'[Recv] = count[Recv] + 1
        /\ \A n \in AllMsgs : count'[n] = count[n]
    BY <1>1, <1>2
  <1>4. /\ Len(wait_q[Recv]) = IF count[Recv] < 0 THEN 0 - count[Recv] ELSE 0
        /\ wait_q[Recv] \in Seq(Servers) /\ count[Recv] \in Int
    BY <1>1 DEF Inv, Announced
  <1>5. CASE wait_q[Recv] = << >>
    <2>1. count[Recv] >= 0
      BY <1>4, <1>5
    <2>2. wait_q' = wait_q /\ asleep' = asleep
      BY <1>5 DEF SemaV
    <2> QED
      BY <1>1, <1>3, <2>1, <2>2
  <1>6. CASE wait_q[Recv] # << >>
    <2>1. count[Recv] < 0
      BY <1>4, <1>6
    <2>2. wait_q' = [wait_q EXCEPT ![Recv] = Tail(@)]
          /\ asleep' = asleep \ {Head(wait_q[Recv])}
      BY <1>6 DEF SemaV
    <2>3. Tail(wait_q[Recv]) \in Seq(Thrds)
      BY <1>1, <1>6
    <2>4. wait_q' \in [Sems -> Seq(Thrds)] /\ wait_q'[Recv] = Tail(wait_q[Recv])
          /\ \A n \in AllMsgs : wait_q'[n] = wait_q[n]
      BY <1>1, <2>2, <2>3
    <2>5. Head(wait_q[Recv]) \in Servers
      BY <1>4, <1>6
    <2>6. \A c \in Clients : c # Head(wait_q[Recv])
      BY <2>5, MsgFacts
    <2> QED
      BY <1>1, <1>3, <1>6, <2>1, <2>2, <2>4, <2>6
  <1> QED
    BY <1>5, <1>6

(* The threads on their way to recv and from it can be counted.            *)
LEMMA ThreadsFinite ==
  /\ IsFiniteSet(Signalling) /\ IsFiniteSet(Taking)
  /\ Cardinality(Signalling) \in Nat /\ Cardinality(Taking) \in Nat
  <1>1. Signalling \in SUBSET Clients /\ Taking \in SUBSET Servers
    BY DEF Signalling, Taking
  <1> QED
    BY <1>1, PortAssumption, FS_Subset, FS_CardinalityType

(* One message announced more, or one more queued and announced at once:   *)
(* the count of recv stays right.                                          *)
LEMMA SignalKeepsAnnounced ==
  ASSUME Inv, SemaV(Recv), Lists',
         \A s \in Servers : pc'[s] = pc[s],
         Cardinality(Signalling') \in Nat,
         Len(Queued') - Cardinality(Signalling')
           = Len(Queued) - Cardinality(Signalling) + 1
  PROVE  Announced'
  <1>1. Announced
    BY DEF Inv
  <1>2. Len(Queued) \in Nat /\ Len(Queued') \in Nat
    BY DEF Inv, Lists
  <1>3. count[Recv] \in Int /\ count'[Recv] = count[Recv] + 1
    BY RecvSignalled, MsgFacts DEF Inv, Typed
  <1>4. CASE count[Recv] >= 0 /\ wait_q'[Recv] = wait_q[Recv] /\ asleep' = asleep
    <2>1. Taking' = Taking
      BY <1>4 DEF Taking
    <2>2. Len(Queued') = Cardinality(Signalling') + Cardinality(Taking')
                         + IF count'[Recv] > 0 THEN count'[Recv] ELSE 0
      <3>1. Cardinality(Taking') = Cardinality(Taking)
        BY <2>1
      <3>2. Len(Queued) = Cardinality(Signalling) + Cardinality(Taking)
                          + IF count[Recv] > 0 THEN count[Recv] ELSE 0
        BY <1>1 DEF Announced
      <3>3. count'[Recv] = count[Recv] + 1 /\ count[Recv] >= 0
        BY <1>3, <1>4
      <3>4. Len(Queued) = Cardinality(Signalling) + Cardinality(Taking) + count[Recv]
        BY <1>3, <3>2, <3>3, ThreadsFinite
      <3>5. Len(Queued') = Cardinality(Signalling') + Cardinality(Taking') + count'[Recv]
        <4>1. \A l, l2, s, s2, t \in Nat, k \in Int :
                 l2 - s2 = l - s + 1 /\ l = s + t + k => l2 = s2 + t + (k + 1)
          OBVIOUS
        <4>2. Len(Queued') = Cardinality(Signalling') + Cardinality(Taking) + (count[Recv] + 1)
          BY SMTT(60), <1>2, <1>3, <3>4, <4>1, ThreadsFinite
        <4> QED
          BY <3>1, <3>3, <4>2
      <3> QED
        BY <1>3, <3>3, <3>5
    <2>3. Len(wait_q'[Recv]) = IF count'[Recv] < 0 THEN 0 - count'[Recv] ELSE 0
      BY <1>1, <1>3, <1>4 DEF Announced
    <2> QED
      BY <1>1, <1>4, <2>2, <2>3 DEF Announced
  <1>5. CASE /\ count[Recv] < 0 /\ wait_q[Recv] # << >>
             /\ wait_q'[Recv] = Tail(wait_q[Recv])
             /\ asleep' = asleep \ {Head(wait_q[Recv])}
    <2> DEFINE w == wait_q[Recv]
    <2>1. w \in Seq(Servers) /\ w # << >> /\ Distinct(w)
      BY <1>1, <1>5 DEF Announced
    <2> HIDE DEF w
    <2>2. PICK s \in Servers : s = Head(w) /\ s \in Members(w)
      BY <2>1, TailDistinct
    <2>3. /\ Tail(w) \in Seq(Servers) /\ Distinct(Tail(w)) /\ Len(Tail(w)) = Len(w) - 1
          /\ Members(Tail(w)) = Members(w) \ {s}
      BY <2>1, <2>2, TailDistinct
    <2>4. s \in asleep /\ pc[s] = "take" /\ asleep' = asleep \ {s}
      BY <1>1, <1>5, <2>2 DEF Announced, w
    <2>5. Taking' = Taking \cup {s} /\ s \notin Taking
      BY <2>2, <2>4 DEF Taking
    <2>6. Cardinality(Taking') = Cardinality(Taking) + 1
      BY <2>5, ThreadsFinite, FS_AddElement
    <2>7. Len(Queued') = Cardinality(Signalling') + Cardinality(Taking')
                         + IF count'[Recv] > 0 THEN count'[Recv] ELSE 0
      BY SMTT(60), <1>1, <1>2, <1>3, <1>5, <2>6, ThreadsFinite DEF Announced
    <2>8. wait_q'[Recv] = Tail(w)
      BY <1>5 DEF w
    <2>9. Len(wait_q'[Recv]) = IF count'[Recv] < 0 THEN 0 - count'[Recv] ELSE 0
      <3>1. Len(w) = 0 - count[Recv]
        BY <1>1, <1>3, <1>5 DEF Announced, w
      <3>2. Len(wait_q'[Recv]) = 0 - count[Recv] - 1
        BY <2>3, <2>8, <3>1
      <3>3. count'[Recv] = count[Recv] + 1 /\ count[Recv] \in Int /\ count[Recv] < 0
        BY <1>3, <1>5
      <3> QED
        BY <3>2, <3>3
    <2>10. \A z \in Servers : z \in Members(wait_q'[Recv]) <=> z \in asleep'
      <3>1. \A z \in Servers : z \in Members(w) <=> z \in asleep
        BY <1>1 DEF Announced, w
      <3> QED
        BY <2>3, <2>4, <2>8, <3>1
    <2>11. \A z \in Servers : z \in asleep' => pc'[z] = "take"
      BY <1>1, <2>4 DEF Announced
    <2> QED
      BY <2>3, <2>7, <2>8, <2>9, <2>10, <2>11 DEF Announced
  <1> QED
    BY <1>4, <1>5, RecvSignalled

(* do_send() announces what it queued.                                     *)
LEMMA SendSignalKeeps ==
  ASSUME Inv, NEW c \in Clients, SendSignal(c)
  PROVE  Inv'
  <1>1. Lists' /\ Queued' = Queued /\ Free' = Free
    BY LinksSame DEF Inv, SendSignal
  <1>2. /\ pc[c] = "signal" /\ c \notin asleep /\ pc' = [pc EXCEPT ![c] = "wait"]
        /\ msg' = msg /\ qref' = qref /\ id' = id /\ left' = left
        /\ UNCHANGED <<head, tail, next, free_list, next_free>>
        /\ SemaV(Recv)
    BY DEF SendSignal, At, Goto, queue, pool
  <1>3. c \in Thrds /\ c \notin Servers
    BY MsgFacts
  <1>4. pc'[c] = "wait" /\ \A t \in Thrds : t # c => pc'[t] = pc[t]
    BY <1>2, <1>3 DEF Inv, Typed
  <1>5. \A n : Pending(n)' <=> Pending(n)
    BY <1>1, <1>2 DEF Pending, Held
  <1>6. Typed'
    BY <1>2, RecvSignalled DEF Inv, Typed
  <1>7. Slotted'
    BY <1>1, <1>2, <1>3, <1>4, MsgFacts DEF Inv, Slotted
  <1>8. Served'
    BY <1>1, <1>2, <1>3, <1>4, MsgFacts DEF Inv, Served
  <1>9. Counted'
    BY <1>1, <1>2, <1>3, <1>4, MsgFacts DEF Inv, Counted
  <1>10. Replied'
    <2>1. count'[IsrMsg] = 0 /\ wait_q'[IsrMsg] = << >> /\ id'[IsrMsg] = Isr
      BY <1>2, RecvSignalled, MsgFacts DEF Inv, Replied
    <2>2. ASSUME NEW n \in Members(Free') PROVE Quiet(n)'
      <3>1. Quiet(n) /\ n \in AllMsgs
        BY <1>1, <2>2, DistinctLen, MsgFacts DEF Inv, Replied, Lists
      <3> QED
        BY <1>2, <1>5, <3>1, RecvSignalled DEF Quiet
    <2>3. ASSUME NEW d \in Clients PROVE Locked(d)'
      <3>1. CASE d = c
        <4>1. PICK m : m = msg[c]
          OBVIOUS
        <4>2. m \in AllMsgs
          BY <1>2, <4>1, InvClients
        <4>3. /\ c \notin asleep /\ wait_q[m] = << >> /\ id[m] = c
              /\ count[m] = IF Pending(m) THEN 0 ELSE 1
          BY <1>2, <4>1 DEF Inv, Replied, Locked
        <4>4. /\ c \notin asleep' /\ wait_q'[m] = << >> /\ id'[m] = c
              /\ count'[m] = IF Pending(m)' THEN 0 ELSE 1
          BY <1>2, <1>5, <4>2, <4>3, RecvSignalled
        <4>5. msg'[c] = m /\ pc'[c] = "wait"
          BY <1>2, <1>4, <4>1
        <4> QED
          BY <3>1, <4>4, <4>5 DEF Locked
      <3>2. CASE d # c
        BY <1>2, <1>4, <1>5, <3>2, InvClients, RecvSignalled, LockedFrame
      <3> QED
        BY <3>1, <3>2
    <2> QED
      BY <2>1, <2>2, <2>3 DEF Replied
  <1>11. Announced'
    <2>1. Signalling' = Signalling \ {c} /\ c \in Signalling
      BY <1>2, <1>4, MsgFacts DEF Signalling
    <2>2. Cardinality(Signalling') = Cardinality(Signalling) - 1
          /\ Cardinality(Signalling') \in Nat
      BY <2>1, ThreadsFinite, FS_RemoveElement, FS_CardinalityType
    <2>3. \A s \in Servers : pc'[s] = pc[s]
      BY <1>3, <1>4, MsgFacts
    <2>4. Len(Queued) \in Nat
      BY DEF Inv, Lists
    <2> QED
      BY <1>1, <1>2, <2>2, <2>3, <2>4, ThreadsFinite, SignalKeepsAnnounced
  <1> QED
    BY <1>1, <1>6, <1>7, <1>8, <1>9, <1>10, <1>11 DEF Inv

(* m_send() takes a slot off the free list.                                *)
LEMMA GetFreeKeeps ==
  ASSUME Inv, NEW c \in Clients, GetFree(c)
  PROVE  Inv'
  <1>1. /\ pc[c] = "idle" /\ c \notin asleep /\ left[c] > 0
        /\ left' = [left EXCEPT ![c] = @ - 1]
        /\ UNCHANGED <<head, tail, next, qref, id, count, wait_q, asleep>>
    BY DEF GetFree, At, queue, sema
  <1>2. left' \in [Clients -> 0 .. Sends]
    <2>1. left \in [Clients -> 0 .. Sends] /\ Sends \in Nat
      BY PortAssumption DEF Inv, Typed
    <2>2. left[c] \in 0 .. Sends
      BY <2>1
    <2>3. left[c] - 1 \in 0 .. Sends
      BY <1>1, <2>1, <2>2
    <2> QED
      BY <1>1, <2>1, <2>3
  <1>3. CASE free_list = Null /\ UNCHANGED <<pool, pc, msg>>
    <2>1. free_list' = free_list /\ next_free' = next_free /\ pc' = pc /\ msg' = msg
      BY <1>3 DEF pool
    <2>2. Lists' /\ Queued' = Queued /\ Free' = Free
      BY <1>1, <1>3, LinksSame DEF Inv, queue
    <2>3. Typed'
      BY <1>1, <1>2, <2>1 DEF Inv, Typed
    <2>4. Slotted' /\ Served' /\ Counted'
      BY <1>1, <2>1, <2>2 DEF Inv, Slotted, Served, Counted
    <2>5. \A n : Pending(n)' <=> Pending(n)
      BY <2>1, <2>2 DEF Pending, Held
    <2>6. \A d \in Clients : Locked(d)'
      BY <1>1, <2>1, <2>5, LockedFrame
    <2>7. Replied'
      BY <1>1, <2>2, <2>5, <2>6 DEF Inv, Replied, Quiet
    <2>8. Announced'
      BY <1>1, <2>1, <2>2, AnnouncedFrame DEF Inv
    <2> QED
      BY <2>2, <2>3, <2>4, <2>7, <2>8 DEF Inv
  <1>4. CASE free_list # Null
    <2>0. PICK m : m = free_list
      OBVIOUS
    <2>1. /\ msg' = [msg EXCEPT ![c] = m] /\ free_list' = next_free[m]
          /\ next_free' = [next_free EXCEPT ![m] = Null]
          /\ pc' = [pc EXCEPT ![c] = "send"]
      BY <1>4, <2>0 DEF GetFree, Goto
    <2>2. m \in Msgs /\ m \in AllMsgs /\ m # Null /\ m # IsrMsg /\ c \in Thrds /\ c \notin Servers
      BY <1>4, <2>0, MsgFacts DEF Inv, Typed
    <2>3. /\ pc'[c] = "send" /\ msg'[c] = m
          /\ \A t \in Thrds : t # c => pc'[t] = pc[t] /\ msg'[t] = msg[t]
      BY <2>1, <2>2 DEF Inv, Typed
    <2>4. \A n \in AllMsgs : n # free_list => next_free'[n] = next_free[n]
      BY <2>0, <2>1 DEF Inv, Typed
    <2>5. /\ Lists' /\ Queued' = Queued
          /\ Members(Free') = Members(Free) \ {m} /\ m \in Members(Free)
      BY <1>1, <1>4, <2>0, <2>1, <2>4, GetFreeRemoves DEF Inv, queue
    <2>6. Typed'
      <3>1. next_free' \in [AllMsgs -> Msgs \cup {Null}] /\ free_list' \in Msgs \cup {Null}
        BY <2>1, <2>2 DEF Inv, Typed
      <3>2. msg' \in [Thrds -> AllMsgs \cup {Null}]
        BY <2>1, <2>2 DEF Inv, Typed
      <3> QED
        BY <1>1, <1>2, <2>1, <3>1, <3>2 DEF Inv, Typed
    <2>7. \A d \in Clients : msg[d] # m
      BY <2>2, <2>5 DEF Inv, Slotted
    <2>8. \A s \in Servers : pc'[s] = pc[s] /\ msg'[s] = msg[s]
      BY <2>2, <2>3, MsgFacts
    <2>9. Slotted'
      <3>1. msg[c] = Null
        BY <1>1 DEF Inv, Slotted
      <3>2. ASSUME NEW d \in Clients
            PROVE  /\ pc'[d] \in {"idle", "send", "signal", "wait", "putfree"}
                   /\ msg'[d] = Null <=> pc'[d] = "idle"
                   /\ msg'[d] # Null => msg'[d] \in Msgs /\ msg'[d] \notin Members(Free')
        BY <2>2, <2>3, <2>5, MsgFacts DEF Inv, Slotted
      <3>3. \A d, e \in Clients : msg'[d] = msg'[e] /\ msg'[d] # Null => d = e
        BY <2>3, <2>7, MsgFacts DEF Inv, Slotted
      <3>4. ASSUME NEW n \in Msgs
            PROVE  n \in Members(Free') \/ \E d \in Clients : msg'[d] = n
        <4>1. CASE n = m
          BY <2>3, <4>1
        <4>2. CASE n # m
          BY <2>3, <2>5, <3>1, <4>2, MsgFacts DEF Inv, Slotted
        <4> QED
          BY <4>1, <4>2
      <3> QED
        BY <3>2, <3>3, <3>4 DEF Slotted
    <2>10. Served'
      BY <2>5, <2>8 DEF Inv, Served
    <2>11. Counted'
      BY <1>1, <2>5, <2>8 DEF Inv, Counted
    <2>12. \A n : Pending(n)' <=> Pending(n)
      BY <2>5, <2>8 DEF Pending, Held
    <2>13. Replied'
      <3>1. ASSUME NEW n \in Members(Free) PROVE Quiet(n)'
        BY <1>1, <2>12 DEF Inv, Replied, Quiet
      <3>2. ASSUME NEW d \in Clients PROVE Locked(d)'
        <4>1. CASE d = c
          BY <1>1, <2>3, <2>5, <3>1, <4>1 DEF Locked, Quiet
        <4>2. CASE d # c
          BY <1>1, <2>3, <2>12, <4>2, MsgFacts, LockedFrame
        <4> QED
          BY <4>1, <4>2
      <3> QED
        BY <1>1, <2>5, <3>1, <3>2 DEF Inv, Replied
    <2>14. Announced'
      BY <1>1, <2>3, <2>5, <2>8, MsgFacts, AnnouncedFrame DEF Inv
    <2> QED
      BY <2>5, <2>6, <2>9, <2>10, <2>11, <2>13, <2>14 DEF Inv
  <1> QED
    BY <1>3, <1>4 DEF GetFree

(* do_send() gives the slot back and m_send() returns.                     *)
LEMMA PutFreeKeeps ==
  ASSUME Inv, NEW c \in Clients, PutFree(c)
  PROVE  Inv'
  <1>0. PICK m : m = msg[c]
    OBVIOUS
  <1>1. /\ pc[c] = "putfree" /\ c \notin asleep
        /\ UNCHANGED <<head, tail, next, qref, id, count, wait_q, asleep, left>>
        /\ next_free' = [next_free EXCEPT ![m] = free_list] /\ free_list' = m
        /\ msg' = [msg EXCEPT ![c] = Null] /\ pc' = [pc EXCEPT ![c] = "idle"]
    BY <1>0 DEF PutFree, At, Goto, queue, sema
  <1>2. m \in Msgs /\ m \in AllMsgs /\ m # Null /\ m # IsrMsg /\ c \in Thrds /\ c \notin Servers
    BY <1>0, <1>1, InvClients
  <1>3. Quiet(m) /\ m \notin Members(Free)
    BY <1>0, <1>1, <1>2 DEF Inv, Replied, Locked, Slotted
  <1>4. /\ pc'[c] = "idle" /\ msg'[c] = Null
        /\ \A t \in Thrds : t # c => pc'[t] = pc[t] /\ msg'[t] = msg[t]
    BY <1>1, <1>2 DEF Inv, Typed
  <1>5. next_free'[m] = free_list /\ \A n \in AllMsgs : n # m => next_free'[n] = next_free[n]
    BY <1>1, <1>2 DEF Inv, Typed
  <1>6. Lists' /\ Queued' = Queued /\ Members(Free') = Members(Free) \cup {m}
    BY <1>1, <1>2, <1>3, <1>5, PutFreePushes DEF Inv, queue
  <1>7. Typed'
    <2>1. next_free' \in [AllMsgs -> Msgs \cup {Null}] /\ free_list' \in Msgs \cup {Null}
      BY <1>1, <1>2 DEF Inv, Typed
    <2>2. msg' \in [Thrds -> AllMsgs \cup {Null}]
      BY <1>1, <1>2 DEF Inv, Typed
    <2> QED
      BY <1>1, <2>1, <2>2 DEF Inv, Typed
  <1>8. \A s \in Servers : pc'[s] = pc[s] /\ msg'[s] = msg[s]
    BY <1>2, <1>4, MsgFacts
  <1>9. Slotted'
    <2>1. ASSUME NEW d \in Clients
          PROVE  /\ pc'[d] \in {"idle", "send", "signal", "wait", "putfree"}
                 /\ msg'[d] = Null <=> pc'[d] = "idle"
                 /\ msg'[d] # Null => msg'[d] \in Msgs /\ msg'[d] \notin Members(Free')
      BY <1>0, <1>2, <1>4, <1>6, MsgFacts DEF Inv, Slotted
    <2>2. \A d, e \in Clients : msg'[d] = msg'[e] /\ msg'[d] # Null => d = e
      BY <1>4, MsgFacts DEF Inv, Slotted
    <2>3. \A n \in Msgs : n \in Members(Free') \/ \E d \in Clients : msg'[d] = n
      BY <1>0, <1>4, <1>6, MsgFacts DEF Inv, Slotted
    <2> QED
      BY <2>1, <2>2, <2>3 DEF Slotted
  <1>10. Served'
    BY <1>6, <1>8 DEF Inv, Served
  <1>11. Counted'
    BY <1>1, <1>6, <1>8 DEF Inv, Counted
  <1>12. \A n : Pending(n)' <=> Pending(n)
    BY <1>6, <1>8 DEF Pending, Held
  <1>13. Replied'
    <2>1. ASSUME NEW n \in Members(Free') PROVE Quiet(n)'
      BY <1>1, <1>3, <1>6, <1>12 DEF Inv, Replied, Quiet
    <2>2. ASSUME NEW d \in Clients PROVE Locked(d)'
      <3>1. CASE d = c
        BY <1>1, <1>4, <3>1 DEF Locked
      <3>2. CASE d # c
        BY <1>1, <1>4, <1>12, <3>2, MsgFacts, LockedFrame
      <3> QED
        BY <3>1, <3>2
    <2> QED
      BY <1>1, <2>1, <2>2 DEF Inv, Replied
  <1>14. Announced'
    BY <1>1, <1>4, <1>6, <1>8, MsgFacts, AnnouncedFrame DEF Inv
  <1> QED
    BY <1>6, <1>7, <1>9, <1>10, <1>11, <1>13, <1>14 DEF Inv

(* do_send() counts the message and links it: its qref is 0 before, so it  *)
(* is linked, and it is on no list and with no server yet.                 *)
LEMMA SendLinks ==
  ASSUME Inv, NEW c \in Clients, SendEnqueue(c), NEW m, m = msg[c]
  PROVE  /\ m \in Msgs /\ m \in AllMsgs /\ m # Null /\ m # IsrMsg
         /\ m \notin Members(Queued) /\ m \notin Members(Free)
         /\ Quiet(m) /\ qref[m] = 0 /\ Enqueue(m)
         /\ pc[c] = "send" /\ c \notin asleep /\ pc' = [pc EXCEPT ![c] = "signal"]
         /\ qref' = [qref EXCEPT ![m] = 1] /\ id' = [id EXCEPT ![m] = c]
         /\ UNCHANGED <<free_list, next_free, count, wait_q, asleep, msg, left>>
  <1>1. /\ pc[c] = "send" /\ c \notin asleep
        /\ qref' = [qref EXCEPT ![m] = @ + 1] /\ id' = [id EXCEPT ![m] = c]
        /\ UNCHANGED <<free_list, next_free, count, wait_q, asleep, msg, left>>
    BY DEF SendEnqueue, At, pool, sema
  <1>2. m \in Msgs /\ m \in AllMsgs /\ m # Null /\ m # IsrMsg
    BY <1>1, InvClients
  <1>3. Quiet(m) /\ m \notin Members(Free)
    BY <1>1, <1>2 DEF Inv, Replied, Locked, Slotted
  <1>4. qref[m] = 0
    <2>1. ~ (qref[m] > 0)
      BY <1>2, <1>3 DEF Inv, Counted, Quiet, Pending, Held
    <2>2. qref[m] \in 0 .. MaxRef
      BY <1>2 DEF Inv, Typed
    <2> QED
      BY <2>1, <2>2, PortAssumption
  <1>5. ~ (qref[m] + 1 > 1)
    BY <1>4
  <1>6. Enqueue(m) /\ pc' = [pc EXCEPT ![c] = "signal"]
    BY <1>5 DEF SendEnqueue, Goto
  <1>7. qref' = [qref EXCEPT ![m] = 1]
    BY <1>1, <1>4
  <1>8. m \notin Members(Queued)
    BY <1>3 DEF Quiet, Pending
  <1> QED
    BY <1>1, <1>2, <1>3, <1>4, <1>6, <1>7, <1>8

(* do_send(): the message goes behind the tail of the queue.               *)
LEMMA SendEnqueueKeeps ==
  ASSUME Inv, NEW c \in Clients, SendEnqueue(c)
  PROVE  Inv'
  <1>0. PICK m : m = msg[c]
    OBVIOUS
  <1>1. /\ m \in Msgs /\ m \in AllMsgs /\ m # Null /\ m # IsrMsg
        /\ m \notin Members(Queued) /\ m \notin Members(Free)
        /\ Quiet(m) /\ qref[m] = 0 /\ Enqueue(m)
        /\ pc[c] = "send" /\ c \notin asleep /\ pc' = [pc EXCEPT ![c] = "signal"]
        /\ qref' = [qref EXCEPT ![m] = 1] /\ id' = [id EXCEPT ![m] = c]
        /\ UNCHANGED <<free_list, next_free, count, wait_q, asleep, msg, left>>
    BY <1>0, SendLinks
  <1>2. /\ Lists' /\ Free' = Free /\ Members(Queued') = Members(Queued) \cup {m}
        /\ Len(Queued') = Len(Queued) + 1
    BY <1>1, EnqueueAppends DEF Inv, pool
  <1>3. c \in Thrds /\ c \notin Servers
    BY MsgFacts
  <1>4. pc'[c] = "signal" /\ \A t \in Thrds : t # c => pc'[t] = pc[t]
    BY <1>1, <1>3 DEF Inv, Typed
  <1>5. /\ qref'[m] = 1 /\ id'[m] = c
        /\ \A n \in AllMsgs : n # m => qref'[n] = qref[n] /\ id'[n] = id[n]
    BY <1>1 DEF Inv, Typed
  <1>6. \A s \in Servers : pc'[s] = pc[s] /\ msg'[s] = msg[s]
    BY <1>1, <1>3, <1>4, MsgFacts
  <1>7. Typed'
    <2>1. next' \in [AllMsgs -> AllMsgs \cup {Null}] /\ tail' \in AllMsgs \cup {Null}
          /\ head' \in AllMsgs \cup {Null}
      BY <1>1 DEF Enqueue, Inv, Typed
    <2>2. qref' \in [AllMsgs -> 0 .. MaxRef]
      <3>1. 1 \in 0 .. MaxRef
        BY PortAssumption
      <3> QED
        BY <1>1, <3>1 DEF Inv, Typed
    <2> QED
      BY <1>1, <2>1, <2>2 DEF Inv, Typed
  <1>8. Slotted'
    BY <1>0, <1>1, <1>2, <1>4, MsgFacts DEF Inv, Slotted
  <1>9. \A s \in Servers : msg[s] # m
    BY <1>1 DEF Quiet, Pending, Held
  <1>10. Served'
    BY <1>2, <1>6, <1>9 DEF Inv, Served
  <1>11. Counted'
    BY <1>1, <1>2, <1>5, <1>6, MsgFacts DEF Inv, Counted
  <1>12. \A n : Pending(n)' <=> Pending(n) \/ n = m
    BY <1>2, <1>6 DEF Pending, Held
  <1>13. Replied'
    <2>1. count'[IsrMsg] = 0 /\ wait_q'[IsrMsg] = << >> /\ id'[IsrMsg] = Isr
      BY <1>1, <1>5, MsgFacts DEF Inv, Replied
    <2>2. ASSUME NEW n \in Members(Free') PROVE Quiet(n)'
      BY <1>1, <1>2, <1>12 DEF Inv, Replied, Quiet
    <2>3. ASSUME NEW d \in Clients PROVE Locked(d)'
      <3>1. CASE d = c
        <4>1. pc'[c] = "signal" /\ msg'[c] = m /\ Pending(m)' /\ id'[m] = c
          BY <1>0, <1>1, <1>4, <1>5, <1>12
        <4>2. count'[m] = 0 /\ wait_q'[m] = << >> /\ c \notin asleep'
          BY <1>1 DEF Quiet
        <4> QED
          BY <3>1, <4>1, <4>2 DEF Locked
      <3>2. CASE d # c
        <4>1. msg[d] # Null => msg[d] # m /\ msg[d] \in AllMsgs
          BY <1>0, <1>1, <3>2, MsgFacts DEF Inv, Slotted
        <4> QED
          BY <1>1, <1>4, <1>5, <1>12, <3>2, <4>1, MsgFacts, LockedFrame
      <3> QED
        BY <3>1, <3>2
    <2> QED
      BY <2>1, <2>2, <2>3 DEF Replied
  <1>14. Announced'
    <2>1. Signalling' = Signalling \cup {c} /\ c \notin Signalling
      BY <1>1, <1>4, MsgFacts DEF Signalling
    <2>2. Cardinality(Signalling') = Cardinality(Signalling) + 1
      BY <2>1, ThreadsFinite, FS_AddElement
    <2>3. Taking' = Taking
      BY <1>1, <1>6 DEF Taking
    <2>4. Len(Queued') = Cardinality(Signalling') + Cardinality(Taking')
                         + IF count'[Recv] > 0 THEN count'[Recv] ELSE 0
      <3>1. Len(Queued) = Cardinality(Signalling) + Cardinality(Taking)
                          + IF count[Recv] > 0 THEN count[Recv] ELSE 0
        BY DEF Inv, Announced
      <3>2. count'[Recv] = count[Recv] /\ count[Recv] \in Int /\ Len(Queued) \in Nat
        BY <1>1, MsgFacts DEF Inv, Typed, Lists
      <3>3. \A l, l2, s, s2, t \in Nat, k \in Int :
              l2 = l + 1 /\ s2 = s + 1 /\ l = s + t + (IF k > 0 THEN k ELSE 0)
                => l2 = s2 + t + (IF k > 0 THEN k ELSE 0)
        OBVIOUS
      <3>4. Len(Queued') \in Nat /\ Cardinality(Signalling') \in Nat
        BY <1>2, <2>2, <3>2, ThreadsFinite
      <3> QED
        BY <1>2, <2>2, <2>3, <3>1, <3>2, <3>3, <3>4, ThreadsFinite
    <2> QED
      BY <1>1, <1>6, <2>4 DEF Inv, Announced
  <1> QED
    BY <1>2, <1>7, <1>8, <1>10, <1>11, <1>13, <1>14 DEF Inv

(* An interrupt is counted, and queues its message when that is off the    *)
(* queue and no server has yet to clear its count.                         *)
LEMMA IsrSendKeeps ==
  ASSUME Inv, IsrSend
  PROVE  Inv'
  <1>1. /\ qref[IsrMsg] < MaxRef /\ qref' = [qref EXCEPT ![IsrMsg] = @ + 1]
        /\ UNCHANGED <<free_list, next_free, id, pc, msg, left>>
    BY DEF IsrSend, pool
  <1>2. /\ IsrMsg \in AllMsgs /\ IsrMsg \notin Msgs /\ qref[IsrMsg] \in 0 .. MaxRef
        /\ MaxRef \in Nat
    BY MsgFacts, PortAssumption DEF Inv, Typed
  <1>3. /\ qref'[IsrMsg] = qref[IsrMsg] + 1 /\ qref' \in [AllMsgs -> 0 .. MaxRef]
        /\ \A n \in AllMsgs : n # IsrMsg => qref'[n] = qref[n]
    <2>1. qref[IsrMsg] + 1 \in 0 .. MaxRef
      BY <1>1, <1>2
    <2> QED
      BY <1>1, <1>2, <2>1 DEF Inv, Typed
  <1>4. CASE qref[IsrMsg] + 1 > 1 /\ UNCHANGED <<queue, sema>>
    <2>1. UNCHANGED <<head, tail, next, count, wait_q, asleep>>
      BY <1>4 DEF queue, sema
    <2>2. Lists' /\ Queued' = Queued /\ Free' = Free
      BY <1>1, <1>4, LinksSame DEF Inv, pool
    <2>3. Typed'
      BY <1>1, <1>3, <2>1 DEF Inv, Typed
    <2>4. Slotted' /\ Served'
      BY <1>1, <2>2 DEF Inv, Slotted, Served
    <2>5. Counted'
      <3>1. qref[IsrMsg] > 0 /\ qref'[IsrMsg] > 0
        BY <1>2, <1>3, <1>4
      <3> QED
        BY <1>1, <1>2, <1>3, <2>2, <3>1, MsgFacts DEF Inv, Counted
    <2>6. \A n : Pending(n)' <=> Pending(n)
      BY <1>1, <2>2 DEF Pending, Held
    <2>7. \A d \in Clients : Locked(d)'
      BY <1>1, <2>1, <2>6, LockedFrame
    <2>8. Replied'
      BY <1>1, <2>1, <2>2, <2>6, <2>7 DEF Inv, Replied, Quiet
    <2>9. Announced'
      BY <1>1, <2>1, <2>2, AnnouncedFrame DEF Inv
    <2> QED
      BY <2>2, <2>3, <2>4, <2>5, <2>8, <2>9 DEF Inv
  <1>5. CASE qref[IsrMsg] + 1 <= 1 /\ Enqueue(IsrMsg) /\ SemaV(Recv)
    <2>1. ~ (qref[IsrMsg] > 0) /\ qref'[IsrMsg] > 0
      BY <1>2, <1>3, <1>5
    <2>2. IsrMsg \notin Members(Queued)
      BY <1>2, <2>1 DEF Inv, Counted
    <2>3. /\ Lists' /\ Free' = Free /\ Members(Queued') = Members(Queued) \cup {IsrMsg}
          /\ Len(Queued') = Len(Queued) + 1
      BY <1>1, <1>2, <1>5, <2>2, EnqueueAppends DEF Inv, pool
    <2>4. Typed'
      <3>1. next' \in [AllMsgs -> AllMsgs \cup {Null}] /\ tail' \in AllMsgs \cup {Null}
            /\ head' \in AllMsgs \cup {Null}
        BY <1>2, <1>5 DEF Enqueue, Inv, Typed
      <3> QED
        BY <1>1, <1>3, <1>5, <3>1, RecvSignalled DEF Inv, Typed
    <2>5. Slotted'
      BY <1>1, <2>3 DEF Inv, Slotted
    <2>6. \A s \in Servers : msg[s] # IsrMsg
      <3> SUFFICES ASSUME NEW s \in Servers, msg[s] = IsrMsg PROVE FALSE
        OBVIOUS
      <3>1. pc[s] = "clear"
        BY <1>2, MsgFacts DEF Inv, Served
      <3> QED
        BY <1>2, <2>1, <3>1 DEF Inv, Counted
    <2>7. Served'
      BY <1>1, <2>3, <2>6 DEF Inv, Served
    <2>8. Counted'
      BY <1>1, <1>2, <1>3, <2>1, <2>3, MsgFacts DEF Inv, Counted
    <2>9. \A n : n # IsrMsg => (Pending(n)' <=> Pending(n))
      BY <1>1, <2>3 DEF Pending, Held
    <2>10. Replied'
      <3>1. count'[IsrMsg] = 0 /\ wait_q'[IsrMsg] = << >> /\ id'[IsrMsg] = Isr
        BY <1>1, <1>2, <1>5, RecvSignalled DEF Inv, Replied
      <3>2. ASSUME NEW n \in Members(Free') PROVE Quiet(n)'
        <4>1. Quiet(n) /\ n \in AllMsgs /\ n # IsrMsg
          BY <2>3, <3>2, DistinctLen, MsgFacts DEF Inv, Replied, Lists
        <4> QED
          BY <1>5, <2>9, <4>1, RecvSignalled DEF Quiet
      <3>3. ASSUME NEW d \in Clients PROVE Locked(d)'
        BY <1>1, <1>5, <2>9, InvClients, RecvSignalled, LockedFrame
      <3> QED
        BY <3>1, <3>2, <3>3 DEF Replied
    <2>11. Announced'
      <3>1. Signalling' = Signalling
        BY <1>1 DEF Signalling
      <3>2. Len(Queued) \in Nat
        BY DEF Inv, Lists
      <3> QED
        BY <1>1, <1>5, <2>3, <3>1, <3>2, ThreadsFinite, SignalKeepsAnnounced
    <2> QED
      BY <2>3, <2>4, <2>5, <2>7, <2>8, <2>10, <2>11 DEF Inv
  <1> QED
    BY <1>4, <1>5 DEF IsrSend

(* m_receive() asks for a message: it counts recv down or falls asleep.    *)
LEMMA ReceiveWaitKeeps ==
  ASSUME Inv, NEW s \in Servers, ReceiveWait(s)
  PROVE  Inv'
  <1>1. /\ pc[s] = "idle" /\ s \notin asleep /\ pc' = [pc EXCEPT ![s] = "take"]
        /\ UNCHANGED <<head, tail, next, free_list, next_free, qref, id, msg, left>>
        /\ SemaP(s, Recv)
    BY DEF ReceiveWait, At, Goto, queue, pool
  <1>2. Lists' /\ Queued' = Queued /\ Free' = Free
    BY LinksSame DEF Inv, ReceiveWait
  <1>3. s \in Thrds /\ s \notin Clients
    BY MsgFacts
  <1>4. pc'[s] = "take" /\ \A t \in Thrds : t # s => pc'[t] = pc[t]
    BY <1>1, <1>3 DEF Inv, Typed
  <1>5. /\ count \in [Sems -> Int] /\ wait_q \in [Sems -> Seq(Thrds)] /\ asleep \subseteq Thrds
        /\ Recv \in Sems /\ \A n \in AllMsgs : n \in Sems /\ n # Recv
    BY MsgFacts DEF Inv, Typed
  <1>6. /\ count' \in [Sems -> Int] /\ count'[Recv] = count[Recv] - 1
        /\ \A n \in AllMsgs : count'[n] = count[n]
    BY <1>1, <1>5 DEF SemaP
  <1>7. \/ count[Recv] > 0 /\ wait_q' = wait_q /\ asleep' = asleep
        \/ /\ count[Recv] <= 0 /\ wait_q' \in [Sems -> Seq(Thrds)]
           /\ wait_q'[Recv] = Append(wait_q[Recv], s) /\ asleep' = asleep \cup {s}
           /\ \A n \in AllMsgs : wait_q'[n] = wait_q[n]
    <2>1. CASE count[Recv] > 0
      <3>1. ~ (count[Recv] <= 0)
        BY <1>5, <2>1
      <3> QED
        BY <1>1, <2>1, <3>1 DEF SemaP
    <2>2. CASE count[Recv] <= 0
      <3>1. ~ (count[Recv] > 0)
        BY <1>5, <2>2
      <3>2. wait_q' = [wait_q EXCEPT ![Recv] = Append(@, s)] /\ asleep' = asleep \cup {s}
        BY <1>1, <3>1 DEF SemaP
      <3>3. Append(wait_q[Recv], s) \in Seq(Thrds)
        BY <1>3, <1>5
      <3> QED
        BY <1>5, <2>2, <3>2, <3>3
    <2> QED
      BY <1>5, <2>1, <2>2
  <1>8. /\ \A n \in AllMsgs : wait_q'[n] = wait_q[n]
        /\ \A c \in Clients : pc'[c] = pc[c] /\ (c \in asleep' <=> c \in asleep)
    BY <1>3, <1>4, <1>7, MsgFacts
  <1>9. Typed'
    BY <1>1, <1>3, <1>5, <1>6, <1>7 DEF Inv, Typed
  <1>10. Slotted'
    BY <1>1, <1>2, <1>8 DEF Inv, Slotted
  <1>11. Served'
    BY <1>1, <1>2, <1>4, MsgFacts DEF Inv, Served
  <1>12. Counted'
    BY <1>1, <1>2, <1>4, MsgFacts DEF Inv, Counted
  <1>13. \A n : Pending(n)' <=> Pending(n)
    BY <1>1, <1>2 DEF Pending, Held
  <1>14. Replied'
    <2>1. ASSUME NEW n \in Members(Free') PROVE Quiet(n)'
      <3>1. Quiet(n) /\ n \in AllMsgs
        BY <1>2, <2>1, DistinctLen, MsgFacts DEF Inv, Replied, Lists
      <3> QED
        BY <1>6, <1>8, <1>13, <3>1 DEF Quiet
    <2>2. \A d \in Clients : Locked(d)'
      BY <1>1, <1>6, <1>8, <1>13, InvClients, LockedFrame
    <2> QED
      BY <1>1, <1>6, <1>8, <2>1, <2>2, MsgFacts DEF Inv, Replied
  <1>15. Announced'
    <2>1. Announced /\ Len(Queued) \in Nat /\ count[Recv] \in Int
      BY <1>5 DEF Inv, Lists
    <2>2. Signalling' = Signalling
      BY <1>8 DEF Signalling
    <2>3. Len(Queued) = Cardinality(Signalling) + Cardinality(Taking)
                        + IF count[Recv] > 0 THEN count[Recv] ELSE 0
      BY <2>1 DEF Announced
    <2>4. CASE count[Recv] > 0 /\ wait_q' = wait_q /\ asleep' = asleep
      <3>1. Taking' = Taking \cup {s} /\ s \notin Taking
        BY <1>1, <1>4, <2>4, MsgFacts DEF Taking
      <3>2. Cardinality(Taking') = Cardinality(Taking) + 1
        BY <3>1, ThreadsFinite, FS_AddElement
      <3>3. Len(Queued') = Cardinality(Signalling') + Cardinality(Taking')
                           + IF count'[Recv] > 0 THEN count'[Recv] ELSE 0
        <4>1. \A l, g, t \in Nat, k \in Int :
                k > 0 /\ l = g + t + (IF k > 0 THEN k ELSE 0)
                  => l = g + (t + 1) + (IF k - 1 > 0 THEN k - 1 ELSE 0)
          OBVIOUS
        <4> QED
          BY <1>2, <1>6, <2>1, <2>2, <2>3, <2>4, <3>2, <4>1, ThreadsFinite
      <3>4. Len(wait_q'[Recv]) = IF count'[Recv] < 0 THEN 0 - count'[Recv] ELSE 0
        <4>1. Len(wait_q[Recv]) = IF count[Recv] < 0 THEN 0 - count[Recv] ELSE 0
          BY <2>1 DEF Announced
        <4> QED
          BY <1>6, <2>1, <2>4, <4>1
      <3>5. \A z \in Servers : z \in asleep' => pc'[z] = "take"
        BY <1>4, <2>1, <2>4, MsgFacts DEF Announced
      <3> QED
        BY <2>1, <2>4, <3>3, <3>4, <3>5 DEF Announced
    <2>5. CASE count[Recv] <= 0 /\ wait_q'[Recv] = Append(wait_q[Recv], s)
               /\ asleep' = asleep \cup {s}
      <3>1. PICK w : w = wait_q[Recv]
        OBVIOUS
      <3>2. w \in Seq(Servers) /\ Distinct(w) /\ s \notin Members(w)
        BY <1>1, <2>1, <3>1 DEF Announced
      <3>3. /\ Append(w, s) \in Seq(Servers) /\ Distinct(Append(w, s))
            /\ Members(Append(w, s)) = Members(w) \cup {s} /\ Len(Append(w, s)) = Len(w) + 1
        BY <3>2, AppendDistinct
      <3>4. wait_q'[Recv] = Append(w, s)
        BY <2>5, <3>1
      <3>5. Taking' = Taking
        BY <1>1, <1>4, <2>5, MsgFacts DEF Taking
      <3>6. Len(Queued') = Cardinality(Signalling') + Cardinality(Taking')
                           + IF count'[Recv] > 0 THEN count'[Recv] ELSE 0
        BY <1>2, <1>6, <2>1, <2>2, <2>3, <2>5, <3>5, ThreadsFinite
      <3>7. Len(wait_q'[Recv]) = IF count'[Recv] < 0 THEN 0 - count'[Recv] ELSE 0
        <4>1. Len(w) = IF count[Recv] < 0 THEN 0 - count[Recv] ELSE 0
          BY <2>1, <3>1 DEF Announced
        <4>2. Len(wait_q'[Recv]) = Len(w) + 1
          BY <3>3, <3>4
        <4> QED
          BY <1>6, <2>1, <2>5, <4>1, <4>2
      <3>8. \A z \in Servers : z \in Members(wait_q'[Recv]) <=> z \in asleep'
        BY <2>1, <2>5, <3>1, <3>3, <3>4 DEF Announced
      <3>9. \A z \in Servers : z \in asleep' => pc'[z] = "take"
        BY <1>4, <2>1, <2>5, MsgFacts DEF Announced
      <3> QED
        BY <3>3, <3>4, <3>6, <3>7, <3>8, <3>9 DEF Announced
    <2> QED
      BY <1>7, <2>4, <2>5
  <1> QED
    BY <1>2, <1>9, <1>10, <1>11, <1>12, <1>14, <1>15 DEF Inv

(* A server that got past recv finds a message on the queue.               *)
LEMMA TakerFinds ==
  ASSUME Inv, NEW s \in Servers, pc[s] = "take", s \notin asleep
  PROVE  head # Null
  <1>1. s \in Taking
    BY DEF Taking
  <1>2. Cardinality(Taking) # 0
    BY <1>1, ThreadsFinite, FS_EmptySet
  <1>3. Len(Queued) = Cardinality(Signalling) + Cardinality(Taking)
                      + IF count[Recv] > 0 THEN count[Recv] ELSE 0
    BY DEF Inv, Announced
  <1>4. count[Recv] \in Int
    BY MsgFacts DEF Inv, Typed
  <1>5. Len(Queued) # 0
    <2>1. \A l \in Int, g, t \in Nat, k \in Int :
            t # 0 /\ l = g + t + (IF k > 0 THEN k ELSE 0) => l # 0
      OBVIOUS
    <2> QED
      BY <1>2, <1>3, <1>4, <2>1, ThreadsFinite DEF Inv, Lists
  <1> QED
    BY <1>5 DEF Inv, Lists, IsList

(* m_receive() takes the first message off the queue.                      *)
LEMMA ReceiveTakeKeeps ==
  ASSUME Inv, NEW s \in Servers, ReceiveTake(s)
  PROVE  Inv'
  <1>0. PICK m : m = head
    OBVIOUS
  <1>1. /\ pc[s] = "take" /\ s \notin asleep /\ head # Null
        /\ pc' = [pc EXCEPT ![s] = "clear"] /\ msg' = [msg EXCEPT ![s] = m]
        /\ head' = next[head]
        /\ UNCHANGED <<tail, next, free_list, next_free, qref, id, count, wait_q, asleep, left>>
    <2>1. pc[s] = "take" /\ s \notin asleep
      BY DEF ReceiveTake, At
    <2>2. head # Null
      BY <2>1, TakerFinds
    <2> QED
      BY <1>0, <2>1, <2>2 DEF ReceiveTake, Goto, pool, sema
  <1>2. /\ Lists' /\ Free' = Free /\ Queued # << >> /\ m \in Members(Queued)
        /\ Members(Queued') = Members(Queued) \ {m} /\ Len(Queued') = Len(Queued) - 1
    BY <1>0, <1>1, TakeRemoves DEF Inv, pool
  <1>3. m \in AllMsgs /\ m # Null /\ s \in Thrds /\ s \notin Clients
    BY <1>0, <1>1, MsgFacts DEF Inv, Typed
  <1>4. /\ pc'[s] = "clear" /\ msg'[s] = m
        /\ \A t \in Thrds : t # s => pc'[t] = pc[t] /\ msg'[t] = msg[t]
    BY <1>1, <1>3 DEF Inv, Typed
  <1>5. \A c \in Clients : pc'[c] = pc[c] /\ msg'[c] = msg[c]
    BY <1>3, <1>4, MsgFacts
  <1>6. Typed'
    <2>1. head' \in AllMsgs \cup {Null}
      BY <1>0, <1>1, <1>3 DEF Inv, Typed
    <2> QED
      BY <1>1, <1>3, <2>1 DEF Inv, Typed
  <1>7. Slotted'
    BY <1>2, <1>5 DEF Inv, Slotted
  <1>8. msg[s] = Null /\ \A z \in Servers : msg[z] # m
    BY <1>1, <1>2 DEF Inv, Served
  <1>9. Served'
    <2>1. ASSUME NEW z \in Servers
          PROVE  /\ pc'[z] \in {"idle", "take", "clear", "release"}
                 /\ msg'[z] = Null <=> pc'[z] \in {"idle", "take"}
                 /\ pc'[z] = "release" => msg'[z] \in Msgs
                 /\ msg'[z] \notin Members(Queued')
      <3>1. CASE z = s
        BY <1>2, <1>3, <1>4, <3>1
      <3>2. CASE z # s
        BY <1>2, <1>4, <3>2, MsgFacts DEF Inv, Served
      <3> QED
        BY <3>1, <3>2
    <2>2. \A z, y \in Servers : msg'[z] = msg'[y] /\ msg'[z] # Null => z = y
      BY <1>4, <1>8, MsgFacts DEF Inv, Served
    <2> QED
      BY <2>1, <2>2 DEF Served
  <1>10. Counted'
    <2>1. ASSUME NEW n \in AllMsgs
          PROVE  qref'[n] > 0 <=> \/ n \in Members(Queued')
                                  \/ \E z \in Servers : pc'[z] = "clear" /\ msg'[z] = n
      <3>1. CASE n = m
        BY <1>1, <1>2, <1>4, <2>1, <3>1 DEF Inv, Counted
      <3>2. CASE n # m
        BY <1>1, <1>2, <1>4, <1>8, <2>1, <3>2, MsgFacts DEF Inv, Counted
      <3> QED
        BY <3>1, <3>2
    <2> QED
      BY <1>1, <2>1 DEF Inv, Counted
  <1>11. \A n \in AllMsgs : Pending(n)' <=> Pending(n)
    <2> SUFFICES ASSUME NEW n \in AllMsgs PROVE Pending(n)' <=> Pending(n)
      OBVIOUS
    <2>1. CASE n = m
      BY <1>2, <1>4, <2>1 DEF Pending, Held
    <2>2. CASE n # m
      BY <1>2, <1>3, <1>4, <1>8, <2>2, MsgFacts DEF Pending, Held
    <2> QED
      BY <2>1, <2>2
  <1>12. Replied'
    <2>1. ASSUME NEW n \in Members(Free') PROVE Quiet(n)'
      <3>1. Quiet(n) /\ n \in AllMsgs
        BY <1>2, <2>1, DistinctLen, MsgFacts DEF Inv, Replied, Lists
      <3> QED
        BY <1>1, <1>11, <3>1 DEF Quiet
    <2>2. \A d \in Clients : Locked(d)'
      BY <1>1, <1>5, <1>11, InvClients, LockedFrame
    <2> QED
      BY <1>1, <2>1, <2>2 DEF Inv, Replied
  <1>13. Announced'
    <2>1. Taking' = Taking \ {s} /\ s \in Taking /\ Signalling' = Signalling
      BY <1>1, <1>4, <1>5, MsgFacts DEF Taking, Signalling
    <2>2. Cardinality(Taking') = Cardinality(Taking) - 1
      BY <2>1, ThreadsFinite, FS_RemoveElement
    <2>3. Len(Queued) = Cardinality(Signalling) + Cardinality(Taking)
                        + IF count[Recv] > 0 THEN count[Recv] ELSE 0
      BY DEF Inv, Announced
    <2>4. Len(Queued) \in Nat /\ count[Recv] \in Int
      BY MsgFacts DEF Inv, Typed, Lists
    <2>5. Len(Queued') = Cardinality(Signalling') + Cardinality(Taking')
                         + IF count'[Recv] > 0 THEN count'[Recv] ELSE 0
      <3>1. \A l, g, t \in Nat, k \in Int :
              l = g + t + (IF k > 0 THEN k ELSE 0)
                => l - 1 = g + (t - 1) + (IF k > 0 THEN k ELSE 0)
        OBVIOUS
      <3> QED
        BY <1>1, <1>2, <2>1, <2>2, <2>3, <2>4, <3>1, ThreadsFinite
    <2>6. \A z \in Servers : z \in asleep' => pc'[z] = "take"
      BY <1>1, <1>4, MsgFacts DEF Inv, Announced
    <2> QED
      BY <1>1, <2>5, <2>6 DEF Inv, Announced
  <1> QED
    BY <1>2, <1>6, <1>7, <1>9, <1>10, <1>12, <1>13 DEF Inv

(* m_receive() clears qref: an interrupt message may be queued again, the  *)
(* others have their reply to come.                                        *)
LEMMA ReceiveClearKeeps ==
  ASSUME Inv, NEW s \in Servers, ReceiveClear(s)
  PROVE  Inv'
  <1>0. PICK m : m = msg[s]
    OBVIOUS
  <1>1. /\ pc[s] = "clear" /\ s \notin asleep
        /\ qref' = [qref EXCEPT ![m] = 0]
        /\ UNCHANGED <<head, tail, next, free_list, next_free, id, count, wait_q, asleep, left>>
        /\ \/ /\ m = IsrMsg /\ pc' = [pc EXCEPT ![s] = "idle"]
              /\ msg' = [msg EXCEPT ![s] = Null]
           \/ m # IsrMsg /\ pc' = [pc EXCEPT ![s] = "release"] /\ msg' = msg
    BY <1>0 DEF ReceiveClear, At, Goto, queue, pool, sema
  <1>2. Lists' /\ Queued' = Queued /\ Free' = Free
    BY LinksSame DEF Inv, ReceiveClear
  <1>3. s \in Thrds /\ s \notin Clients
    BY MsgFacts
  <1>4. m \in AllMsgs /\ m # Null /\ m \notin Members(Queued) /\ (m # IsrMsg => m \in Msgs)
    BY <1>0, <1>1, <1>3 DEF Inv, Served, Typed, AllMsgs
  <1>5. /\ \A t \in Thrds : t # s => pc'[t] = pc[t] /\ msg'[t] = msg[t]
        /\ \/ m = IsrMsg /\ pc'[s] = "idle" /\ msg'[s] = Null
           \/ m # IsrMsg /\ pc'[s] = "release" /\ msg'[s] = m
        /\ qref'[m] = 0 /\ \A n \in AllMsgs : n # m => qref'[n] = qref[n]
    BY <1>0, <1>1, <1>3, <1>4 DEF Inv, Typed
  <1>6. \A c \in Clients : pc'[c] = pc[c] /\ msg'[c] = msg[c]
    BY <1>3, <1>5, MsgFacts
  <1>7. Typed'
    <2>1. qref' \in [AllMsgs -> 0 .. MaxRef]
      <3>1. 0 \in 0 .. MaxRef
        BY PortAssumption
      <3> QED
        BY <1>1, <1>4, <3>1 DEF Inv, Typed
    <2> QED
      BY <1>1, <2>1 DEF Inv, Typed
  <1>8. Slotted'
    BY <1>2, <1>6 DEF Inv, Slotted
  <1>9. \A z \in Servers : z # s => msg[z] # m
    BY <1>0, <1>4, MsgFacts DEF Inv, Served
  <1>10. Served'
    <2>1. ASSUME NEW z \in Servers
          PROVE  /\ pc'[z] \in {"idle", "take", "clear", "release"}
                 /\ msg'[z] = Null <=> pc'[z] \in {"idle", "take"}
                 /\ pc'[z] = "release" => msg'[z] \in Msgs
                 /\ msg'[z] \notin Members(Queued')
      <3>1. CASE z = s
        <4>1. Null \notin Members(Queued)
          BY DistinctLen, MsgFacts DEF Inv, Lists
        <4> QED
          BY <1>2, <1>4, <1>5, <3>1, <4>1
      <3>2. CASE z # s
        BY <1>2, <1>5, <3>2, MsgFacts DEF Inv, Served
      <3> QED
        BY <3>1, <3>2
    <2>2. \A z, y \in Servers : msg'[z] = msg'[y] /\ msg'[z] # Null => z = y
      BY <1>5, <1>9, MsgFacts DEF Inv, Served
    <2> QED
      BY <2>1, <2>2 DEF Served
  <1>11. Counted'
    <2>1. ASSUME NEW n \in AllMsgs
          PROVE  qref'[n] > 0 <=> \/ n \in Members(Queued')
                                  \/ \E z \in Servers : pc'[z] = "clear" /\ msg'[z] = n
      <3>1. CASE n = m
        BY <1>2, <1>4, <1>5, <1>9, <3>1, MsgFacts
      <3>2. CASE n # m
        BY <1>0, <1>2, <1>5, <2>1, <3>2, MsgFacts DEF Inv, Counted
      <3> QED
        BY <3>1, <3>2
    <2>2. \A n \in Msgs : qref'[n] <= 1
      BY <1>5, MsgFacts DEF Inv, Counted
    <2> QED
      BY <2>1, <2>2 DEF Counted
  <1>12. \A n \in Msgs : Pending(n)' <=> Pending(n)
    BY <1>0, <1>2, <1>5, MsgFacts DEF Pending, Held
  <1>13. Replied'
    <2>1. ASSUME NEW n \in Members(Free') PROVE Quiet(n)'
      <3>1. Quiet(n) /\ n \in Msgs
        BY <1>2, <2>1, DistinctLen DEF Inv, Replied, Lists
      <3> QED
        BY <1>1, <1>12, <3>1 DEF Quiet
    <2>2. \A d \in Clients : Locked(d)'
      BY <1>1, <1>6, <1>12, InvClients, LockedFrame
    <2> QED
      BY <1>1, <2>1, <2>2 DEF Inv, Replied
  <1>14. Announced'
    BY <1>1, <1>2, <1>5, <1>6, MsgFacts, AnnouncedFrame DEF Inv
  <1> QED
    BY <1>2, <1>7, <1>8, <1>10, <1>11, <1>13, <1>14 DEF Inv

(* m_receive() replies: the lock is up for the client that sent, now or    *)
(* when it gets there.                                                     *)
LEMMA ReceiveReleaseKeeps ==
  ASSUME Inv, NEW s \in Servers, ReceiveRelease(s)
  PROVE  Inv'
  <1>0. PICK m : m = msg[s]
    OBVIOUS
  <1>1. /\ pc[s] = "release" /\ s \notin asleep
        /\ pc' = [pc EXCEPT ![s] = "idle"] /\ msg' = [msg EXCEPT ![s] = Null]
        /\ UNCHANGED <<head, tail, next, free_list, next_free, qref, id, left>>
        /\ SemaV(m)
    BY <1>0 DEF ReceiveRelease, At, Goto, queue, pool
  <1>2. Lists' /\ Queued' = Queued /\ Free' = Free
    BY LinksSame DEF Inv, ReceiveRelease
  <1>3. s \in Thrds /\ s \notin Clients
    BY MsgFacts
  <1>4. /\ m \in Msgs /\ m \in AllMsgs /\ m # Null /\ m # IsrMsg /\ m # Recv /\ m \in Sems
        /\ m \notin Members(Queued) /\ Pending(m)
    BY <1>0, <1>1, MsgFacts DEF Inv, Served, Pending, Held
  <1>5. /\ pc'[s] = "idle" /\ msg'[s] = Null
        /\ \A t \in Thrds : t # s => pc'[t] = pc[t] /\ msg'[t] = msg[t]
    BY <1>1, <1>3 DEF Inv, Typed
  <1>6. \A c \in Clients : pc'[c] = pc[c] /\ msg'[c] = msg[c]
    BY <1>3, <1>5, MsgFacts
  <1>7. \A z \in Servers : z # s => msg[z] # m
    BY <1>0, <1>4 DEF Inv, Served
  <1>8. PICK c \in Clients : msg[c] = m /\ pc[c] \in {"signal", "wait", "putfree"}
    BY <1>4, PendingHasClient
  <1>9. Locked(c)
    BY DEF Inv, Replied
  <1>10. /\ count \in [Sems -> Int] /\ wait_q \in [Sems -> Seq(Thrds)] /\ asleep \subseteq Thrds
    BY DEF Inv, Typed
  <1>11. /\ count' \in [Sems -> Int] /\ count'[m] = count[m] + 1
         /\ \A n \in Sems : n # m => count'[n] = count[n]
    BY <1>1, <1>4, <1>10 DEF SemaV
  <1>12. /\ wait_q' \in [Sems -> Seq(Thrds)] /\ wait_q'[m] = << >>
         /\ \A n \in Sems : n # m => wait_q'[n] = wait_q[n]
         /\ asleep' = asleep \ {c}
         /\ count'[m] = IF pc[c] = "putfree" THEN 0 ELSE 1
    <2>1. CASE pc[c] = "putfree"
      <3>1. c \in asleep /\ count[m] = -1 /\ wait_q[m] = <<c>>
        BY <1>4, <1>8, <1>9, <2>1 DEF Locked, Quiet
      <3>2. <<c>> # << >> /\ Head(<<c>>) = c /\ Tail(<<c>>) = << >>
        BY <1>8
      <3>3. wait_q' = [wait_q EXCEPT ![m] = << >>] /\ asleep' = asleep \ {c}
        BY <1>1, <3>1, <3>2 DEF SemaV
      <3>4. << >> \in Seq(Thrds)
        OBVIOUS
      <3> QED
        BY <1>4, <1>10, <1>11, <2>1, <3>1, <3>3, <3>4
    <2>2. CASE pc[c] # "putfree"
      <3>1. c \notin asleep /\ count[m] = 0 /\ wait_q[m] = << >>
        BY <1>4, <1>8, <1>9, <2>2 DEF Locked
      <3>2. wait_q' = wait_q /\ asleep' = asleep
        BY <1>1, <3>1 DEF SemaV
      <3>3. asleep' = asleep \ {c}
        BY <3>1, <3>2
      <3> QED
        BY <1>10, <1>11, <2>2, <3>1, <3>2, <3>3
    <2> QED
      BY <2>1, <2>2
  <1>13. Typed'
    BY <1>1, <1>10, <1>11, <1>12 DEF Inv, Typed
  <1>14. Slotted'
    BY <1>2, <1>6 DEF Inv, Slotted
  <1>15. Served'
    <2>1. ASSUME NEW z \in Servers
          PROVE  /\ pc'[z] \in {"idle", "take", "clear", "release"}
                 /\ msg'[z] = Null <=> pc'[z] \in {"idle", "take"}
                 /\ pc'[z] = "release" => msg'[z] \in Msgs
                 /\ msg'[z] \notin Members(Queued')
      <3>1. CASE z = s
        <4>1. Null \notin Members(Queued)
          BY DistinctLen, MsgFacts DEF Inv, Lists
        <4> QED
          BY <1>2, <1>5, <3>1, <4>1
      <3>2. CASE z # s
        BY <1>2, <1>5, <3>2, MsgFacts DEF Inv, Served
      <3> QED
        BY <3>1, <3>2
    <2>2. \A z, y \in Servers : msg'[z] = msg'[y] /\ msg'[z] # Null => z = y
      BY <1>5, MsgFacts DEF Inv, Served
    <2> QED
      BY <2>1, <2>2 DEF Served
  <1>16. Counted'
    BY <1>1, <1>2, <1>5, MsgFacts DEF Inv, Counted
  <1>17. /\ ~ Pending(m)'
         /\ \A n \in AllMsgs : n # m => (Pending(n)' <=> Pending(n))
    <2>1. ~ Pending(m)'
      BY <1>2, <1>4, <1>5, <1>7, MsgFacts DEF Pending, Held
    <2>2. ASSUME NEW n \in AllMsgs, n # m PROVE Pending(n)' <=> Pending(n)
      BY <1>0, <1>2, <1>5, <2>2, MsgFacts DEF Pending, Held
    <2> QED
      BY <2>1, <2>2
  <1>18. Replied'
    <2>1. count'[IsrMsg] = 0 /\ wait_q'[IsrMsg] = << >> /\ id'[IsrMsg] = Isr
      BY <1>1, <1>4, <1>11, <1>12, MsgFacts DEF Inv, Replied
    <2>2. ASSUME NEW n \in Members(Free') PROVE Quiet(n)'
      <3>1. Quiet(n) /\ n \in AllMsgs /\ n \in Sems /\ n # m
        BY <1>2, <1>4, <2>2, DistinctLen, MsgFacts DEF Inv, Replied, Lists, Quiet
      <3> QED
        BY <1>11, <1>12, <1>17, <3>1 DEF Quiet
    <2>3. ASSUME NEW d \in Clients PROVE Locked(d)'
      <3>1. CASE d = c
        <4>1. pc'[c] = pc[c] /\ msg'[c] = m /\ id'[m] = c /\ c \notin asleep'
          BY <1>1, <1>6, <1>8, <1>9, <1>12 DEF Locked
        <4> QED
          BY <1>8, <1>12, <1>17, <3>1, <4>1 DEF Locked, Quiet
      <3>2. CASE d # c
        <4>1. msg[d] # Null => msg[d] # m /\ msg[d] \in AllMsgs /\ msg[d] \in Sems
          BY <1>4, <1>8, <3>2, InvClients DEF Inv, Slotted
        <4>2. d \in asleep' <=> d \in asleep
          BY <1>12, <3>2
        <4> QED
          BY <1>1, <1>6, <1>11, <1>12, <1>17, <4>1, <4>2, LockedFrame
      <3> QED
        BY <3>1, <3>2
    <2> QED
      BY <2>1, <2>2, <2>3 DEF Replied
  <1>19. Announced'
    <2>1. count'[Recv] = count[Recv] /\ wait_q'[Recv] = wait_q[Recv]
      BY <1>4, <1>11, <1>12, MsgFacts
    <2>2. \A z \in Servers : /\ pc'[z] = "take" <=> pc[z] = "take"
                             /\ z \in asleep' <=> z \in asleep
      BY <1>1, <1>5, <1>12, MsgFacts
    <2> QED
      BY <1>2, <1>6, <2>1, <2>2, AnnouncedFrame DEF Inv
  <1> QED
    BY <1>2, <1>13, <1>14, <1>15, <1>16, <1>18, <1>19 DEF Inv

-----------------------------------------------------------------------------
(* alloc_port() leaves an empty queue and every message on the free list.  *)
LEMMA InitInv == Init => Inv
  <1> SUFFICES ASSUME Init PROVE Inv
    OBVIOUS
  <1>1. PICK order \in Seqs :
          /\ \A i, j \in DOMAIN order : order[i] = order[j] => i = j
          /\ free_list = order[1]
          /\ next_free = [m \in AllMsgs |->
               IF \E i \in DOMAIN order : i + 1 \in DOMAIN order /\ order[i] = m
               THEN order[(CHOOSE i \in DOMAIN order : order[i] = m) + 1] ELSE Null]
    BY DEF Init
  <1>2. PICK n \in Nat \ {0} : n = Cardinality(Msgs)
    BY PortAssumption, FS_CardinalityType, FS_EmptySet
  <1>3. /\ order \in [1 .. n -> Msgs] /\ DOMAIN order = 1 .. n /\ order \in Seq(Msgs)
        /\ Len(order) = n /\ order # << >> /\ 1 \in 1 .. n
    BY <1>1, <1>2 DEF Seqs
  <1>4. Distinct(order)
    BY <1>1 DEF Distinct
  <1>5. Members(order) = Msgs
    <2>1. Members(order) \in SUBSET Msgs /\ Cardinality(Members(order)) = Cardinality(Msgs)
      BY <1>2, <1>3, <1>4, DistinctLen
    <2> QED
      BY <2>1, PortAssumption, FS_Subset
  <1>6. IsList(order, free_list, next_free, Null)
    <2>1. ASSUME NEW i \in 1 .. Len(order)
          PROVE  /\ order[i] # Null
                 /\ next_free[order[i]] = IF i = Len(order) THEN Null ELSE order[i + 1]
      <3>1. order[i] \in Msgs /\ order[i] \in AllMsgs /\ i \in DOMAIN order
        BY <1>3, MsgFacts
      <3>2. \A j \in DOMAIN order : order[j] = order[i] => j = i
        BY <1>1, <3>1
      <3>3. (CHOOSE j \in DOMAIN order : order[j] = order[i]) = i
        BY <3>1, <3>2
      <3>4. CASE i = Len(order)
        <4>1. ~ \E j \in DOMAIN order : j + 1 \in DOMAIN order /\ order[j] = order[i]
          BY <1>3, <3>2, <3>4
        <4> QED
          BY <1>1, <3>1, <3>4, <4>1, MsgFacts
      <3>5. CASE i # Len(order)
        <4>1. \E j \in DOMAIN order : j + 1 \in DOMAIN order /\ order[j] = order[i]
          BY <1>3, <3>5
        <4> QED
          BY <1>1, <3>1, <3>3, <3>5, <4>1, MsgFacts
      <3> QED
        BY <3>4, <3>5
    <2> QED
      BY <1>1, <1>3, <2>1 DEF IsList
  <1>7. << >> \in Seq(AllMsgs) /\ Distinct(<< >>) /\ IsList(<< >>, head, next, Null)
    BY DEF Init, Distinct, IsList
  <1>8. Lists /\ Queued = << >> /\ Free = order
    BY <1>3, <1>4, <1>6, <1>7, ListsFromLinks
  <1>9. Members(Queued) = {} /\ Members(Free) = Msgs
    BY <1>5, <1>8 DEF Members
  <1>10. /\ pc = [t \in Thrds |-> "idle"] /\ msg = [t \in Thrds |-> Null] /\ asleep = {}
         /\ count = [s \in Sems |-> 0] /\ wait_q = [s \in Sems |-> << >>]
         /\ qref = [m \in AllMsgs |-> 0]
         /\ id = [m \in AllMsgs |-> IF m = IsrMsg THEN Isr ELSE Null]
         /\ head = Null /\ tail = Null /\ next = [m \in AllMsgs |-> Null]
         /\ left = [c \in Clients |-> Sends]
    BY DEF Init
  <1>11. Typed
    <2>1. free_list \in Msgs /\ next_free \in [AllMsgs -> Msgs \cup {Null}]
      <3>1. ASSUME NEW m \in AllMsgs PROVE next_free[m] \in Msgs \cup {Null}
        <4>1. CASE \E i \in DOMAIN order : i + 1 \in DOMAIN order /\ order[i] = m
          <5>1. PICK i \in DOMAIN order : i + 1 \in DOMAIN order /\ order[i] = m
            BY <4>1
          <5>2. \A j \in DOMAIN order : order[j] = m => j = i
            BY <1>1, <5>1
          <5>3. (CHOOSE j \in DOMAIN order : order[j] = m) = i
            BY <5>1, <5>2
          <5>4. order[i + 1] \in Msgs
            BY <1>3, <5>1
          <5> QED
            BY <1>1, <4>1, <5>3, <5>4
        <4>2. CASE ~ \E i \in DOMAIN order : i + 1 \in DOMAIN order /\ order[i] = m
          BY <1>1, <4>2
        <4> QED
          BY <4>1, <4>2
      <3>2. free_list \in Msgs
        BY <1>1, <1>3
      <3> QED
        BY <1>1, <3>1, <3>2
    <2>2. 0 \in 0 .. MaxRef /\ Sends \in 0 .. Sends /\ << >> \in Seq(Thrds)
      BY PortAssumption
    <2> QED
      BY <1>10, <2>1, <2>2 DEF Typed
  <1>12. Slotted
    BY <1>9, <1>10, MsgFacts DEF Slotted
  <1>13. Served
    BY <1>9, <1>10, MsgFacts DEF Served
  <1>14. Counted
    BY <1>9, <1>10, MsgFacts DEF Counted
  <1>15. Replied
    <2>1. ASSUME NEW m \in Msgs PROVE Quiet(m)
      BY <1>9, <1>10, MsgFacts DEF Quiet, Pending, Held
    <2>2. \A c \in Clients : Locked(c)
      BY <1>10, MsgFacts DEF Locked
    <2> QED
      BY <1>9, <1>10, <2>1, <2>2, MsgFacts DEF Replied
  <1>16. Announced
    <2>1. Signalling = {} /\ Taking = {}
      BY <1>10, MsgFacts DEF Signalling, Taking
    <2>2. count[Recv] = 0 /\ wait_q[Recv] = << >> /\ Len(Queued) = 0
      BY <1>8, <1>10, MsgFacts
    <2>3. Cardinality(Signalling) = 0 /\ Cardinality(Taking) = 0
      BY <2>1, FS_EmptySet
    <2>4. Len(Queued) = Cardinality(Signalling) + Cardinality(Taking)
                        + IF count[Recv] > 0 THEN count[Recv] ELSE 0
      BY <2>2, <2>3
    <2>5. wait_q[Recv] \in Seq(Servers) /\ Distinct(wait_q[Recv]) /\ Members(wait_q[Recv]) = {}
          /\ Len(wait_q[Recv]) = 0
      BY <2>2 DEF Distinct, Members
    <2> QED
      BY <1>10, <2>2, <2>4, <2>5 DEF Announced
  <1> QED
    BY <1>8, <1>11, <1>12, <1>13, <1>14, <1>15, <1>16 DEF Inv

(* What msg.c keeps true at every step, interrupts included: queue, free   *)
(* list, slots and servers fit together, and recv counts the messages that *)
(* were announced and not taken (msg.c:117-360).                           *)
THEOREM PortInvariant == Spec => []Inv
  <1>1. Init => Inv
    BY InitInv
  <1>2. Inv /\ [Next]_vars => Inv'
    <2> SUFFICES ASSUME Inv, [Next]_vars PROVE Inv'
      OBVIOUS
    <2>1. CASE UNCHANGED vars
      <3>1. /\ UNCHANGED <<head, tail, next, free_list, next_free, qref, id, count, wait_q,
                           asleep, pc, msg, left>>
            /\ UNCHANGED queue /\ UNCHANGED pool
        BY <2>1 DEF vars, queue, pool, sema
      <3>2. Lists' /\ Queued' = Queued /\ Free' = Free
        BY <3>1, LinksSame DEF Inv
      <3>3. Typed' /\ Slotted' /\ Served' /\ Counted'
        BY <3>1, <3>2 DEF Inv, Typed, Slotted, Served, Counted
      <3>4. \A n : Pending(n)' <=> Pending(n)
        BY <3>1, <3>2 DEF Pending, Held
      <3>5. Replied'
        BY <3>1, <3>2, <3>4, LockedFrame DEF Inv, Replied, Quiet
      <3>6. Announced'
        BY <3>1, <3>2, AnnouncedFrame DEF Inv
      <3> QED
        BY <3>2, <3>3, <3>5, <3>6 DEF Inv
    <2>2. CASE \E c \in Clients : Client(c)
      BY <2>2, GetFreeKeeps, SendEnqueueKeeps, SendSignalKeeps, SendWaitKeeps, PutFreeKeeps
         DEF Client
    <2>3. CASE \E s \in Servers : Server(s)
      BY <2>3, ReceiveWaitKeeps, ReceiveTakeKeeps, ReceiveClearKeeps, ReceiveReleaseKeeps
         DEF Server
    <2>4. CASE IsrSend
      BY <2>4, IsrSendKeeps
    <2> QED
      BY <2>1, <2>2, <2>3, <2>4 DEF Next
  <1> QED
    BY <1>1, <1>2, PTL DEF Spec

(* The invariant bounds recv, and with it has the types.                   *)
LEMMA TypesHold == Inv => TypeOK
  <1> SUFFICES ASSUME Inv PROVE TypeOK
    OBVIOUS
  <1>1. Len(Queued) <= Cardinality(AllMsgs) /\ Len(Queued) \in Nat
    BY DistinctLen, MsgFacts, FS_Subset DEF Inv, Lists
  <1>2. Len(Queued) = Cardinality(Signalling) + Cardinality(Taking)
                      + IF count[Recv] > 0 THEN count[Recv] ELSE 0
    BY DEF Inv, Announced
  <1>3. count[Recv] \in Int
    BY MsgFacts DEF Inv, Typed
  <1>4. \A l, g, t, n \in Nat, k \in Int :
          l <= n /\ l = g + t + (IF k > 0 THEN k ELSE 0) => k <= n
    OBVIOUS
  <1>5. count[Recv] <= Cardinality(AllMsgs)
    BY <1>1, <1>2, <1>3, <1>4, ThreadsFinite, MsgFacts
  <1> QED
    BY <1>5 DEF Inv, Typed, TypeOK

(* The slots of the port are sound (alloc_port, m_send, m_receive): every  *)
(* message is on the free list once or in the hands of one client, and one *)
(* on the free list is on no queue, with no server, counted by nobody, and *)
(* its lock is at rest.                                                    *)
THEOREM PortSlotsSound == Spec => []SlotsSound
  <1>1. Inv => SlotsSound
    <2> SUFFICES ASSUME Inv PROVE SlotsSound
      OBVIOUS
    <2>1. \A q : Elems(q) = Members(q)
      BY DEF Elems, Members
    <2>2. Cardinality(Members(Free)) = Len(Free) /\ Members(Free) \subseteq Msgs
      BY DistinctLen DEF Inv, Lists
    <2>3. ASSUME NEW m \in Msgs
          PROVE  Cardinality({c \in Clients : msg[c] = m})
                   = (IF m \in Members(Free) THEN 0 ELSE 1)
      <3>1. m # Null
        BY MsgFacts
      <3>2. CASE m \in Members(Free)
        <4>1. {c \in Clients : msg[c] = m} = {}
          BY <3>1, <3>2 DEF Inv, Slotted
        <4> QED
          BY <3>2, <4>1, FS_EmptySet
      <3>3. CASE m \notin Members(Free)
        <4>1. PICK c \in Clients : msg[c] = m
          BY <3>3 DEF Inv, Slotted
        <4>2. {d \in Clients : msg[d] = m} = {c}
          BY <3>1, <4>1 DEF Inv, Slotted
        <4> QED
          BY <3>3, <4>2, FS_Singleton
      <3> QED
        BY <3>2, <3>3
    <2>4. SlotsAccounted
      BY <2>1, <2>2, <2>3 DEF SlotsAccounted
    <2>5. FreeIsQuiet
      <3> SUFFICES ASSUME NEW m \in Members(Free)
                   PROVE  /\ m \notin Members(Queued)
                          /\ \A s \in Servers : msg[s] # m
                          /\ qref[m] = 0 /\ count[m] = 0 /\ wait_q[m] = << >>
        BY <2>1 DEF FreeIsQuiet
      <3>1. Quiet(m) /\ m \in AllMsgs
        BY <2>2, MsgFacts DEF Inv, Replied
      <3>2. m \notin Members(Queued) /\ \A s \in Servers : msg[s] # m
        BY <3>1 DEF Quiet, Pending, Held
      <3>3. ~ (qref[m] > 0) /\ qref[m] \in 0 .. MaxRef
        BY <3>1, <3>2 DEF Inv, Counted, Typed
      <3>4. qref[m] = 0
        BY <3>3, PortAssumption
      <3> QED
        BY <3>1, <3>2, <3>4 DEF Quiet
    <2> QED
      BY <2>4, <2>5, TypesHold DEF SlotsSound
  <1> QED
    BY <1>1, PortInvariant, PTL

(* m_receive() never finds the queue empty: what it counted recv down for  *)
(* is on the queue when it gets there, whoever was served in between.      *)
THEOREM ReceiverFindsMessage == Spec => []NoEmptyTake
  <1>1. Inv => NoEmptyTake
    BY TakerFinds DEF NoEmptyTake, At
  <1> QED
    BY <1>1, PortInvariant, PTL

-----------------------------------------------------------------------------
(* The clients that are in m_send() with a slot are as many as the slots   *)
(* that are not free.                                                      *)
LEMMA SlotsInUse ==
  ASSUME Inv
  PROVE  /\ IsFiniteSet({c \in Clients : pc[c] # "idle"})
         /\ Cardinality({c \in Clients : pc[c] # "idle"}) = Cardinality(Msgs) - Len(Free)
         /\ Cardinality({c \in Clients : pc[c] # "idle"}) \in Nat
         /\ Cardinality(Msgs) \in Nat /\ Len(Free) \in Nat
  <1> DEFINE U == {c \in Clients : pc[c] # "idle"}
             M == Msgs \ Members(Free)
             g == [c \in U |-> msg[c]]
  <1>1. U \in SUBSET Clients
    OBVIOUS
  <1>2. IsFiniteSet(U) /\ Cardinality(U) \in Nat
    <2> HIDE DEF U
    <2> QED
      BY <1>1, PortAssumption, FS_Subset, FS_CardinalityType
  <1>3. g \in Bijection(U, M)
    <2>1. \A c \in U : msg[c] \in M
      BY InvClients DEF Inv, Slotted
    <2>2. g \in [U -> M]
      BY <2>1
    <2>3. ASSUME NEW c \in U, NEW d \in U, g[c] = g[d] PROVE c = d
      BY <2>3, InvClients DEF Inv, Slotted
    <2>4. ASSUME NEW m \in M PROVE \E c \in U : g[c] = m
      <3>1. PICK c \in Clients : msg[c] = m
        BY DEF Inv, Slotted
      <3>2. pc[c] # "idle"
        BY <3>1, MsgFacts DEF Inv, Slotted
      <3> QED
        BY <3>1, <3>2
    <2> HIDE DEF g, U, M
    <2> QED
      BY <2>2, <2>3, <2>4 DEF Bijection, Injection, Surjection, IsInjective
  <1>4. ExistsBijection(U, M)
    BY <1>3 DEF ExistsBijection
  <1>5. Cardinality(M) = Cardinality(U)
    <2> HIDE DEF g, U, M
    <2> QED
      BY <1>2, <1>4, FS_Bijection
  <1>6. /\ Members(Free) \subseteq Msgs /\ Cardinality(Members(Free)) = Len(Free)
        /\ Len(Free) \in Nat
    BY DistinctLen DEF Inv, Lists
  <1>7. Msgs \cap Members(Free) = Members(Free)
    BY <1>6
  <1>8. Cardinality(M) = Cardinality(Msgs) - Len(Free) /\ Cardinality(Msgs) \in Nat
    <2>1. IsFiniteSet(Msgs) /\ Cardinality(Msgs) \in Nat
      BY PortAssumption, FS_CardinalityType
    <2>2. Cardinality(M) = Cardinality(Msgs) - Cardinality(Msgs \cap Members(Free))
      BY <2>1, FS_Difference
    <2> QED
      BY <1>6, <1>7, <2>1, <2>2
  <1> QED
    BY <1>2, <1>5, <1>6, <1>8

(* A client's stage changes only with its step and with the queue.         *)
LEMMA StageFrame ==
  ASSUME NEW c \in Clients, pc'[c] = pc[c], msg'[c] = msg[c],
         msg[c] \in Members(Queued') <=> msg[c] \in Members(Queued)
  PROVE  Stage(c)' = Stage(c)
  <1>1. \A q : Elems(q) = Members(q)
    BY DEF Elems, Members
  <1> QED
    BY <1>1 DEF Stage

(* Where a client's message is in the mailbox's terms.                     *)
LEMMA StageOf ==
  ASSUME Inv, NEW c \in Clients
  PROVE  /\ Stage(c) = "idle" <=> pc[c] = "idle"
         /\ pc[c] = "send" => Stage(c) = "begun"
         /\ pc[c] \in {"signal", "wait", "putfree"} =>
              Stage(c) = IF msg[c] \in Members(Queued) THEN "sent" ELSE "taken"
  <1>1. \A q : Elems(q) = Members(q)
    BY DEF Elems, Members
  <1>2. pc[c] \in {"idle", "send", "signal", "wait", "putfree"}
    BY DEF Inv, Slotted
  <1> QED
    BY <1>1, <1>2 DEF Stage

(* The port's queue as the mailbox sees it: who sent what is queued.       *)
LEMMA BoxNext ==
  ASSUME NEW q \in Seq(AllMsgs), Queued' = q
  PROVE  [i \in DOMAIN Queued |-> id[Queued[i]]]' = [i \in DOMAIN q |-> id'[q[i]]]
  OBVIOUS

(* The port that was just created is an empty mailbox.                     *)
LEMMA BoxInit == Init => Box!Init
  <1> SUFFICES ASSUME Init PROVE Box!Init
    OBVIOUS
  <1>1. Inv
    BY InitInv
  <1>2. Len(Queued) = 0
    <2>1. head = Null
      BY DEF Init
    <2> QED
      BY <1>1, <2>1 DEF Inv, Lists, IsList
  <1>3. [i \in DOMAIN Queued |-> id[Queued[i]]] = << >>
    <2>1. Queued = << >>
      BY <1>1, <1>2 DEF Inv, Lists
    <2> QED
      BY <2>1
  <1>4. \A c \in Clients : Stage(c) = "idle"
    BY <1>1, StageOf, MsgFacts DEF Init
  <1>5. left \in [Clients -> Nat]
    BY PortAssumption DEF Init
  <1> QED
    BY <1>3, <1>4, <1>5 DEF Box!Init

(* Steps that neither queue nor take a message, and move no client to      *)
(* another stage, are steps the mailbox does not see.                      *)
LEMMA BoxStutters ==
  ASSUME Inv, Queued' = Queued, left' = left,
         \A m \in Members(Queued) : id'[m] = id[m],
         \A c \in Clients : Stage(c)' = Stage(c)
  PROVE  UNCHANGED Box!vars
  <1> DEFINE q == Queued
  <1>1. q \in Seq(AllMsgs)
    BY DEF Inv, Lists
  <1>2. Queued' = q
    OBVIOUS
  <1>3. \A i \in DOMAIN q : id'[q[i]] = id[q[i]]
    BY DEF Members
  <1>4. [i \in DOMAIN Queued |-> id[Queued[i]]]' = [i \in DOMAIN q |-> id'[q[i]]]
    <2> HIDE DEF q
    <2> QED
      BY <1>1, <1>2, BoxNext
  <1>5. [i \in DOMAIN q |-> id'[q[i]]] = [i \in DOMAIN q |-> id[q[i]]]
    <2> HIDE DEF q
    <2> QED
      BY <1>3
  <1>6. [i \in DOMAIN Queued |-> id[Queued[i]]]' = [i \in DOMAIN Queued |-> id[Queued[i]]]
    BY <1>4, <1>5
  <1>7. [c \in Clients |-> Stage(c)]' = [c \in Clients |-> Stage(c)]
    OBVIOUS
  <1> QED
    BY <1>6, <1>7 DEF Box!vars

(* The mailbox counts as the port does.                                    *)
LEMMA BoxCardinality == \A S : Box!Cardinality(S) = Cardinality(S)
  BY DEF Box!Cardinality, Cardinality

(* m_send() with a free slot begins a message, and drops it without one.   *)
LEMMA GetFreeMaps ==
  ASSUME Inv, NEW c \in Clients, GetFree(c)
  PROVE  Box!Next
  <1>0. Inv'
    BY GetFreeKeeps
  <1>1. /\ pc[c] = "idle" /\ left[c] > 0 /\ left' = [left EXCEPT ![c] = @ - 1]
        /\ UNCHANGED <<head, next, id>>
    BY DEF GetFree, At, queue
  <1>2. Queued' = Queued
    BY <1>1 DEF Queued
  <1>3. [i \in DOMAIN Queued |-> id[Queued[i]]]' = [i \in DOMAIN Queued |-> id[Queued[i]]]
    BY <1>1, <1>2
  <1>4. /\ Cardinality({d \in Clients : pc[d] # "idle"}) = Cardinality(Msgs) - Len(Free)
        /\ Cardinality(Msgs) \in Nat /\ Len(Free) \in Nat
    BY SlotsInUse
  <1>5. Box!InUse = {d \in Clients : pc[d] # "idle"}
    BY StageOf DEF Box!InUse
  <1>6. Stage(c) = "idle"
    BY <1>1, StageOf
  <1>7. CASE free_list = Null /\ UNCHANGED <<pool, pc, msg>>
    <2>1. Len(Free) = 0
      BY <1>7 DEF Inv, Lists, IsList
    <2>2. \A d \in Clients : Stage(d)' = Stage(d)
      BY <1>2, <1>7, StageFrame
    <2>3. [d \in Clients |-> Stage(d)]' = [d \in Clients |-> Stage(d)]
      BY <2>2
    <2>4. Cardinality(Box!InUse) = Cardinality(Msgs)
      BY <1>4, <1>5, <2>1
    <2>5. [d \in Clients |-> Stage(d)][c] = "idle"
      BY <1>6
    <2>6. Box!Drop(c)
      BY <1>1, <1>3, <2>3, <2>4, <2>5, BoxCardinality DEF Box!Drop
    <2> QED
      BY <2>6 DEF Box!Next
  <1>8. CASE free_list # Null
    <2>1. pc' = [pc EXCEPT ![c] = "send"] /\ msg' = [msg EXCEPT ![c] = free_list]
      BY <1>8 DEF GetFree, Goto
    <2>2. Len(Free) # 0
      BY <1>8 DEF Inv, Lists, IsList
    <2>3. pc'[c] = "send"
          /\ \A d \in Clients : d # c => pc'[d] = pc[d] /\ msg'[d] = msg[d]
      BY <2>1, MsgFacts DEF Inv, Typed
    <2>4. Stage(c)' = "begun"
      BY <2>3 DEF Stage
    <2>5. \A d \in Clients : d # c => Stage(d)' = Stage(d)
      BY <1>2, <2>3, StageFrame
    <2>6. [d \in Clients |-> Stage(d)]' = [[d \in Clients |-> Stage(d)] EXCEPT ![c] = "begun"]
      BY <2>4, <2>5
    <2>7. Cardinality(Box!InUse) < Cardinality(Msgs)
      BY <1>4, <1>5, <2>2
    <2>8. [d \in Clients |-> Stage(d)][c] = "idle"
      BY <1>6
    <2>9. Box!Begin(c)
      BY <1>1, <1>3, <2>6, <2>7, <2>8, BoxCardinality DEF Box!Begin
    <2> QED
      BY <2>9 DEF Box!Next
  <1> QED
    BY <1>7, <1>8 DEF GetFree

(* The message that goes on the queue is sent.                             *)
LEMMA SendEnqueueMaps ==
  ASSUME Inv, NEW c \in Clients, SendEnqueue(c)
  PROVE  Box!Next
  <1>0. PICK m : m = msg[c]
    OBVIOUS
  <1>1. /\ m \in Msgs /\ m \in AllMsgs /\ m # Null /\ m # IsrMsg
        /\ m \notin Members(Queued) /\ m \notin Members(Free)
        /\ Quiet(m) /\ qref[m] = 0 /\ Enqueue(m)
        /\ pc[c] = "send" /\ c \notin asleep /\ pc' = [pc EXCEPT ![c] = "signal"]
        /\ qref' = [qref EXCEPT ![m] = 1] /\ id' = [id EXCEPT ![m] = c]
        /\ UNCHANGED <<free_list, next_free, count, wait_q, asleep, msg, left>>
    BY <1>0, SendLinks
  <1>2. Lists' /\ Queued' = Append(Queued, m) /\ Members(Queued') = Members(Queued) \cup {m}
    BY <1>1, EnqueueAppends DEF Inv, pool
  <1>3. PICK q \in Seq(AllMsgs) : q = Queued
    BY DEF Inv, Lists
  <1>4. /\ id'[m] = c /\ \A i \in DOMAIN q : id'[q[i]] = id[q[i]]
    <2>1. \A i \in DOMAIN q : q[i] # m /\ q[i] \in AllMsgs
      BY <1>1, <1>3 DEF Members
    <2> QED
      BY <1>1, <2>1 DEF Inv, Typed
  <1>5. [i \in DOMAIN Queued |-> id[Queued[i]]]'
          = Append([i \in DOMAIN Queued |-> id[Queued[i]]], c)
    <2>1. Append(q, m) \in Seq(AllMsgs)
      BY <1>1
    <2>2. [i \in DOMAIN Queued |-> id[Queued[i]]]'
            = [i \in DOMAIN Append(q, m) |-> id'[Append(q, m)[i]]]
      BY <1>2, <1>3, <2>1, BoxNext
    <2>3. [i \in DOMAIN Append(q, m) |-> id'[Append(q, m)[i]]]
            = Append([i \in DOMAIN q |-> id[q[i]]], c)
      <3> DEFINE b == [i \in DOMAIN q |-> id[q[i]]]
                 d == [i \in DOMAIN Append(q, m) |-> id'[Append(q, m)[i]]]
      <3>1. Len(q) \in Nat /\ DOMAIN q = 1 .. Len(q) /\ DOMAIN Append(q, m) = 1 .. Len(q) + 1
        BY <2>1
      <3>2. /\ \A i \in 1 .. Len(q) : Append(q, m)[i] = q[i]
            /\ Append(q, m)[Len(q) + 1] = m
        OBVIOUS
      <3>3. b \in Seq(Clients \cup {Isr, Null}) /\ Len(b) = Len(q)
        <4>1. \A i \in DOMAIN q : id[q[i]] \in Clients \cup {Isr, Null}
          BY DEF Inv, Typed
        <4> QED
          BY <3>1, <4>1
      <3>4. d = [i \in 1 .. Len(q) + 1 |-> IF i = Len(q) + 1 THEN c ELSE id[q[i]]]
        BY <1>4, <3>1, <3>2
      <3>5. \A i \in 1 .. Len(q) : b[i] = id[q[i]]
        BY <3>1
      <3> HIDE DEF b, d
      <3>6. Append(b, c) = [i \in 1 .. Len(q) + 1 |-> IF i = Len(q) + 1 THEN c ELSE b[i]]
        BY <3>3, AppendIs
      <3>7. d = Append(b, c)
        BY <3>1, <3>4, <3>5, <3>6
      <3> QED
        BY <3>7 DEF b, d
    <2> QED
      BY <1>3, <2>2, <2>3
  <1>6. Stage(c) = "begun"
    BY <1>1, StageOf
  <1>7. pc'[c] = "signal" /\ \A d \in Clients : d # c => pc'[d] = pc[d]
    BY <1>1, MsgFacts DEF Inv, Typed
  <1>8. Stage(c)' = "sent"
    <2>1. msg'[c] \in Elems(Queued')
      BY <1>0, <1>1, <1>2 DEF Elems, Members
    <2> QED
      BY <1>7, <2>1 DEF Stage
  <1>9. ASSUME NEW d \in Clients, d # c PROVE Stage(d)' = Stage(d)
    <2>1. CASE msg[d] = Null
      BY <1>1, <1>2, <1>7, <1>9, <2>1, MsgFacts, StageFrame
    <2>2. CASE msg[d] # Null
      <3>1. msg[d] # m
        BY <1>0, <1>9, <2>2 DEF Inv, Slotted
      <3> QED
        BY <1>1, <1>2, <1>7, <1>9, <3>1, StageFrame
    <2> QED
      BY <2>1, <2>2
  <1>10. [d \in Clients |-> Stage(d)]' = [[d \in Clients |-> Stage(d)] EXCEPT ![c] = "sent"]
    BY <1>8, <1>9
  <1>11. Box!Send(c)
    BY <1>1, <1>5, <1>6, <1>10 DEF Box!Send
  <1> QED
    BY <1>11 DEF Box!Next

(* The slot that is given back ends the call.                              *)
LEMMA PutFreeMaps ==
  ASSUME Inv, NEW c \in Clients, PutFree(c)
  PROVE  Box!Next
  <1>1. /\ pc[c] = "putfree" /\ c \notin asleep /\ pc' = [pc EXCEPT ![c] = "idle"]
        /\ msg' = [msg EXCEPT ![c] = Null]
        /\ UNCHANGED <<head, next, id, left>>
    BY DEF PutFree, At, Goto, queue
  <1>2. Queued' = Queued
    BY <1>1 DEF Queued
  <1>3. [i \in DOMAIN Queued |-> id[Queued[i]]]' = [i \in DOMAIN Queued |-> id[Queued[i]]]
    BY <1>1, <1>2
  <1>4. msg[c] \notin Members(Queued)
    BY <1>1 DEF Inv, Replied, Locked, Quiet, Pending
  <1>5. Stage(c) = "taken"
    BY <1>1, <1>4, StageOf
  <1>6. pc'[c] = "idle" /\ \A d \in Clients : d # c => pc'[d] = pc[d] /\ msg'[d] = msg[d]
    BY <1>1, MsgFacts DEF Inv, Typed
  <1>7. Stage(c)' = "idle"
    BY <1>6 DEF Stage
  <1>8. \A d \in Clients : d # c => Stage(d)' = Stage(d)
    BY <1>2, <1>6, StageFrame
  <1>9. [d \in Clients |-> Stage(d)]' = [[d \in Clients |-> Stage(d)] EXCEPT ![c] = "idle"]
    BY <1>7, <1>8
  <1>10. [d \in Clients |-> Stage(d)][c] = "taken"
    BY <1>5
  <1>11. Box!Return(c)
    BY <1>1, <1>3, <1>9, <1>10 DEF Box!Return
  <1> QED
    BY <1>11 DEF Box!Next

(* The semaphore calls of do_send() change nothing of the mailbox.         *)
LEMMA SignalAndWaitStutter ==
  ASSUME Inv, NEW c \in Clients, SendSignal(c) \/ SendWait(c)
  PROVE  UNCHANGED Box!vars
  <1>1. /\ pc[c] \in {"signal", "wait"} /\ UNCHANGED <<head, next, id, left, msg>>
        /\ \/ pc' = [pc EXCEPT ![c] = "wait"]
           \/ pc' = [pc EXCEPT ![c] = "putfree"]
    BY DEF SendSignal, SendWait, At, Goto, queue
  <1>2. Queued' = Queued
    BY <1>1 DEF Queued
  <1>3. /\ pc'[c] \in {"wait", "putfree"}
        /\ \A d \in Clients : d # c => pc'[d] = pc[d]
    BY <1>1, MsgFacts DEF Inv, Typed
  <1>4. Stage(c)' = Stage(c)
    BY <1>1, <1>2, <1>3 DEF Stage
  <1>5. \A d \in Clients : Stage(d)' = Stage(d)
    BY <1>1, <1>2, <1>3, <1>4, StageFrame
  <1> QED
    BY <1>1, <1>2, <1>5, BoxStutters

(* An interrupt's message is sent, or merged with the one before.          *)
LEMMA IsrSendMaps ==
  ASSUME Inv, IsrSend
  PROVE  Box!Next \/ UNCHANGED Box!vars
  <1>1. UNCHANGED <<id, pc, msg, left, free_list, next_free>>
    BY DEF IsrSend, pool
  <1>2. IsrMsg \in AllMsgs /\ IsrMsg \notin Msgs /\ qref[IsrMsg] \in 0 .. MaxRef
    BY MsgFacts DEF Inv, Typed
  <1>3. \A d \in Clients : msg[d] # IsrMsg
    BY InvClients, MsgFacts
  <1>4. CASE UNCHANGED queue
    <2>1. Queued' = Queued
      BY <1>4 DEF Queued, queue
    <2>2. \A d \in Clients : Stage(d)' = Stage(d)
      BY <1>1, <2>1, StageFrame
    <2> QED
      BY <1>1, <2>1, <2>2, BoxStutters
  <1>5. CASE qref[IsrMsg] + 1 <= 1 /\ Enqueue(IsrMsg)
    <2>1. IsrMsg \notin Members(Queued)
      <3>1. ~ (qref[IsrMsg] > 0)
        BY <1>2, <1>5, PortAssumption
      <3> QED
        BY <1>2, <3>1 DEF Inv, Counted
    <2>2. /\ Queued' = Append(Queued, IsrMsg)
          /\ Members(Queued') = Members(Queued) \cup {IsrMsg}
      BY <1>1, <1>2, <1>5, <2>1, EnqueueAppends DEF Inv, pool
    <2>3. PICK q \in Seq(AllMsgs) : q = Queued
      BY DEF Inv, Lists
    <2>4. \A i \in DOMAIN q : id[q[i]] # Isr
      <3> SUFFICES ASSUME NEW i \in DOMAIN q PROVE id[q[i]] # Isr
        OBVIOUS
      <3>1. q[i] \in Members(Queued) /\ q[i] \in AllMsgs
        BY <2>3 DEF Members
      <3>2. q[i] \in Msgs
        BY <2>1, <3>1 DEF AllMsgs
      <3>3. PICK d \in Clients : msg[d] = q[i] /\ pc[d] \in {"signal", "wait", "putfree"}
        BY <3>1, <3>2, PendingHasClient DEF Pending
      <3>4. id[q[i]] = d
        BY <3>3 DEF Inv, Replied, Locked
      <3> QED
        BY <3>4, MsgFacts
    <2>5. [i \in DOMAIN Queued |-> id[Queued[i]]]'
            = Append([i \in DOMAIN Queued |-> id[Queued[i]]], Isr)
      <3>1. Append(q, IsrMsg) \in Seq(AllMsgs)
        BY <1>2
      <3>2. [i \in DOMAIN Queued |-> id[Queued[i]]]'
              = [i \in DOMAIN Append(q, IsrMsg) |-> id'[Append(q, IsrMsg)[i]]]
        BY <2>2, <2>3, <3>1, BoxNext
      <3>3. [i \in DOMAIN Append(q, IsrMsg) |-> id'[Append(q, IsrMsg)[i]]]
              = Append([i \in DOMAIN q |-> id[q[i]]], Isr)
        <4> DEFINE b == [i \in DOMAIN q |-> id[q[i]]]
                   d == [i \in DOMAIN Append(q, IsrMsg) |-> id'[Append(q, IsrMsg)[i]]]
        <4>1. /\ Len(q) \in Nat /\ DOMAIN q = 1 .. Len(q)
              /\ DOMAIN Append(q, IsrMsg) = 1 .. Len(q) + 1
          BY <3>1
        <4>2. /\ \A i \in 1 .. Len(q) : Append(q, IsrMsg)[i] = q[i]
              /\ Append(q, IsrMsg)[Len(q) + 1] = IsrMsg
          OBVIOUS
        <4>3. b \in Seq(Clients \cup {Isr, Null}) /\ Len(b) = Len(q)
          <5>1. \A i \in DOMAIN q : id[q[i]] \in Clients \cup {Isr, Null}
            BY DEF Inv, Typed
          <5> QED
            BY <4>1, <5>1
        <4>4. id'[IsrMsg] = Isr
          BY <1>1 DEF Inv, Replied
        <4>5. d = [i \in 1 .. Len(q) + 1 |-> IF i = Len(q) + 1 THEN Isr ELSE id[q[i]]]
          BY <1>1, <4>1, <4>2, <4>4
        <4>6. \A i \in 1 .. Len(q) : b[i] = id[q[i]]
          BY <4>1
        <4> HIDE DEF b, d
        <4>7. Append(b, Isr) = [i \in 1 .. Len(q) + 1 |-> IF i = Len(q) + 1 THEN Isr ELSE b[i]]
          BY <4>3, AppendIs
        <4>8. d = Append(b, Isr)
          BY <4>1, <4>5, <4>6, <4>7
        <4> QED
          BY <4>8 DEF b, d
      <3> QED
        BY <2>3, <3>2, <3>3
    <2>6. \A d \in Clients : Stage(d)' = Stage(d)
      BY <1>1, <1>3, <2>2, StageFrame
    <2>7. [d \in Clients |-> Stage(d)]' = [d \in Clients |-> Stage(d)]
      BY <2>6
    <2>8. \A i \in DOMAIN [j \in DOMAIN Queued |-> id[Queued[j]]] :
            [j \in DOMAIN Queued |-> id[Queued[j]]][i] # Isr
      BY <2>3, <2>4
    <2>9. Box!Interrupt
      BY <1>1, <2>5, <2>7, <2>8 DEF Box!Interrupt
    <2> QED
      BY <2>9 DEF Box!Next
  <1> QED
    BY <1>4, <1>5 DEF IsrSend

(* The message that leaves the queue is received.                          *)
LEMMA ReceiveTakeMaps ==
  ASSUME Inv, NEW s \in Servers, ReceiveTake(s)
  PROVE  Box!Next
  <1>0. PICK m : m = head
    OBVIOUS
  <1>1. /\ pc[s] = "take" /\ s \notin asleep /\ head # Null
        /\ pc' = [pc EXCEPT ![s] = "clear"] /\ msg' = [msg EXCEPT ![s] = m]
        /\ head' = next[head]
        /\ UNCHANGED <<tail, next, free_list, next_free, id, left>>
    <2>1. pc[s] = "take" /\ s \notin asleep
      BY DEF ReceiveTake, At
    <2>2. head # Null
      BY <2>1, TakerFinds
    <2> QED
      BY <1>0, <2>1, <2>2 DEF ReceiveTake, Goto, pool, sema
  <1>2. /\ Queued # << >> /\ m \in Members(Queued) /\ m = Queued[1]
        /\ Queued' = Tail(Queued) /\ Members(Queued') = Members(Queued) \ {m}
    BY <1>0, <1>1, TakeRemoves DEF Inv, pool
  <1>3. PICK q \in Seq(AllMsgs) : q = Queued
    BY DEF Inv, Lists
  <1>4. \A c \in Clients : pc'[c] = pc[c] /\ msg'[c] = msg[c]
    BY <1>1, MsgFacts DEF Inv, Typed
  <1>5. PICK b : b = [i \in DOMAIN Queued |-> id[Queued[i]]]
    OBVIOUS
  <1>6. /\ b \in Seq(Clients \cup {Isr, Null}) /\ b # << >> /\ Len(b) = Len(q)
        /\ Head(b) = id[m] /\ \A i \in 1 .. Len(q) : b[i] = id[q[i]]
    <2>1. \A i \in DOMAIN q : id[q[i]] \in Clients \cup {Isr, Null}
      BY DEF Inv, Typed
    <2>2. Len(q) \in Nat \ {0} /\ DOMAIN q = 1 .. Len(q)
      BY <1>2, <1>3
    <2>3. b = [i \in 1 .. Len(q) |-> id[q[i]]]
      BY <1>3, <1>5, <2>2
    <2>4. b \in Seq(Clients \cup {Isr, Null}) /\ Len(b) = Len(q)
      BY <2>1, <2>2, <2>3
    <2>5. b # << >> /\ b[1] = id[m]
      BY <1>2, <1>3, <2>2, <2>3, <2>4
    <2> QED
      BY <2>2, <2>3, <2>4, <2>5
  <1>7. [i \in DOMAIN Queued |-> id[Queued[i]]]' = Tail(b)
    <2>1. Tail(q) \in Seq(AllMsgs) /\ Queued' = Tail(q)
      BY <1>2, <1>3
    <2>2. [i \in DOMAIN Queued |-> id[Queued[i]]]' = [i \in DOMAIN Tail(q) |-> id'[Tail(q)[i]]]
      BY <2>1, BoxNext
    <2>3. Tail(q) = [i \in 1 .. Len(q) - 1 |-> q[i + 1]]
      BY <1>2, <1>3, TailIs
    <2>4. Tail(b) = [i \in 1 .. Len(q) - 1 |-> b[i + 1]]
      BY <1>6, TailIs
    <2>5. [i \in DOMAIN Tail(q) |-> id'[Tail(q)[i]]] = [i \in 1 .. Len(q) - 1 |-> id[q[i + 1]]]
      BY <1>1, <2>3
    <2>6. [i \in 1 .. Len(q) - 1 |-> id[q[i + 1]]] = [i \in 1 .. Len(q) - 1 |-> b[i + 1]]
      <3>1. Len(q) \in Nat
        OBVIOUS
      <3>2. \A i \in 1 .. Len(q) - 1 : b[i + 1] = id[q[i + 1]]
        BY <1>6, <3>1
      <3> QED
        BY <3>2
    <2> QED
      BY <2>2, <2>4, <2>5, <2>6
  <1>8. ASSUME NEW c \in Clients
        PROVE  Stage(c)' = IF c = Head(b) THEN "taken" ELSE Stage(c)
    <2>1. CASE msg[c] = m
      <3>1. m \in Msgs /\ m # Null
        BY <1>2, <2>1, InvClients, DistinctLen, MsgFacts DEF Inv, Lists
      <3>2. PICK d \in Clients : msg[d] = m /\ pc[d] \in {"signal", "wait", "putfree"}
        BY <1>2, <3>1, PendingHasClient DEF Pending
      <3>3. d = c
        BY <2>1, <3>1, <3>2 DEF Inv, Slotted
      <3>4. id[m] = c
        BY <2>1, <3>2, <3>3 DEF Inv, Replied, Locked
      <3>5. msg'[c] \notin Elems(Queued')
        BY <1>2, <1>4, <2>1 DEF Elems, Members
      <3>6. Stage(c)' = "taken"
        BY <1>4, <3>2, <3>3, <3>5 DEF Stage
      <3> QED
        BY <1>6, <3>4, <3>6
    <2>2. CASE msg[c] # m
      <3>1. c # id[m]
        <4>1. CASE m = IsrMsg
          BY <4>1, MsgFacts DEF Inv, Replied
        <4>2. CASE m # IsrMsg
          <5>1. m \in Msgs
            BY <1>2, <4>2, DistinctLen DEF Inv, Lists, AllMsgs
          <5>2. PICK d \in Clients : msg[d] = m /\ pc[d] \in {"signal", "wait", "putfree"}
            BY <1>2, <5>1, PendingHasClient DEF Pending
          <5>3. id[m] = d
            BY <5>2 DEF Inv, Replied, Locked
          <5> QED
            BY <2>2, <5>2, <5>3
        <4> QED
          BY <4>1, <4>2
      <3>2. Stage(c)' = Stage(c)
        BY <1>2, <1>4, <2>2, StageFrame
      <3> QED
        BY <1>6, <3>1, <3>2
    <2> QED
      BY <2>1, <2>2
  <1>9. [c \in Clients |-> Stage(c)]'
          = [c \in Clients |-> IF c = Head(b) THEN "taken" ELSE [d \in Clients |-> Stage(d)][c]]
    BY <1>8
  <1>10. Box!Take
    BY <1>1, <1>5, <1>6, <1>7, <1>9 DEF Box!Take
  <1> QED
    BY <1>10 DEF Box!Next

(* The semaphore calls of a server change nothing of the mailbox.          *)
LEMMA ServerStutters ==
  ASSUME Inv, NEW s \in Servers,
         ReceiveWait(s) \/ ReceiveClear(s) \/ ReceiveRelease(s)
  PROVE  UNCHANGED Box!vars
  <1>1. UNCHANGED <<head, next, id, left>>
    BY DEF ReceiveWait, ReceiveClear, ReceiveRelease, queue
  <1>2. Queued' = Queued
    BY <1>1 DEF Queued
  <1>3. \A c \in Clients : c # s /\ c \in Thrds
    BY MsgFacts
  <1>4. \A c \in Clients : pc'[c] = pc[c] /\ msg'[c] = msg[c]
    <2>1. pc \in [Thrds -> {"idle", "send", "signal", "wait", "putfree",
                            "take", "clear", "release"}]
          /\ msg \in [Thrds -> AllMsgs \cup {Null}]
      BY DEF Inv, Typed
    <2>2. CASE ReceiveWait(s)
      BY <1>3, <2>1, <2>2 DEF ReceiveWait, Goto
    <2>3. CASE ReceiveClear(s)
      BY <1>3, <2>1, <2>3 DEF ReceiveClear, Goto
    <2>4. CASE ReceiveRelease(s)
      BY <1>3, <2>1, <2>4 DEF ReceiveRelease, Goto
    <2> QED
      BY <2>2, <2>3, <2>4
  <1>5. \A c \in Clients : Stage(c)' = Stage(c)
    BY <1>2, <1>4, StageFrame
  <1> QED
    BY <1>1, <1>2, <1>5, BoxStutters

(* The port is a mailbox (do_send, m_receive): messages are received once  *)
(* each and in the order they were queued, a sender returns only when its  *)
(* message was taken, one is dropped only when every slot is in use, and   *)
(* interrupts that come before their message is taken are one message.     *)
THEOREM PortImplementsMailbox == Spec => ImplementsMailbox
  <1>1. Init => Box!Init
    BY BoxInit
  <1>2. Inv /\ [Next]_vars => [Box!Next]_(Box!vars)
    <2> SUFFICES ASSUME Inv, [Next]_vars PROVE Box!Next \/ UNCHANGED Box!vars
      OBVIOUS
    <2>1. CASE UNCHANGED vars
      <3>1. UNCHANGED <<head, next, id, pc, msg, left>>
        BY <2>1 DEF vars, queue
      <3>2. Queued' = Queued
        BY <3>1 DEF Queued
      <3>3. \A c \in Clients : Stage(c)' = Stage(c)
        BY <3>1, <3>2, StageFrame
      <3> QED
        BY <3>1, <3>2, <3>3, BoxStutters
    <2>2. CASE \E c \in Clients : Client(c)
      BY <2>2, GetFreeMaps, SendEnqueueMaps, SignalAndWaitStutter, PutFreeMaps DEF Client
    <2>3. CASE \E s \in Servers : Server(s)
      BY <2>3, ReceiveTakeMaps, ServerStutters DEF Server
    <2>4. CASE IsrSend
      BY <2>4, IsrSendMaps
    <2> QED
      BY <2>1, <2>2, <2>3, <2>4 DEF Next
  <1> QED
    BY <1>1, <1>2, PortInvariant, PTL DEF Spec, ImplementsMailbox, Box!Spec
=============================================================================
