--------------------------- MODULE ConsoleProofs ---------------------------
(***************************************************************************)
(* Proofs about the three parts of the console: the line editor over the   *)
(* keyboard (modules Keyboard and Console), the commands on threads (Life) *)
(* and those on the file system (Session), for any set of keys, threads,   *)
(* pages and devices, any size of the ring of scan codes and of the line,  *)
(* and any number of commands.                                             *)
(***************************************************************************)
EXTENDS Console, Life, Session, Chains, SequenceTheorems

Codes == Keys \cup {None}

(* The i-th place of the ring, counted from its read pointer p.            *)
Place(p, i) == (p + i - 1) % KB_BUFSZ

Typed == [i \in 1 .. kb_count |-> kb_buf[Place(pkbout, i)]]

(* The ring holds kb_count keys from its read pointer to its write pointer.*)
RingOk ==
  /\ kb_buf \in [Slot -> Codes]
  /\ kb_count \in 0 .. KB_BUFSZ
  /\ pkbout \in Slot
  /\ pkbin = Place(pkbout, kb_count + 1)
  /\ \A i \in 1 .. kb_count : kb_buf[Place(pkbout, i)] \in Keys

KeyInv == RingOk /\ asleep \in BOOLEAN /\ WaiterAsleep

-----------------------------------------------------------------------------
(* Places wrap once around the ring.                                       *)
LEMMA PlaceIs ==
  /\ KB_BUFSZ \in Nat \ {0}
  /\ \A p \in Slot, i \in 1 .. KB_BUFSZ + 1 :
       /\ Place(p, i) = IF p + i - 1 < KB_BUFSZ THEN p + i - 1 ELSE p + i - 1 - KB_BUFSZ
       /\ Place(p, i) \in Slot
  <1>1. KB_BUFSZ \in Nat \ {0}
    BY KeyboardAssumption
  <1>2. /\ \A a \in Nat, b \in Nat \ {0} : a < b => a % b = a
        /\ \A a \in Nat, b \in Nat \ {0} : a >= b /\ a < 2 * b => a % b = a - b
    <2>1. \A a \in Nat, b \in Nat \ {0} : a < b => a % b = a
      OBVIOUS
    <2>2. \A a \in Nat, b \in Nat \ {0} : a >= b /\ a < 2 * b => a % b = a - b
      OBVIOUS
    <2> QED
      BY <2>1, <2>2
  <1>3. ASSUME NEW p \in Slot, NEW i \in 1 .. KB_BUFSZ + 1
        PROVE  /\ Place(p, i) = IF p + i - 1 < KB_BUFSZ THEN p + i - 1
                                ELSE p + i - 1 - KB_BUFSZ
               /\ Place(p, i) \in Slot
    <2>1. PICK a \in Nat : a = p + i - 1 /\ a < 2 * KB_BUFSZ
      BY <1>1 DEF Slot
    <2>2. Place(p, i) = IF a < KB_BUFSZ THEN a ELSE a - KB_BUFSZ
      BY <1>1, <1>2, <2>1 DEF Place
    <2> QED
      BY <1>1, <2>1, <2>2 DEF Slot
  <1> QED
    BY <1>1, <1>3

(* How places and pointers move.                                           *)
LEMMA PlacesMove ==
  ASSUME NEW p \in Slot
  PROVE  /\ Step(p) \in Slot /\ Place(p, 1) = p /\ Place(0, 1) = 0 /\ 0 \in Slot
         /\ \A n \in 0 .. KB_BUFSZ - 1 :
              /\ Step(Place(p, n + 1)) = Place(p, n + 2)
              /\ \A i \in 1 .. n : Place(p, i) # Place(p, n + 1)
         /\ \A i \in 1 .. KB_BUFSZ : Place(Step(p), i) = Place(p, i + 1)
  <1>0. KB_BUFSZ \in Nat \ {0} /\ 0 \in Slot
    BY PlaceIs DEF Slot
  <1>1. Step(p) \in Slot
    BY <1>0 DEF Step, Slot
  <1>2. Place(p, 1) = p /\ Place(0, 1) = 0
    <2>1. 1 \in 1 .. KB_BUFSZ + 1 /\ p \in Nat /\ p < KB_BUFSZ
      BY <1>0 DEF Slot
    <2>2. /\ Place(p, 1) = IF p + 1 - 1 < KB_BUFSZ THEN p + 1 - 1 ELSE p + 1 - 1 - KB_BUFSZ
          /\ Place(0, 1) = IF 0 + 1 - 1 < KB_BUFSZ THEN 0 + 1 - 1 ELSE 0 + 1 - 1 - KB_BUFSZ
      BY <1>0, <2>1, PlaceIs
    <2> QED
      BY <1>0, <2>1, <2>2
  <1>3. ASSUME NEW n \in 0 .. KB_BUFSZ - 1
        PROVE  /\ Step(Place(p, n + 1)) = Place(p, n + 2)
               /\ \A i \in 1 .. n : Place(p, i) # Place(p, n + 1)
    <2>1. p \in 0 .. KB_BUFSZ - 1 /\ n + 1 \in 1 .. KB_BUFSZ + 1 /\ n + 2 \in 1 .. KB_BUFSZ + 1
      BY <1>0 DEF Slot
    <2>2. /\ Place(p, n + 1) = IF p + n < KB_BUFSZ THEN p + n ELSE p + n - KB_BUFSZ
          /\ Place(p, n + 2) = IF p + n + 1 < KB_BUFSZ THEN p + n + 1 ELSE p + n + 1 - KB_BUFSZ
      <3>1. PICK a \in 1 .. KB_BUFSZ + 1, b \in 1 .. KB_BUFSZ + 1 : a = n + 1 /\ b = n + 2
        BY <2>1
      <3>2. /\ Place(p, a) = IF p + a - 1 < KB_BUFSZ THEN p + a - 1 ELSE p + a - 1 - KB_BUFSZ
            /\ Place(p, b) = IF p + b - 1 < KB_BUFSZ THEN p + b - 1 ELSE p + b - 1 - KB_BUFSZ
        BY PlaceIs
      <3>3. p + a - 1 = p + n /\ p + b - 1 = p + n + 1
        BY <1>0, <2>1, <3>1
      <3> QED
        BY <1>0, <2>1, <3>1, <3>2, <3>3
    <2>3. Step(Place(p, n + 1)) = Place(p, n + 2)
      BY <1>0, <2>1, <2>2 DEF Step
    <2>4. ASSUME NEW i \in 1 .. n PROVE Place(p, i) # Place(p, n + 1)
      <3>1. Place(p, i) = IF p + i - 1 < KB_BUFSZ THEN p + i - 1 ELSE p + i - 1 - KB_BUFSZ
        <4>1. i \in 1 .. KB_BUFSZ + 1
          BY <1>0
        <4> QED
          BY <4>1, PlaceIs
      <3> QED
        BY <1>0, <2>1, <2>2, <3>1
    <2> QED
      BY <2>3, <2>4
  <1>4. ASSUME NEW i \in 1 .. KB_BUFSZ PROVE Place(Step(p), i) = Place(p, i + 1)
    <2>1. p \in 0 .. KB_BUFSZ - 1 /\ i \in 1 .. KB_BUFSZ + 1 /\ i + 1 \in 1 .. KB_BUFSZ + 1
      BY <1>0 DEF Slot
    <2>2. PICK b \in 1 .. KB_BUFSZ + 1 : b = i + 1
      BY <2>1
    <2>3. Place(p, b) = IF p + b - 1 < KB_BUFSZ THEN p + b - 1 ELSE p + b - 1 - KB_BUFSZ
      BY PlaceIs
    <2>4. PICK q \in Slot : q = Step(p)
      BY <1>1
    <2>5. Place(q, i) = IF q + i - 1 < KB_BUFSZ THEN q + i - 1 ELSE q + i - 1 - KB_BUFSZ
      BY <2>1, PlaceIs
    <2>6. q = IF p + 1 >= KB_BUFSZ THEN 0 ELSE p + 1
      BY <2>4 DEF Step
    <2>7. Place(q, i) = Place(p, b)
      BY <1>0, <2>1, <2>2, <2>3, <2>5, <2>6
    <2> QED
      BY <2>2, <2>4, <2>7
  <1> QED
    BY <1>0, <1>1, <1>2, <1>3, <1>4

(* The keys in the ring as a sequence.                                     *)
LEMMA TypedIs ==
  ASSUME RingOk
  PROVE  /\ Typed \in Seq(Keys) /\ Len(Typed) = kb_count
         /\ \A i \in 1 .. kb_count : Typed[i] = kb_buf[Place(pkbout, i)]
  <1>1. kb_count \in Nat /\ \A i \in 1 .. kb_count : kb_buf[Place(pkbout, i)] \in Keys
    BY PlaceIs DEF RingOk
  <1> QED
    BY <1>1 DEF Typed

(* kb_isr() puts a key behind the others; in a full ring it drops them all *)
(* and the key, pointers included.                                         *)
LEMMA InsertTypes ==
  ASSUME RingOk, NEW k \in Keys, Insert(k)
  PROVE  /\ RingOk'
         /\ Typed' = IF kb_count < KB_BUFSZ THEN Append(Typed, k) ELSE << >>
         /\ kb_count' = IF kb_count < KB_BUFSZ THEN kb_count + 1 ELSE 0
  <1>0. /\ KB_BUFSZ \in Nat \ {0} /\ kb_count \in 0 .. KB_BUFSZ /\ pkbout \in Slot
        /\ kb_buf \in [Slot -> Codes] /\ 0 \in Slot /\ k \in Codes
        /\ \A i \in 1 .. KB_BUFSZ + 1 : Place(pkbout, i) \in Slot
    BY PlaceIs, PlacesMove DEF RingOk, Codes
  <1>1. CASE kb_count < KB_BUFSZ
    <2> DEFINE n == kb_count
               in == Place(pkbout, n + 1)
    <2>1. /\ kb_buf' = [kb_buf EXCEPT ![in] = k] /\ kb_count' = n + 1
          /\ pkbin' = Step(in) /\ pkbout' = pkbout /\ in \in Slot
      BY <1>0, <1>1 DEF Insert, RingOk
    <2>2. n \in 0 .. KB_BUFSZ - 1
      BY <1>0, <1>1
    <2>3. Step(in) = Place(pkbout, n + 2) /\ \A i \in 1 .. n : Place(pkbout, i) # in
      BY <1>0, <2>2, PlacesMove
    <2>4. \A i \in 1 .. n : kb_buf'[Place(pkbout, i)] = kb_buf[Place(pkbout, i)]
      BY <1>0, <2>1, <2>2, <2>3
    <2>5. kb_buf'[in] = k /\ kb_buf' \in [Slot -> Codes]
      BY <1>0, <2>1
    <2>6. \A i \in 1 .. n + 1 :
            kb_buf'[Place(pkbout, i)] = IF i = n + 1 THEN k ELSE kb_buf[Place(pkbout, i)]
      <3> HIDE DEF in
      <3>1. \A i \in 1 .. n + 1 : i = n + 1 \/ i \in 1 .. n
        BY <2>2
      <3> QED
        BY <2>4, <2>5, <3>1 DEF in
    <2>7. RingOk'
      <3>1. \A i \in 1 .. n : kb_buf[Place(pkbout, i)] \in Keys
        BY DEF RingOk
      <3>2. \A i \in 1 .. kb_count' : kb_buf'[Place(pkbout', i)] \in Keys
        BY <2>1, <2>2, <2>6, <3>1
      <3>3. pkbin' = Place(pkbout', kb_count' + 1)
        <4>1. n + 2 = n + 1 + 1
          BY <2>2
        <4> QED
          BY <2>1, <2>3, <4>1
      <3>4. kb_count' \in 0 .. KB_BUFSZ
        BY <2>1, <2>2, <1>0
      <3> QED
        BY <1>0, <2>1, <2>5, <3>2, <3>3, <3>4 DEF RingOk
    <2>8. Typed' = Append(Typed, k)
      <3>1. /\ Typed \in Seq(Keys) /\ Len(Typed) = n
            /\ \A i \in 1 .. n : Typed[i] = kb_buf[Place(pkbout, i)]
        BY TypedIs
      <3>2. Append(Typed, k) = [i \in 1 .. n + 1 |-> IF i = n + 1 THEN k ELSE Typed[i]]
        BY <3>1, AppendIs
      <3>3. Typed' = [i \in 1 .. n + 1 |-> kb_buf'[Place(pkbout, i)]]
        BY <2>1 DEF Typed
      <3>4. \A i \in 1 .. n + 1 :
              kb_buf'[Place(pkbout, i)] = IF i = n + 1 THEN k ELSE Typed[i]
        <4>1. \A i \in 1 .. n + 1 : i = n + 1 \/ i \in 1 .. n
          BY <2>2
        <4> QED
          BY <2>6, <3>1, <4>1
      <3> HIDE DEF n
      <3> QED
        BY <3>2, <3>3, <3>4
    <2> QED
      BY <1>1, <2>1, <2>7, <2>8
  <1>2. CASE ~ (kb_count < KB_BUFSZ)
    <2>1. kb_count' = 0 /\ pkbin' = 0 /\ pkbout' = 0 /\ kb_buf' = kb_buf
      BY <1>2 DEF Insert
    <2>2. RingOk'
      <3>1. Place(0, 1) = 0
        BY <1>0, PlacesMove
      <3> QED
        BY <1>0, <2>1, <3>1 DEF RingOk
    <2>3. Typed' = << >>
      BY <2>1 DEF Typed
    <2> QED
      BY <1>2, <2>1, <2>2, <2>3
  <1> QED
    BY <1>1, <1>2

(* kb_readbuf() takes the oldest key.                                      *)
LEMMA ReadTakes ==
  ASSUME RingOk, ReadBuf
  PROVE  /\ RingOk' /\ kb_count' = kb_count - 1 /\ kb_count > 0
         /\ Typed # << >> /\ got' = Head(Typed) /\ Typed' = Tail(Typed)
         /\ got' \in Keys /\ got' = Typed[1]
  <1> DEFINE n == kb_count
  <1>0. /\ KB_BUFSZ \in Nat \ {0} /\ n \in 1 .. KB_BUFSZ /\ pkbout \in Slot
        /\ kb_buf \in [Slot -> Codes]
        /\ kb_count' = n - 1 /\ got' = kb_buf[pkbout] /\ pkbout' = Step(pkbout)
        /\ kb_buf' = kb_buf /\ pkbin' = pkbin /\ pkbin = Place(pkbout, n + 1)
        /\ \A i \in 1 .. n : kb_buf[Place(pkbout, i)] \in Keys
    BY PlaceIs DEF RingOk, ReadBuf
  <1>1. /\ Step(pkbout) \in Slot /\ Place(pkbout, 1) = pkbout
        /\ \A i \in 1 .. KB_BUFSZ : Place(Step(pkbout), i) = Place(pkbout, i + 1)
    BY <1>0, PlacesMove
  <1>2. /\ Typed \in Seq(Keys) /\ Len(Typed) = n
        /\ \A i \in 1 .. n : Typed[i] = kb_buf[Place(pkbout, i)]
    BY TypedIs
  <1>3. \A i \in 1 .. n - 1 : i + 1 \in 1 .. n /\ i \in 1 .. KB_BUFSZ
    BY <1>0
  <1>4. RingOk'
    <2>1. pkbin' = Place(pkbout', kb_count' + 1)
      <3>1. n - 1 + 1 = n /\ n \in 1 .. KB_BUFSZ
        BY <1>0
      <3>2. Place(Step(pkbout), n) = Place(pkbout, n + 1)
        BY <1>1, <3>1
      <3> QED
        BY <1>0, <3>1, <3>2
    <2>2. \A i \in 1 .. kb_count' : kb_buf'[Place(pkbout', i)] \in Keys
      <3> SUFFICES ASSUME NEW i \in 1 .. n - 1 PROVE kb_buf[Place(Step(pkbout), i)] \in Keys
        BY <1>0
      <3>1. Place(Step(pkbout), i) = Place(pkbout, i + 1) /\ i + 1 \in 1 .. n
        BY <1>1, <1>3
      <3> QED
        BY <1>0, <3>1
    <2>3. kb_count' \in 0 .. KB_BUFSZ
      BY <1>0
    <2> QED
      BY <1>0, <1>1, <2>1, <2>2, <2>3 DEF RingOk
  <1>5. Typed # << >> /\ got' = Typed[1] /\ got' \in Keys
    <2>1. 1 \in 1 .. n
      BY <1>0
    <2> QED
      BY <1>0, <1>1, <1>2, <2>1
  <1>6. Typed' = Tail(Typed)
    <2>1. Tail(Typed) = [i \in 1 .. n - 1 |-> Typed[i + 1]]
      BY <1>2, <1>5, TailIs
    <2>2. Typed' = [i \in 1 .. n - 1 |-> kb_buf[Place(Step(pkbout), i)]]
      BY <1>0 DEF Typed
    <2>3. \A i \in 1 .. n - 1 : kb_buf[Place(Step(pkbout), i)] = Typed[i + 1]
      <3> SUFFICES ASSUME NEW i \in 1 .. n - 1
                   PROVE  kb_buf[Place(Step(pkbout), i)] = Typed[i + 1]
        OBVIOUS
      <3>1. Place(Step(pkbout), i) = Place(pkbout, i + 1) /\ i + 1 \in 1 .. n
        BY <1>1, <1>3
      <3> QED
        BY <1>2, <3>1
    <2> HIDE DEF n
    <2> QED
      BY <2>1, <2>2, <2>3
  <1>7. Head(Typed) = Typed[1]
    BY <1>2, <1>5
  <1> QED
    BY <1>0, <1>4, <1>5, <1>6, <1>7

-----------------------------------------------------------------------------
(* Keys typed and read leave the keyboard's invariant, and are typed and   *)
(* read in the sense of Typeahead.                                         *)
LEMMA StepKeyInv ==
  ASSUME KeyInv, [Next]_vars
  PROVE  KeyInv' /\ [Keyb!Next]_<<Typed, got>>
  <1>0. /\ RingOk /\ asleep \in BOOLEAN /\ Reader # None
        /\ (kb_waiter = Reader) <=> asleep
    BY KeyboardAssumption DEF KeyInv, WaiterAsleep
  <1>1. ASSUME UNCHANGED ring PROVE RingOk' /\ Typed' = Typed
    BY <1>0, <1>1 DEF ring, RingOk, Typed
  <1>2. ASSUME ReadBuf PROVE RingOk' /\ Keyb!Next
    <2>1. RingOk' /\ Typed # << >> /\ got' = Head(Typed) /\ Typed' = Tail(Typed)
      BY <1>0, <1>2, ReadTakes
    <2> QED
      BY <2>1 DEF Keyb!Next, Keyb!Read, Typed, Place
  <1>3. ASSUME NEW k \in Keys, Isr(k)
        PROVE  KeyInv' /\ [Keyb!Next]_<<Typed, got>>
    <2>1. /\ RingOk' /\ Typed' = IF kb_count < KB_BUFSZ THEN Append(Typed, k) ELSE << >>
          /\ got' = got
      BY <1>0, <1>3, InsertTypes DEF Isr
    <2>2. Len(Typed) = kb_count
      BY <1>0, TypedIs
    <2>3. Keyb!Type(k)
      BY <2>1, <2>2 DEF Keyb!Type, Typed, Place
    <2>4. ~asleep' /\ kb_waiter' = None
      BY <1>0, <1>3 DEF Isr, WakeWaiter
    <2>5. asleep' \in BOOLEAN
      BY <1>3, Zenon DEF Isr, WakeWaiter
    <2> QED
      BY <1>0, <2>1, <2>3, <2>4, <2>5 DEF Keyb!Next, KeyInv, WaiterAsleep
  <1>4. CASE GetKey
    <2>1. ReadBuf /\ UNCHANGED <<kb_waiter, asleep>>
      BY <1>4 DEF GetKey
    <2> QED
      BY <1>0, <1>2, <2>1 DEF KeyInv, WaiterAsleep
  <1>5. CASE FindNone
    <2>1. UNCHANGED <<ring, kb_waiter, asleep, got>>
      BY <1>5 DEF FindNone
    <2> QED
      BY <1>0, <1>1, <2>1 DEF KeyInv, WaiterAsleep
  <1>6. CASE Sleep
    <2>1. UNCHANGED <<ring, got>> /\ kb_waiter' = Reader /\ asleep' = TRUE
      BY <1>6 DEF Sleep
    <2> QED
      BY <1>0, <1>1, <2>1 DEF KeyInv, WaiterAsleep
  <1>7. CASE GetKeyAgain
    <2>1. UNCHANGED <<kb_waiter, asleep>> /\ (ReadBuf \/ UNCHANGED <<ring, got>>)
      BY <1>7 DEF GetKeyAgain
    <2> QED
      BY <1>0, <1>1, <1>2, <2>1 DEF KeyInv, WaiterAsleep
  <1>8. CASE UNCHANGED vars
    <2>1. UNCHANGED <<ring, kb_waiter, asleep, got>>
      BY <1>8 DEF vars
    <2> QED
      BY <1>0, <1>1, <2>1 DEF KeyInv, WaiterAsleep
  <1> QED
    BY <1>3, <1>4, <1>5, <1>6, <1>7, <1>8 DEF Next, Console

(* start_kb(): the empty ring.                                             *)
LEMMA InitKeyInv == Init => KeyInv /\ Keyb!Init
  <1> SUFFICES ASSUME Init PROVE KeyInv /\ Keyb!Init
    OBVIOUS
  <1>1. KB_BUFSZ \in Nat \ {0} /\ 0 \in Slot /\ Place(0, 1) = 0
    <2>1. KB_BUFSZ \in Nat \ {0} /\ 0 \in Slot
      BY PlaceIs DEF Slot
    <2> QED
      BY <2>1, PlacesMove
  <1>2. RingOk
    BY <1>1 DEF Init, RingOk, Codes
  <1>3. asleep \in BOOLEAN /\ WaiterAsleep
    BY KeyboardAssumption DEF Init, WaiterAsleep
  <1>4. Typed = << >>
    BY DEF Init, Typed
  <1>5. got \notin Keys
    BY KeyboardAssumption DEF Init
  <1> QED
    BY <1>2, <1>3, <1>4, <1>5 DEF KeyInv, Keyb!Init, Typed, Place

(* The reader's ring keeps the keys it promises, and the pointers that     *)
(* find them, and kb_waiter stays with the thread that sleeps.             *)
THEOREM KeyInvariant == Spec => []KeyInv
  <1>1. Init => KeyInv
    BY InitKeyInv
  <1>2. KeyInv /\ [Next]_vars => KeyInv'
    BY StepKeyInv
  <1> QED
    BY <1>1, <1>2, PTL DEF Spec

(* kb_waiter names the console exactly while it sleeps: the next key wakes *)
(* it, and nobody wakes it twice (kb.c:216-240, 257-278).                  *)
THEOREM WaiterStaysAsleep == Spec => []WaiterAsleep
  <1>1. KeyInv => WaiterAsleep
    BY DEF KeyInv
  <1> QED
    BY <1>1, KeyInvariant, PTL

(* The ring of scan codes is a buffer of KB_BUFSZ keys that are read once  *)
(* each, in the order they were typed; one too many clears it.             *)
THEOREM KeyboardImplementsTypeahead == Spec => ImplementsTypeahead
  <1>1. Init => Keyb!Init
    BY InitKeyInv
  <1>2. KeyInv /\ [Next]_vars => [Keyb!Next]_<<Typed, got>>
    BY StepKeyInv
  <1> QED
    BY <1>1, <1>2, KeyInvariant, PTL DEF Spec, ImplementsTypeahead, Keyb!Spec, Typed, Place

(* The console's line editor drives the keyboard as Keyboard says.         *)
THEOREM ConsoleUsesKeyboard == CSpec => Spec
  <1>1. CInit => Init
    BY DEF CInit
  <1>2. [CNext]_cvars => [Next]_vars
    BY DEF CNext, cvars, Next, KbSpecial, CIsr, CGetKey, Edit, Overrun
  <1> QED
    BY <1>1, <1>2, PTL DEF CSpec, Spec

-----------------------------------------------------------------------------
Chars == Keys \X BOOLEAN

NoLines == [done |-> << >>, open |-> << >>]

(* What one character does to the lines so far.                            *)
Put(l, ch) ==
  CASE ch[1] = Enter /\ l.open = << >> -> l
    [] ch[1] = Enter /\ l.open # << >> ->
         [done |-> Append(l.done, l.open), open |-> << >>]
    [] ch[1] = Back -> [l EXCEPT !.open = SubSeq(@, 1, Len(@) - 1)]
    [] OTHER -> [l EXCEPT !.open = Append(@, ch)]

IsEdit(f, chars) ==
  f = [n \in 0 .. Len(chars) |-> IF n = 0 THEN NoLines ELSE Put(f[n - 1], chars[n])]

(* The recursion of Lines has a solution ...                               *)
LEMMA EditExists ==
  ASSUME NEW chars, Len(chars) \in Nat
  PROVE  \E f : IsEdit(f, chars)
  <1> DEFINE N == Len(chars)
             Step2(f, i) == IF i = 0 THEN NoLines ELSE Put(f[i - 1], chars[i])
             P == {n \in 0 .. N : \E f : f = [i \in 0 .. n |-> Step2(f, i)]}
  <1>0. N \in Nat
    OBVIOUS
  <1> HIDE DEF N
  <1>1. 0 \in P
    <2> DEFINE f == [i \in 0 .. 0 |-> NoLines]
    <2>1. f = [i \in 0 .. 0 |-> Step2(f, i)]
      OBVIOUS
    <2> HIDE DEF f, Step2
    <2> QED
      BY <1>0, <2>1
  <1>2. ASSUME NEW n \in 0 .. N, n < N, n \in P PROVE n + 1 \in P
    <2>1. PICK f : f = [i \in 0 .. n |-> Step2(f, i)]
      BY <1>2
    <2> DEFINE g == [i \in 0 .. n + 1 |-> IF i = n + 1 THEN Put(f[n], chars[n + 1]) ELSE f[i]]
    <2>2. ASSUME NEW i \in 0 .. n + 1
          PROVE  g[i] = Step2(g, i)
      <3>1. CASE i = n + 1
        <4>1. i # 0 /\ i - 1 = n /\ n \in 0 .. n + 1 /\ n # n + 1
          BY <3>1
        <4> QED
          BY <3>1, <4>1
      <3>2. CASE i # n + 1 /\ i = 0
        <4>1. i \in 0 .. n
          BY <3>2
        <4> QED
          BY <2>1, <3>2, <4>1
      <3>3. CASE i # n + 1 /\ i # 0
        <4>1. i \in 0 .. n /\ i - 1 \in 0 .. n + 1 /\ i - 1 # n + 1
          BY <3>3
        <4>2. f[i] = Put(f[i - 1], chars[i])
          BY <2>1, <3>3, <4>1
        <4> QED
          BY <3>3, <4>1, <4>2
      <3> QED
        BY <3>1, <3>2, <3>3
    <2>3. g = [i \in 0 .. n + 1 |-> g[i]]
      OBVIOUS
    <2> HIDE DEF g, Step2
    <2>4. g = [i \in 0 .. n + 1 |-> Step2(g, i)]
      BY <2>2, <2>3
    <2>5. n + 1 \in 0 .. N
      BY <1>0, <1>2
    <2> QED
      BY <2>4, <2>5
  <1>3. 0 .. N \subseteq P
    <2> HIDE DEF P
    <2> QED
      BY <1>0, <1>1, <1>2, UpTo
  <1>4. N \in P
    <2> HIDE DEF P
    <2> QED
      BY <1>0, <1>3
  <1> QED
    BY <1>4 DEF IsEdit, N

(* ... which Lines yields ...                                              *)
LEMMA LinesIs ==
  ASSUME NEW chars, Len(chars) \in Nat
  PROVE  \E f : /\ Lines(chars) = f[Len(chars)] /\ f[0] = NoLines
                /\ \A n \in 1 .. Len(chars) : f[n] = Put(f[n - 1], chars[n])
  <1> DEFINE L[n \in 0 .. Len(chars)] ==
               IF n = 0 THEN [done |-> << >>, open |-> << >>]
               ELSE LET l == L[n - 1]
                        ch == chars[n]
                    IN CASE ch[1] = Enter /\ l.open = << >> -> l
                         [] ch[1] = Enter /\ l.open # << >> ->
                              [done |-> Append(l.done, l.open), open |-> << >>]
                         [] ch[1] = Back -> [l EXCEPT !.open = SubSeq(@, 1, Len(@) - 1)]
                         [] OTHER -> [l EXCEPT !.open = Append(@, ch)]
  <1>1. Lines(chars) = L[Len(chars)]
    BY DEF Lines
  <1>2. \E f : IsEdit(f, chars)
    <2> HIDE DEF L
    <2> QED
      BY EditExists
  <1>3. IsEdit(L, chars)
    BY <1>2 DEF IsEdit, Put, NoLines
  <1> HIDE DEF L
  <1>4. L[0] = NoLines /\ \A n \in 1 .. Len(chars) : L[n] = Put(L[n - 1], chars[n])
    <2>1. /\ 0 \in 0 .. Len(chars)
          /\ \A n \in 1 .. Len(chars) : n \in 0 .. Len(chars) /\ n # 0
      OBVIOUS
    <2> QED
      BY <1>3, <2>1 DEF IsEdit
  <1> QED
    BY <1>1, <1>4

(* ... so that the lines of no characters are none, and one character more *)
(* is put to the lines of those before it.                                 *)
LEMMA LinesGrow ==
  ASSUME NEW S, NEW chars \in Seq(S), NEW ch \in S
  PROVE  Lines(Append(chars, ch)) = Put(Lines(chars), ch)
  <1> DEFINE more == Append(chars, ch)
             N == Len(chars)
  <1>0. /\ N \in Nat /\ Len(more) = N + 1 /\ more[N + 1] = ch
        /\ \A i \in 1 .. N : more[i] = chars[i]
    OBVIOUS
  <1> HIDE DEF more
  <1>1. PICK f : /\ Lines(chars) = f[N] /\ f[0] = NoLines
                 /\ \A n \in 1 .. N : f[n] = Put(f[n - 1], chars[n])
    BY <1>0, LinesIs
  <1>2. PICK g : /\ Lines(more) = g[Len(more)] /\ g[0] = NoLines
                 /\ \A n \in 1 .. Len(more) : g[n] = Put(g[n - 1], more[n])
    BY <1>0, LinesIs
  <1> HIDE DEF N
  <1> DEFINE P == {n \in 0 .. N : f[n] = g[n]}
  <1>3. 0 \in P
    BY <1>0, <1>1, <1>2
  <1>4. \A n \in 0 .. N : n < N /\ n \in P => n + 1 \in P
    <2> SUFFICES ASSUME NEW n \in 0 .. N, n < N, f[n] = g[n] PROVE f[n + 1] = g[n + 1]
      BY <1>0
    <2>1. PICK m \in 1 .. N : m = n + 1 /\ m - 1 = n /\ m \in 1 .. Len(more)
      BY <1>0
    <2>2. f[m] = Put(f[n], chars[m]) /\ g[m] = Put(g[n], more[m]) /\ chars[m] = more[m]
      BY <1>0, <1>1, <1>2, <2>1
    <2> QED
      BY <2>1, <2>2
  <1>5. 0 .. N \subseteq P
    <2> HIDE DEF P
    <2> QED
      BY <1>0, <1>3, <1>4, UpTo
  <1>6. f[N] = g[N]
    BY <1>0, <1>5
  <1>7. PICK m \in 1 .. Len(more) : m = N + 1 /\ m - 1 = N
    BY <1>0
  <1>8. g[m] = Put(g[N], ch)
    BY <1>0, <1>2, <1>7
  <1>9. Lines(more) = g[m]
    BY <1>0, <1>2, <1>7
  <1> QED
    BY <1>1, <1>6, <1>8, <1>9 DEF more

(* No key typed, no line.                                                  *)
LEMMA LinesEmpty == Lines(<< >>) = NoLines
  <1>1. Len(<< >>) = 0
    OBVIOUS
  <1>2. PICK f : Lines(<< >>) = f[Len(<< >>)] /\ f[0] = NoLines
    BY <1>1, LinesIs
  <1> QED
    BY <1>1, <1>2

-----------------------------------------------------------------------------
(* The characters typed fall into those the line editor has had, one it    *)
(* may have in hand, and those in the ring.                                *)
Waiting == kb_count + (IF code = None THEN 0 ELSE 1)
Seen == Len(meant) - Waiting
SeenChars == SubSeq(meant, 1, Seen)

(* Character ch is what key k means, unless a modifier has changed.        *)
Means(k, ch) == ch[1] = k /\ (stale \/ ch = Translate(k, shift, caps))

ModesInv == {shift, caps, stale, overrun} \subseteq BOOLEAN

PendingInv ==
  /\ code \in Codes /\ meant \in Seq(Chars) /\ Waiting <= Len(meant)
  /\ code # None => Means(code, meant[Seen + 1])
  /\ \A i \in 1 .. kb_count : Means(Typed[i], meant[Len(meant) - kb_count + i])

(* The line is no longer than the characters since the last Enter, and     *)
(* equal to what they amount to.                                           *)
LineInv ==
  /\ buf \in Seq(Chars) /\ Len(buf) <= Seen
  /\ Lines(SeenChars) \in [done : Seq(Seq(Chars)), open : Seq(Chars)]
  /\ \A j \in 1 .. Seen : j > Seen - Len(buf) => meant[j][1] # Enter
  /\ stale \/ (ran = Lines(SeenChars).done /\ buf = Lines(SeenChars).open)

(* Past the end of buf[] there is a full line and one more key in hand.    *)
FullInv == overrun => code # None /\ Len(buf) >= LineSize

EditInv == KeyInv /\ ModesInv /\ PendingInv /\ LineInv /\ FullInv

(* A beginning of a sequence, element by element.                          *)
LEMMA PrefixIs ==
  ASSUME NEW S, NEW s \in Seq(S), NEW n \in 0 .. Len(s)
  PROVE  /\ SubSeq(s, 1, n) = [i \in 1 .. n |-> s[i]]
         /\ SubSeq(s, 1, n) \in Seq(S) /\ Len(SubSeq(s, 1, n)) = n
  <1> DEFINE p == SubSeq(s, 1, n)
  <1>1. n \in Nat /\ \A i \in 1 .. n : s[i] \in S
    OBVIOUS
  <1>2. p \in Seq(S) /\ Len(p) = n
    BY <1>1, SubSeqProperties
  <1>3. \A i \in 1 .. n : p[i] = s[i]
    BY <1>1
  <1> HIDE DEF p
  <1>4. p = [i \in 1 .. n |-> p[i]]
    BY <1>2
  <1>5. p = [i \in 1 .. n |-> s[i]]
    BY <1>3, <1>4
  <1> QED
    BY <1>2, <1>5 DEF p

(* What is to come does not change what has been edited.                   *)
LEMMA KeepLine ==
  ASSUME PendingInv, LineInv, meant' \in Seq(Chars), Waiting' <= Len(meant'),
         Waiting' \in Nat, Waiting \in Nat,
         Seen' = Seen, \A j \in 1 .. Seen : meant'[j] = meant[j],
         UNCHANGED <<buf, ran>>, stale => stale'
  PROVE  LineInv'
  <1>1. meant \in Seq(Chars) /\ Seen \in 0 .. Len(meant) /\ Seen \in 0 .. Len(meant')
    BY DEF PendingInv, Seen
  <1>2. PICK n \in Nat : n = Seen
    BY <1>1
  <1>3. SubSeq(meant', 1, n) = SubSeq(meant, 1, n)
    <2>1. /\ SubSeq(meant, 1, n) = [i \in 1 .. n |-> meant[i]]
          /\ SubSeq(meant', 1, n) = [i \in 1 .. n |-> meant'[i]]
      BY <1>1, <1>2, PrefixIs
    <2> QED
      BY <1>2, <2>1
  <1>4. SeenChars' = SeenChars
    BY <1>2, <1>3 DEF SeenChars
  <1>5. /\ buf' \in Seq(Chars) /\ Len(buf') <= Seen'
        /\ \A j \in 1 .. Seen' : j > Seen' - Len(buf') => meant'[j][1] # Enter
        /\ Lines(SeenChars') \in [done : Seq(Seq(Chars)), open : Seq(Chars)]
    BY <1>4 DEF LineInv
  <1>6. stale' \/ (ran' = Lines(SeenChars').done /\ buf' = Lines(SeenChars').open)
    BY <1>4 DEF LineInv
  <1>8. Lines(SeenChars)' = Lines(SeenChars')
    BY DEF Lines
  <1> QED
    BY <1>5, <1>6, <1>8 DEF LineInv

(* What a character is, and the facts about lengths the steps below need.  *)
LEMMA CharFacts ==
  ASSUME EditInv
  PROVE  /\ kb_count \in 0 .. KB_BUFSZ /\ KB_BUFSZ \in Nat /\ Waiting \in Nat
         /\ Waiting = IF code = None THEN kb_count ELSE kb_count + 1
         /\ Len(meant) \in Nat /\ Seen \in 0 .. Len(meant)
         /\ Seen = Len(meant) - Waiting
         /\ Typed \in Seq(Keys) /\ Len(Typed) = kb_count
         /\ RingOk /\ meant \in Seq(Chars)
  <1>1. RingOk /\ kb_count \in 0 .. KB_BUFSZ /\ KB_BUFSZ \in Nat
    BY PlaceIs DEF EditInv, KeyInv, RingOk
  <1>2. meant \in Seq(Chars) /\ Len(meant) \in Nat /\ Waiting <= Len(meant)
    BY DEF EditInv, PendingInv
  <1> QED
    BY <1>1, <1>2, TypedIs DEF Waiting, Seen

(* translate() gives a key and a case, and the key is the one pressed.     *)
LEMMA TranslateIsChar ==
  ASSUME NEW k \in Keys, NEW s \in BOOLEAN, NEW l \in BOOLEAN
  PROVE  Translate(k, s, l) \in Chars /\ Translate(k, s, l)[1] = k
  <1>1. (s # l) \in BOOLEAN
    BY Zenon
  <1>2. CASE k \in Letter
    <2>1. Translate(k, s, l) = <<k, s # l>>
      BY <1>2 DEF Translate
    <2> HIDE DEF Translate
    <2>2. PICK b \in BOOLEAN : Translate(k, s, l) = <<k, b>>
      BY <1>1, <2>1, Zenon
    <2> QED
      BY <2>2 DEF Chars
  <1>3. CASE k \notin Letter
    BY <1>3 DEF Translate, Chars
  <1> QED
    BY <1>2, <1>3

(* A modifier goes down or up while keys wait or not.                      *)
LEMMA StepSpecial ==
  ASSUME EditInv, KbSpecial
  PROVE  ModesInv' /\ PendingInv' /\ LineInv'
  <1>0. /\ UNCHANGED <<kb_count, Typed, code, meant, buf, ran, overrun>>
        /\ stale' = (stale \/ kb_count > 0 \/ code # None)
    BY DEF KbSpecial, vars, ring, line, Typed
  <1>1. ModesInv'
    <2>1. stale' \in BOOLEAN
      BY Zenon, <1>0
    <2>2. shift' \in BOOLEAN /\ caps' \in BOOLEAN
      BY Zenon DEF EditInv, ModesInv, KbSpecial
    <2> QED
      BY <1>0, <2>1, <2>2 DEF EditInv, ModesInv
  <1>2. UNCHANGED <<Waiting, Seen>>
    BY <1>0 DEF Waiting, Seen
  <1>3. PendingInv'
    <2>1. code' # None => Means(code, meant[Seen + 1])'
      BY <1>0, <1>2 DEF EditInv, PendingInv, Means
    <2>2. ASSUME NEW i \in 1 .. kb_count'
          PROVE  Means(Typed[i], meant[Len(meant) - kb_count + i])'
      <3>1. i \in 1 .. kb_count /\ kb_count > 0
        BY <1>0, CharFacts
      <3>2. Means(Typed[i], meant[Len(meant) - kb_count + i])
        BY <3>1 DEF EditInv, PendingInv
      <3> QED
        BY <1>0, <3>1, <3>2 DEF Means
    <2> QED
      BY <1>0, <1>2, <2>1, <2>2 DEF EditInv, PendingInv
  <1>4. LineInv'
    BY <1>0, <1>2, KeepLine, CharFacts DEF EditInv, PendingInv
  <1> QED
    BY <1>1, <1>3, <1>4

(* A key is pressed: one more character waits, or those in the ring are    *)
(* lost with it.                                                           *)
LEMMA StepKey ==
  ASSUME EditInv, NEW k \in Keys, CIsr(k)
  PROVE  ModesInv' /\ PendingInv' /\ LineInv'
  <1> DEFINE ch == Translate(k, shift, caps)
  <1>0. /\ UNCHANGED <<shift, caps, code, buf, ran, overrun, stale>>
        /\ meant' = IF kb_count = KB_BUFSZ THEN SubSeq(meant, 1, Len(meant) - kb_count)
                    ELSE Append(meant, ch)
        /\ Insert(k)
    BY DEF CIsr, Isr, line
  <1>f. /\ kb_count \in 0 .. KB_BUFSZ /\ KB_BUFSZ \in Nat /\ Waiting \in Nat
        /\ Waiting = IF code = None THEN kb_count ELSE kb_count + 1
        /\ Len(meant) \in Nat /\ Seen \in 0 .. Len(meant)
        /\ Seen = Len(meant) - Waiting
        /\ Typed \in Seq(Keys) /\ Len(Typed) = kb_count
        /\ RingOk /\ meant \in Seq(Chars)
    BY CharFacts
  <1>g. kb_count <= Waiting /\ Waiting <= Len(meant) /\ Len(meant) - kb_count \in 0 .. Len(meant)
    BY <1>f
  <1>1. ModesInv'
    BY <1>0 DEF EditInv, ModesInv
  <1>2. ch \in Chars /\ ch[1] = k
    BY TranslateIsChar DEF EditInv, ModesInv
  <1>3. /\ Typed' = IF kb_count < KB_BUFSZ THEN Append(Typed, k) ELSE << >>
        /\ kb_count' = IF kb_count < KB_BUFSZ THEN kb_count + 1 ELSE 0
    BY <1>0, <1>f, InsertTypes
  <1> HIDE DEF ch
  <1>4. CASE kb_count < KB_BUFSZ
    <2>1. meant' = Append(meant, ch) /\ kb_count' = kb_count + 1 /\ Typed' = Append(Typed, k)
      BY <1>0, <1>3, <1>4, <1>f
    <2>2. /\ meant' \in Seq(Chars) /\ Len(meant') = Len(meant) + 1
          /\ meant'[Len(meant) + 1] = ch
          /\ \A j \in 1 .. Len(meant) : meant'[j] = meant[j]
      BY <1>2, <1>f, <2>1
    <2>3. Waiting' = Waiting + 1 /\ Seen' = Seen
      BY <1>0, <1>f, <2>1, <2>2 DEF Waiting, Seen
    <2>4. /\ Typed'[kb_count + 1] = k
          /\ \A i \in 1 .. kb_count : Typed'[i] = Typed[i]
      BY <1>f, <2>1
    <2>5. code' # None => Means(code, meant[Seen + 1])'
      <3> SUFFICES ASSUME code # None PROVE Means(code, meant[Seen + 1])'
        BY <1>0
      <3>1. Seen + 1 \in 1 .. Len(meant)
        BY <1>f
      <3>2. meant'[Seen + 1] = meant[Seen + 1]
        BY <2>2, <3>1
      <3> QED
        BY <1>0, <2>3, <3>2 DEF EditInv, PendingInv, Means
    <2>6. ASSUME NEW i \in 1 .. kb_count'
          PROVE  Means(Typed[i], meant[Len(meant) - kb_count + i])'
      <3>1. CASE i = kb_count + 1
        <4>1. Len(meant') - kb_count' + i = Len(meant) + 1
          BY <1>f, <2>1, <2>2, <3>1
        <4>2. Typed'[i] = k /\ meant'[Len(meant') - kb_count' + i] = ch
          BY <2>2, <2>4, <3>1, <4>1
        <4> QED
          BY <1>0, <1>2, <4>2 DEF Means, ch
      <3>2. CASE i # kb_count + 1
        <4>1. i \in 1 .. kb_count
          BY <1>f, <2>1, <3>2
        <4>2. PICK j \in 1 .. Len(meant) : j = Len(meant) - kb_count + i
          <5>1. Len(meant) - kb_count + i \in 1 .. Len(meant)
            BY <1>f, <1>g, <4>1
          <5> QED
            BY <5>1
        <4>3. j = Len(meant') - kb_count' + i
          BY <1>f, <2>1, <2>2, <4>1, <4>2
        <4>4. Means(Typed[i], meant[j])
          BY <4>1, <4>2 DEF EditInv, PendingInv
        <4>5. Typed'[i] = Typed[i] /\ meant'[j] = meant[j]
          BY <2>2, <2>4, <4>1
        <4> QED
          BY <1>0, <4>3, <4>4, <4>5 DEF Means
      <3> QED
        BY <3>1, <3>2
    <2>7. Waiting' <= Len(meant')
      BY <1>f, <2>2, <2>3
    <2>8. PendingInv'
      BY <1>0, <2>2, <2>5, <2>6, <2>7 DEF EditInv, PendingInv
    <2>9. LineInv'
      <3>1. Waiting' \in Nat /\ \A j \in 1 .. Seen : meant'[j] = meant[j]
        BY SMTT(60), <1>f, <2>2, <2>3
      <3> QED
        BY <1>0, <1>f, <2>2, <2>3, <2>7, <3>1, KeepLine DEF EditInv
    <2> QED
      BY <1>1, <2>8, <2>9
  <1>5. CASE ~ (kb_count < KB_BUFSZ)
    <2>1. /\ kb_count = KB_BUFSZ /\ kb_count' = 0 /\ Typed' = << >>
          /\ meant' = SubSeq(meant, 1, Len(meant) - kb_count)
      BY <1>0, <1>3, <1>5, <1>f
    <2>2. PICK n \in 0 .. Len(meant) : n = Len(meant) - kb_count /\ Seen <= n
      <3>1. Seen <= Len(meant) - kb_count
        BY <1>f
      <3> QED
        BY <1>g, <3>1
    <2>3. /\ meant' \in Seq(Chars) /\ Len(meant') = n
          /\ \A j \in 1 .. n : meant'[j] = meant[j]
      <3>1. /\ SubSeq(meant, 1, n) = [i \in 1 .. n |-> meant[i]]
            /\ SubSeq(meant, 1, n) \in Seq(Chars) /\ Len(SubSeq(meant, 1, n)) = n
        BY <1>f, PrefixIs
      <3> QED
        BY <2>1, <2>2, <3>1
    <2>4. Waiting' = Waiting - kb_count /\ Seen' = Seen /\ Waiting' \in Nat
      BY <1>0, <1>f, <2>1, <2>2, <2>3 DEF Waiting, Seen
    <2>5. code' # None => Means(code, meant[Seen + 1])'
      <3> SUFFICES ASSUME code # None PROVE Means(code, meant[Seen + 1])'
        BY <1>0
      <3>1. Seen + 1 \in 1 .. n
        BY <1>f, <2>2
      <3>2. meant'[Seen + 1] = meant[Seen + 1]
        BY <2>3, <3>1
      <3> QED
        BY <1>0, <2>4, <3>2 DEF EditInv, PendingInv, Means
    <2>6. 1 .. kb_count' = {}
      BY <2>1
    <2>7. Waiting' <= Len(meant')
      BY <1>f, <2>2, <2>3, <2>4
    <2>8. PendingInv'
      BY <1>0, <2>3, <2>5, <2>6, <2>7 DEF EditInv, PendingInv
    <2>9. LineInv'
      <3>1. \A j \in 1 .. Seen : meant'[j] = meant[j]
        BY <1>f, <2>2, <2>3
      <3> QED
        BY <1>0, <1>f, <2>3, <2>4, <2>7, <3>1, KeepLine DEF EditInv
    <2> QED
      BY <1>1, <2>8, <2>9
  <1> QED
    BY <1>4, <1>5

(* A key is taken from the ring into the console's hand, or none is.       *)
LEMMA StepGet ==
  ASSUME EditInv, CGetKey
  PROVE  ModesInv' /\ PendingInv' /\ LineInv'
  <1>0. /\ code = None /\ Console /\ UNCHANGED <<shift, caps, buf, overrun, ran, meant, stale>>
        /\ code' = IF kb_count' < kb_count THEN got' ELSE None
    BY DEF CGetKey
  <1>f. /\ kb_count \in 0 .. KB_BUFSZ /\ KB_BUFSZ \in Nat /\ Waiting \in Nat
        /\ Waiting = kb_count /\ Len(meant) \in Nat /\ Seen \in 0 .. Len(meant)
        /\ Seen = Len(meant) - Waiting
        /\ Typed \in Seq(Keys) /\ Len(Typed) = kb_count
        /\ RingOk /\ meant \in Seq(Chars)
    BY <1>0, CharFacts
  <1>1. ModesInv'
    BY <1>0 DEF EditInv, ModesInv
  <1>2. ReadBuf \/ UNCHANGED ring
    BY <1>0 DEF Console, GetKey, FindNone, Sleep, GetKeyAgain
  <1>3. ASSUME Waiting' = Waiting PROVE LineInv'
    <2>1. Seen' = Seen /\ Waiting' <= Len(meant') /\ Waiting' \in Nat
      BY <1>0, <1>3, <1>f DEF Seen
    <2> QED
      BY <1>0, <1>f, <2>1, KeepLine DEF EditInv
  <1>4. CASE ReadBuf
    <2>1. /\ kb_count' = kb_count - 1 /\ kb_count > 0
          /\ Typed # << >> /\ Typed' = Tail(Typed) /\ got' \in Keys /\ got' = Typed[1]
      BY <1>4, <1>f, ReadTakes
    <2>2. code' = got' /\ code' # None /\ code' \in Keys
      BY <1>0, <1>f, <2>1, KeyboardAssumption
    <2>3. Waiting' = Waiting /\ Seen' = Seen
      BY <1>0, <1>f, <2>1, <2>2 DEF Waiting, Seen
    <2>4. /\ Len(meant) - kb_count = Seen /\ 1 \in 1 .. kb_count
          /\ \A i \in 1 .. kb_count : Means(Typed[i], meant[Seen + i])
      BY <1>f, <2>1 DEF EditInv, PendingInv
    <2>5. Means(code, meant[Seen + 1])'
      <3>1. Means(Typed[1], meant[Seen + 1])
        BY <2>4
      <3> QED
        BY <1>0, <2>1, <2>2, <2>3, <3>1 DEF Means
    <2>6. ASSUME NEW i \in 1 .. kb_count'
          PROVE  Means(Typed[i], meant[Len(meant) - kb_count + i])'
      <3>1. /\ i + 1 \in 1 .. kb_count /\ i \in 1 .. kb_count - 1
            /\ Len(meant) - kb_count' + i = Seen + (i + 1)
        BY <1>f, <2>1
      <3>2. Typed'[i] = Typed[i + 1]
        BY <1>f, <2>1, <3>1
      <3>3. Means(Typed[i + 1], meant[Seen + (i + 1)])
        BY <2>4, <3>1
      <3> QED
        BY <1>0, <3>1, <3>2, <3>3 DEF Means
    <2>7. PendingInv'
      BY <1>0, <2>2, <2>3, <2>5, <2>6 DEF EditInv, PendingInv, Codes
    <2> QED
      BY <1>1, <1>3, <2>3, <2>7
  <1>5. CASE UNCHANGED ring
    <2>1. kb_count' = kb_count /\ Typed' = Typed
      BY <1>5 DEF ring, Typed
    <2>2. code' = None
      BY <1>0, <1>f, <2>1
    <2>3. Waiting' = Waiting
      BY <1>0, <2>1, <2>2 DEF Waiting
    <2>4. PendingInv'
      BY <1>0, <2>1, <2>2, <2>3 DEF EditInv, PendingInv, Means
    <2> QED
      BY <1>1, <1>3, <2>3, <2>4
  <1> QED
    BY <1>2, <1>4, <1>5

(* What a character does to the lines leaves lines.                        *)
LEMMA PutTypes ==
  ASSUME NEW l \in [done : Seq(Seq(Chars)), open : Seq(Chars)], NEW ch \in Chars
  PROVE  Put(l, ch) \in [done : Seq(Seq(Chars)), open : Seq(Chars)]
  <1>1. l.done \in Seq(Seq(Chars)) /\ l.open \in Seq(Chars) /\ Len(l.open) \in Nat
    OBVIOUS
  <1>2. SubSeq(l.open, 1, Len(l.open) - 1) \in Seq(Chars)
    <2>1. \A i \in 1 .. Len(l.open) - 1 : l.open[i] \in Chars
      BY <1>1
    <2> QED
      BY <1>1, <2>1, SubSeqProperties
  <1>3. Append(l.done, l.open) \in Seq(Seq(Chars)) /\ Append(l.open, ch) \in Seq(Chars)
    BY <1>1
  <1>4. [done |-> Append(l.done, l.open), open |-> << >>]
          \in [done : Seq(Seq(Chars)), open : Seq(Chars)]
    BY <1>1, <1>3
  <1>5. [l EXCEPT !.open = SubSeq(@, 1, Len(@) - 1)]
          \in [done : Seq(Seq(Chars)), open : Seq(Chars)]
    BY <1>1, <1>2
  <1>6. [l EXCEPT !.open = Append(@, ch)] \in [done : Seq(Seq(Chars)), open : Seq(Chars)]
    BY <1>1, <1>3
  <1> QED
    BY <1>4, <1>5, <1>6 DEF Put

(* A line without its last character.                                      *)
LEMMA EraseIs ==
  ASSUME NEW S, NEW s \in Seq(S)
  PROVE  /\ SubSeq(s, 1, Len(s) - 1) \in Seq(S)
         /\ s = << >> => SubSeq(s, 1, Len(s) - 1) = << >>
         /\ s # << >> => Len(SubSeq(s, 1, Len(s) - 1)) = Len(s) - 1
  <1>1. Len(s) \in Nat /\ \A i \in 1 .. Len(s) - 1 : s[i] \in S
    OBVIOUS
  <1>2. CASE s = << >>
    <2>1. Len(s) - 1 < 1 /\ Len(s) - 1 \in Int
      BY <1>2
    <2> QED
      BY <1>2, <2>1, SubSeqEmpty
  <1>3. CASE s # << >>
    <2>1. Len(s) - 1 \in Nat
      BY <1>1, <1>3
    <2>2. PICK n \in Nat : n = Len(s) - 1
      BY <2>1
    <2>3. SubSeq(s, 1, n) \in Seq(S) /\ Len(SubSeq(s, 1, n)) = IF 1 <= n THEN n - 1 + 1 ELSE 0
      BY <1>1, <2>2, SubSeqProperties
    <2> QED
      BY <1>3, <2>2, <2>3
  <1> QED
    BY <1>2, <1>3

(* The character in hand is edited into the line.                          *)
LEMMA StepEdit ==
  ASSUME EditInv, Edit
  PROVE  ModesInv' /\ PendingInv' /\ LineInv'
  <1> DEFINE ch == Translate(code, shift, caps)
             next == meant[Seen + 1]
  <1>0. /\ code # None /\ code' = None
        /\ UNCHANGED <<kb_count, Typed, shift, caps, meant, stale, overrun>>
        /\ EnterLine(ch) \/ EraseChar(ch) \/ AddChar(ch)
    BY DEF Edit, vars, ring, Typed
  <1>f. /\ kb_count \in 0 .. KB_BUFSZ /\ KB_BUFSZ \in Nat /\ Waiting \in Nat
        /\ Waiting = kb_count + 1 /\ Len(meant) \in Nat /\ Seen \in 0 .. Len(meant)
        /\ Seen = Len(meant) - Waiting /\ meant \in Seq(Chars)
    BY <1>0, CharFacts
  <1>1. ModesInv'
    BY <1>0 DEF EditInv, ModesInv
  <1>2. /\ code \in Keys /\ ch \in Chars /\ ch[1] = code
        /\ next[1] = code /\ (stale \/ ch = next)
    <2>1. code \in Keys
      BY <1>0 DEF EditInv, PendingInv, Codes
    <2>2. Means(code, next)
      BY <1>0 DEF EditInv, PendingInv
    <2> QED
      BY <2>1, <2>2, TranslateIsChar DEF Means, EditInv, ModesInv
  <1> HIDE DEF ch
  <1>3. PICK n \in Nat : n = Seen /\ n + 1 \in 1 .. Len(meant)
    BY <1>f
  <1>4. Waiting' = kb_count /\ Seen' = n + 1
    BY <1>0, <1>f, <1>3 DEF Waiting, Seen
  <1>5. PendingInv'
    <2>1. Waiting' <= Len(meant')
      BY <1>0, <1>f, <1>4
    <2> QED
      BY <1>0, <2>1 DEF EditInv, PendingInv, Codes, Means
  <1>6. SeenChars' = Append(SeenChars, next)
    <2>1. /\ SubSeq(meant, 1, n) = [i \in 1 .. n |-> meant[i]]
          /\ SubSeq(meant, 1, n) \in Seq(Chars) /\ Len(SubSeq(meant, 1, n)) = n
      BY <1>f, <1>3, PrefixIs
    <2>2. SubSeq(meant, 1, n + 1) = [i \in 1 .. n + 1 |-> meant[i]]
      BY <1>f, <1>3, PrefixIs
    <2>3. Append(SubSeq(meant, 1, n), next)
            = [i \in 1 .. n + 1 |-> IF i = n + 1 THEN next ELSE SubSeq(meant, 1, n)[i]]
      BY <2>1, AppendIs
    <2>4. \A i \in 1 .. n + 1 :
            meant[i] = IF i = n + 1 THEN next ELSE SubSeq(meant, 1, n)[i]
      <3> SUFFICES ASSUME NEW i \in 1 .. n + 1
                   PROVE  meant[i] = IF i = n + 1 THEN next ELSE SubSeq(meant, 1, n)[i]
        OBVIOUS
      <3>1. CASE i = n + 1
        BY <1>3, <3>1
      <3>2. CASE i # n + 1
        <4>1. i \in 1 .. n
          BY <3>2
        <4> QED
          BY <2>1, <3>2, <4>1
      <3> QED
        BY <3>1, <3>2
    <2> HIDE DEF next
    <2>5. SubSeq(meant, 1, n + 1) = Append(SubSeq(meant, 1, n), next)
      BY <2>2, <2>3, <2>4
    <2> QED
      BY <1>0, <1>3, <1>4, <2>5 DEF SeenChars
  <1>7. next \in Chars
    BY <1>f, <1>3
  <1> HIDE DEF next
  <1> DEFINE l == Lines(SeenChars)
  <1>8. /\ l \in [done : Seq(Seq(Chars)), open : Seq(Chars)]
        /\ Lines(SeenChars') = Put(l, next)
    <2>1. SeenChars \in Seq(Chars)
      BY <1>f, <1>3, PrefixIs DEF SeenChars
    <2>2. l \in [done : Seq(Seq(Chars)), open : Seq(Chars)]
      BY DEF EditInv, LineInv
    <2> HIDE DEF l
    <2> QED
      BY <1>6, <1>7, <2>1, <2>2, LinesGrow DEF l
  <1>l. /\ buf \in Seq(Chars) /\ Len(buf) \in Nat /\ Len(buf) <= n
        /\ \A j \in 1 .. n : j > n - Len(buf) => meant[j][1] # Enter
        /\ stale \/ (ran = l.done /\ buf = l.open)
    BY <1>3 DEF EditInv, LineInv
  <1> HIDE DEF l
  <1>9. /\ buf' \in Seq(Chars) /\ Len(buf') <= n + 1
        /\ \A j \in 1 .. n + 1 : j > n + 1 - Len(buf') => meant[j][1] # Enter
    <2>1. CASE EnterLine(ch)
      BY <2>1, <1>l DEF EnterLine
    <2>2. CASE EraseChar(ch)
      <3>1. /\ buf' \in Seq(Chars)
            /\ buf = << >> => Len(buf') = 0
            /\ buf # << >> => Len(buf') = Len(buf) - 1
        BY <1>l, <2>2, EraseIs DEF EraseChar
      <3>2. meant[n + 1][1] # Enter
        BY <1>2, <1>3, <2>2, ConsoleAssumption DEF EraseChar, next
      <3>3. Len(buf) = 0 <=> buf = << >>
        BY <1>l
      <3>4. Len(buf') \in Nat /\ Len(buf') <= Len(buf)
        BY <1>l, <3>1, <3>3
      <3>5. ASSUME NEW j \in 1 .. n + 1, j > n + 1 - Len(buf') PROVE meant[j][1] # Enter
        <4>1. CASE j = n + 1
          BY <3>2, <4>1
        <4>2. CASE j # n + 1
          <5>1. j \in 1 .. n /\ j > n - Len(buf)
            BY <1>l, <3>4, <3>5, <4>2
          <5> QED
            BY <1>l, <5>1
        <4> QED
          BY <4>1, <4>2
      <3> QED
        BY <1>l, <3>1, <3>4, <3>5
    <2>3. CASE AddChar(ch)
      <3>1. buf' \in Seq(Chars) /\ Len(buf') = Len(buf) + 1
        BY <1>2, <1>l, <2>3 DEF AddChar
      <3>2. meant[n + 1][1] # Enter
        BY <1>2, <1>3, <2>3, ConsoleAssumption DEF AddChar, next
      <3>3. ASSUME NEW j \in 1 .. n + 1, j > n + 1 - Len(buf') PROVE meant[j][1] # Enter
        <4>1. CASE j = n + 1
          BY <3>2, <4>1
        <4>2. CASE j # n + 1
          <5>1. j \in 1 .. n /\ j > n - Len(buf)
            BY <1>l, <3>1, <3>3, <4>2
          <5> QED
            BY <1>l, <5>1
        <4> QED
          BY <4>1, <4>2
      <3> QED
        BY <1>l, <3>1, <3>3
    <2> QED
      BY <1>0, <2>1, <2>2, <2>3
  <1>10. stale \/ (ran' = Put(l, next).done /\ buf' = Put(l, next).open)
    <2> SUFFICES ASSUME ~stale PROVE ran' = Put(l, next).done /\ buf' = Put(l, next).open
      OBVIOUS
    <2>1. ch = next /\ ran = l.done /\ buf = l.open
      BY <1>2, <1>l
    <2>2. CASE EnterLine(ch)
      <3>1. ch[1] = Enter /\ buf' = << >> /\ ran' = IF buf = << >> THEN ran ELSE Append(ran, buf)
        BY <2>2 DEF EnterLine
      <3>2. CASE l.open = << >>
        <4>1. Put(l, ch) = l
          BY <3>1, <3>2, ConsoleAssumption DEF Put
        <4> QED
          BY <2>1, <3>1, <3>2, <4>1
      <3>3. CASE l.open # << >>
        <4>1. Put(l, ch) = [done |-> Append(l.done, l.open), open |-> << >>]
          BY <3>1, <3>3, ConsoleAssumption DEF Put
        <4> QED
          BY <2>1, <3>1, <3>3, <4>1
      <3> QED
        BY <3>2, <3>3
    <2>3. CASE EraseChar(ch)
      <3>1. /\ ch[1] = Back /\ ch[1] # Enter /\ ran' = ran
            /\ buf' = IF buf = << >> THEN buf ELSE SubSeq(buf, 1, Len(buf) - 1)
        BY <2>3, ConsoleAssumption DEF EraseChar
      <3>2. buf' = SubSeq(buf, 1, Len(buf) - 1)
        BY <1>l, <3>1, EraseIs
      <3>3. Put(l, ch) = [l EXCEPT !.open = SubSeq(@, 1, Len(@) - 1)]
        BY <3>1 DEF Put
      <3> QED
        BY <1>8, <2>1, <3>1, <3>2, <3>3
    <2>4. CASE AddChar(ch)
      <3>1. /\ ch[1] # Back /\ ch[1] # Enter /\ ran' = ran /\ buf' = Append(buf, ch)
        BY <2>4, ConsoleAssumption DEF AddChar
      <3>2. Put(l, ch) = [l EXCEPT !.open = Append(@, ch)]
        BY <3>1 DEF Put
      <3> QED
        BY <1>8, <2>1, <3>1, <3>2
    <2> QED
      BY <1>0, <2>2, <2>3, <2>4
  <1>12. Lines(SeenChars') \in [done : Seq(Seq(Chars)), open : Seq(Chars)]
    BY <1>7, <1>8, PutTypes
  <1>13. LineInv'
    <2>1. Lines(SeenChars)' = Lines(SeenChars')
      BY DEF Lines
    <2>2. stale' \/ (ran' = Lines(SeenChars').done /\ buf' = Lines(SeenChars').open)
      BY <1>0, <1>8, <1>10
    <2> QED
      BY <1>0, <1>4, <1>9, <1>12, <2>1, <2>2 DEF LineInv
  <1> QED
    BY <1>1, <1>5, <1>13

(* Keys typed, read and edited leave the console's invariant.              *)
LEMMA StepEditInv ==
  ASSUME EditInv, [CNext]_cvars
  PROVE  EditInv'
  <1>1. KeyInv'
    <2>1. [Next]_vars
      BY DEF CNext, cvars, Next, KbSpecial, CIsr, CGetKey, Edit, Overrun
    <2> QED
      BY <2>1, StepKeyInv DEF EditInv
  <1>2. CASE UNCHANGED cvars
    <2>1. /\ UNCHANGED <<kb_count, Typed, code, meant, shift, caps, stale, overrun, buf, ran>>
      BY <1>2 DEF cvars, vars, ring, Typed
    <2>2. UNCHANGED <<Waiting, Seen>>
      BY <2>1 DEF Waiting, Seen
    <2>3. ModesInv' /\ PendingInv'
      BY <2>1, <2>2 DEF EditInv, ModesInv, PendingInv, Means
    <2>4. LineInv'
      BY <2>1, <2>2, CharFacts, KeepLine DEF EditInv, PendingInv
    <2>5. FullInv'
      BY <2>1 DEF EditInv, FullInv
    <2> QED
      BY <1>1, <2>3, <2>4, <2>5 DEF EditInv
  <1>3. CASE ~overrun /\ (KbSpecial \/ (\E k \in Keys : CIsr(k)) \/ CGetKey \/ Edit)
    <2>1. ModesInv' /\ PendingInv' /\ LineInv'
      BY <1>3, StepSpecial, StepKey, StepGet, StepEdit
    <2>2. ~overrun'
      BY <1>3 DEF KbSpecial, CIsr, CGetKey, Edit, line
    <2> QED
      BY <1>1, <2>1, <2>2 DEF EditInv, FullInv
  <1>4. CASE Overrun
    <2>1. /\ UNCHANGED <<kb_count, Typed, code, meant, shift, caps, stale, buf, ran>>
          /\ overrun' = TRUE /\ code # None /\ Len(buf) >= LineSize
      BY <1>4 DEF Overrun, vars, ring, Typed
    <2>2. UNCHANGED <<Waiting, Seen>>
      BY <2>1 DEF Waiting, Seen
    <2>3. ModesInv' /\ PendingInv' /\ FullInv'
      BY <2>1, <2>2 DEF EditInv, ModesInv, PendingInv, Means, FullInv
    <2>4. LineInv'
      BY <2>1, <2>2, CharFacts, KeepLine DEF EditInv, PendingInv
    <2> QED
      BY <1>1, <2>3, <2>4 DEF EditInv
  <1> QED
    BY <1>2, <1>3, <1>4 DEF CNext

(* The console before the first key.                                       *)
LEMMA InitEditInv == CInit => EditInv
  <1> SUFFICES ASSUME CInit PROVE EditInv
    OBVIOUS
  <1>1. KeyInv /\ kb_count = 0
    BY InitKeyInv DEF CInit, Init
  <1>2. ModesInv /\ code = None /\ meant = << >> /\ buf = << >> /\ ran = << >> /\ ~overrun
    BY DEF CInit, ModesInv
  <1>3. Waiting = 0 /\ Seen = 0
    BY <1>1, <1>2 DEF Waiting, Seen
  <1>4. PendingInv
    BY <1>1, <1>2, <1>3 DEF PendingInv, Codes
  <1>5. SeenChars = << >>
    BY <1>2, <1>3, SubSeqEmpty DEF SeenChars
  <1>6. Lines(SeenChars) = NoLines
    BY <1>5, LinesEmpty
  <1>7. LineInv
    BY <1>2, <1>3, <1>6 DEF LineInv, NoLines
  <1> QED
    BY <1>1, <1>2, <1>4, <1>7 DEF EditInv, FullInv

(* The console's inductive invariant: the characters typed fall into those *)
(* edited, one in hand and those in the ring, each of them still to be     *)
(* translated the way it was meant unless a modifier has changed.          *)
THEOREM EditInvariant == CSpec => []EditInv
  <1>1. CInit => EditInv
    BY InitEditInv
  <1>2. EditInv /\ [CNext]_cvars => EditInv'
    BY StepEditInv
  <1> QED
    BY <1>1, <1>2, PTL DEF CSpec

(* What syscon() executes is what was typed, with the modifiers as they    *)
(* stood, and its line outgrows buf[] only after more than LineSize        *)
(* characters without an end of the line (syscon.c, kb.c).                 *)
THEOREM CommandsStayAsTyped == CSpec => []CommandsAsTyped
  <1>1. EditInv => CommandsAsTyped
    <2> SUFFICES ASSUME EditInv PROVE CommandsAsTyped
      OBVIOUS
    <2>1. Seen \in 0 .. Len(meant) /\ Len(meant) \in Nat
      BY CharFacts
    <2>2. stale \/ (ran = Lines(SeenChars).done /\ buf = Lines(SeenChars).open)
      BY DEF EditInv, LineInv
    <2>3. overrun => \E i \in 1 .. Len(meant) :
                       /\ i + LineSize <= Len(meant)
                       /\ \A j \in i .. i + LineSize - 1 : meant[j][1] # Enter
      <3> SUFFICES ASSUME overrun
                   PROVE  \E i \in 1 .. Len(meant) :
                            /\ i + LineSize <= Len(meant)
                            /\ \A j \in i .. i + LineSize - 1 : meant[j][1] # Enter
        OBVIOUS
      <3>1. code # None /\ Len(buf) \in Nat /\ Len(buf) >= LineSize /\ Len(buf) <= Seen
        BY DEF EditInv, LineInv, FullInv
      <3>2. LineSize \in Nat \ {0} /\ Seen + 1 <= Len(meant)
        BY <2>1, <3>1, CharFacts, ConsoleAssumption
      <3>3. PICK i \in 1 .. Len(meant) : i = Seen + 1 - LineSize
        BY <2>1, <3>1, <3>2
      <3>4. \A j \in i .. i + LineSize - 1 : j \in 1 .. Seen /\ j > Seen - Len(buf)
        BY <2>1, <3>1, <3>2, <3>3
      <3>5. \A j \in i .. i + LineSize - 1 : meant[j][1] # Enter
        BY <3>4 DEF EditInv, LineInv
      <3>6. i + LineSize <= Len(meant)
        BY <2>1, <3>1, <3>2, <3>3
      <3> QED
        BY ONLY <3>5, <3>6, i \in 1 .. Len(meant)
    <2> QED
      BY <2>2, <2>3 DEF CommandsAsTyped, SeenChars, Seen, Waiting
  <1> QED
    BY <1>1, EditInvariant, PTL

-----------------------------------------------------------------------------
(* Part two, module Life: the rings of threads stay rings under commands   *)
(* that fit their threads.                                                 *)

(* A ring without a head: the links are inverse to each other within S,    *)
(* and no smaller set than S is closed under them.  That says, without a   *)
(* walk, that a walk from anywhere comes through all of S.                 *)
IsCycle(nx, pv, S) ==
  /\ \A t \in S : nx[t] \in S /\ pv[t] \in S /\ pv[nx[t]] = t /\ nx[pv[t]] = t
  /\ \A M \in SUBSET S : M # {} /\ (\A t \in M : nx[t] \in M) => M = S

Linked == [Tcbs -> Tcbs \cup {Null}]

OnRings == {t \in Tcbs : Listed(t)}
OnReady == {t \in OnRings : st[t] = "READY"}

Up == {t \in Tcbs : st[t] = "READY"}

LinksTyped == all \in Linked /\ back \in Linked /\ ready \in Linked /\ rback \in Linked
RingsClosed == IsCycle(all, back, OnRings) /\ IsCycle(ready, rback, OnReady)

(* A thread tready_del took off its rings is up, though on no ring; the    *)
(* head is on both.                                                        *)
LifeKept ==
  /\ LinksTyped /\ RingsClosed
  /\ st \in [Tcbs -> {"READY", "WAITING", "FREE"}]
  /\ off \subseteq Up
  /\ head \in OnReady
  /\ counted = Cardinality(Up)

LifeInv == clean => LifeKept

-----------------------------------------------------------------------------
(* t goes in front of h.                                                   *)
LEMMA CycleAdd ==
  ASSUME NEW nx \in Linked, NEW pv \in Linked, NEW S \in SUBSET Tcbs, IsCycle(nx, pv, S),
         NEW h \in S, NEW t \in Tcbs \ S
  PROVE  IsCycle([nx EXCEPT ![t] = h, ![pv[h]] = t], [pv EXCEPT ![t] = pv[h], ![h] = t],
                 S \cup {t})
  <1> DEFINE l == pv[h]
             n2 == [nx EXCEPT ![t] = h, ![l] = t]
             p2 == [pv EXCEPT ![t] = l, ![h] = t]
  <1>1. l \in S /\ nx[l] = h /\ t \notin S /\ t # h /\ t # l
    BY DEF IsCycle
  <1>2. /\ n2[t] = h /\ n2[l] = t /\ \A y \in S \ {l} : n2[y] = nx[y]
        /\ p2[t] = l /\ p2[h] = t /\ \A y \in S \ {h} : p2[y] = pv[y]
    BY <1>1 DEF Linked
  <1> HIDE DEF n2, p2, l
  <1>3. \A y \in S : nx[y] \in S /\ pv[y] \in S /\ pv[nx[y]] = y /\ nx[pv[y]] = y
    BY DEF IsCycle
  <1>4. ASSUME NEW y \in S \cup {t}
        PROVE  /\ n2[y] \in S \cup {t} /\ p2[y] \in S \cup {t}
               /\ p2[n2[y]] = y /\ n2[p2[y]] = y
    <2>1. CASE y = t
      BY <1>1, <1>2, <2>1
    <2>2. CASE y \in S
      <3>1. n2[y] \in S \cup {t} /\ p2[n2[y]] = y
        <4>1. CASE y = l
          BY <1>1, <1>2, <4>1
        <4>2. CASE y # l
          <5>1. n2[y] = nx[y] /\ nx[y] \in S /\ nx[y] # h
            BY <1>1, <1>2, <1>3, <2>2, <4>2 DEF l
          <5> QED
            BY <1>2, <1>3, <2>2, <5>1
        <4> QED
          BY <4>1, <4>2
      <3>2. p2[y] \in S \cup {t} /\ n2[p2[y]] = y
        <4>1. CASE y = h
          BY <1>1, <1>2, <4>1
        <4>2. CASE y # h
          <5>1. p2[y] = pv[y] /\ pv[y] \in S /\ pv[y] # l
            BY <1>1, <1>2, <1>3, <2>2, <4>2
          <5> QED
            BY <1>2, <1>3, <2>2, <5>1
        <4> QED
          BY <4>1, <4>2
      <3> QED
        BY <3>1, <3>2
    <2> QED
      BY <2>1, <2>2
  <1>5. ASSUME NEW M \in SUBSET (S \cup {t}), M # {}, \A y \in M : n2[y] \in M
        PROVE  M = S \cup {t}
    <2>1. M \ {t} # {}
      BY <1>1, <1>2, <1>5
    <2>2. ASSUME NEW y \in M \ {t} PROVE nx[y] \in M \ {t}
      <3>1. CASE y = l
        BY <1>1, <1>2, <1>5, <3>1
      <3>2. CASE y # l
        BY <1>1, <1>2, <1>3, <1>5, <2>2, <3>2
      <3> QED
        BY <3>1, <3>2
    <2>3. M \ {t} = S
      BY <2>1, <2>2 DEF IsCycle
    <2>4. t \in M
      BY <1>1, <1>2, <1>5, <2>3
    <2> QED
      BY <2>3, <2>4
  <1>6. IsCycle(n2, p2, S \cup {t})
    BY <1>4, <1>5 DEF IsCycle
  <1> QED
    BY <1>6 DEF n2, p2, l

(* t leaves a ring that has another thread.                                *)
LEMMA CycleDrop ==
  ASSUME NEW nx \in Linked, NEW pv \in Linked, NEW S \in SUBSET Tcbs, IsCycle(nx, pv, S),
         NEW t \in S, nx[t] # t
  PROVE  /\ IsCycle([nx EXCEPT ![pv[t]] = nx[t]], [pv EXCEPT ![nx[t]] = pv[t]], S \ {t})
         /\ nx[t] \in S \ {t} /\ pv[t] \in S \ {t}
  <1> DEFINE l == pv[t]
             r == nx[t]
             n2 == [nx EXCEPT ![l] = r]
             p2 == [pv EXCEPT ![r] = l]
  <1>1. /\ l \in S /\ r \in S /\ nx[l] = t /\ pv[r] = t /\ l # t /\ r # t
    BY DEF IsCycle
  <1>2. /\ n2[l] = r /\ \A y \in S \ {l} : n2[y] = nx[y]
        /\ p2[r] = l /\ \A y \in S \ {r} : p2[y] = pv[y]
    BY <1>1 DEF Linked
  <1>3. \A y \in S : nx[y] \in S /\ pv[y] \in S /\ pv[nx[y]] = y /\ nx[pv[y]] = y
    BY DEF IsCycle
  <1>4. nx[t] = r /\ pv[t] = l
    OBVIOUS
  <1> HIDE DEF n2, p2, l, r
  <1>5. ASSUME NEW y \in S \ {t}
        PROVE  /\ n2[y] \in S \ {t} /\ p2[y] \in S \ {t}
               /\ p2[n2[y]] = y /\ n2[p2[y]] = y
    <2>1. n2[y] \in S \ {t} /\ p2[n2[y]] = y
      <3>1. CASE y = l
        BY <1>1, <1>2, <3>1
      <3>2. CASE y # l
        <4>1. n2[y] = nx[y] /\ nx[y] \in S /\ nx[y] # t /\ nx[y] # r
          BY <1>1, <1>2, <1>3, <1>4, <3>2
        <4> QED
          BY <1>2, <1>3, <4>1
      <3> QED
        BY <3>1, <3>2
    <2>2. p2[y] \in S \ {t} /\ n2[p2[y]] = y
      <3>1. CASE y = r
        BY <1>1, <1>2, <3>1
      <3>2. CASE y # r
        <4>1. p2[y] = pv[y] /\ pv[y] \in S /\ pv[y] # t /\ pv[y] # l
          BY <1>1, <1>2, <1>3, <1>4, <3>2
        <4> QED
          BY <1>2, <1>3, <4>1
      <3> QED
        BY <3>1, <3>2
    <2> QED
      BY <2>1, <2>2
  <1>6. ASSUME NEW M \in SUBSET (S \ {t}), M # {}, \A y \in M : n2[y] \in M
        PROVE  M = S \ {t}
    <2>1. CASE l \in M
      <3>1. ASSUME NEW y \in M \cup {t} PROVE nx[y] \in M \cup {t}
        <4>1. CASE y = t
          BY <1>2, <1>4, <1>6, <2>1, <4>1
        <4>2. CASE y = l
          BY <1>1, <4>2
        <4>3. CASE y \in M /\ y # l
          BY <1>2, <1>6, <4>3
        <4> QED
          BY <4>1, <4>2, <4>3
      <3>2. M \cup {t} \in SUBSET S /\ M \cup {t} # {}
        OBVIOUS
      <3>3. M \cup {t} = S
        BY <3>1, <3>2 DEF IsCycle
      <3> QED
        BY <3>3
    <2>2. CASE l \notin M
      <3>1. \A y \in M : nx[y] \in M
        BY <1>2, <1>6, <2>2
      <3>2. M = S
        BY <1>6, <3>1 DEF IsCycle
      <3> QED
        BY <3>2
    <2> QED
      BY <2>1, <2>2
  <1>7. IsCycle(n2, p2, S \ {t})
    BY <1>5, <1>6 DEF IsCycle
  <1> QED
    BY <1>1, <1>7 DEF n2, p2, l, r

(* From any thread of it, a cycle is the ring that the property speaks of. *)
LEMMA CycleIsRing ==
  ASSUME NEW nx, NEW pv, NEW S, IsFiniteSet(S), IsCycle(nx, pv, S), NEW h \in S
  PROVE  RingOf(nx, pv, h, S)
  <1> DEFINE N == Cardinality(S)
             Walk[n \in 0 .. N] == IF n = 0 THEN h ELSE nx[Walk[n - 1]]
             met == {Walk[n] : n \in 0 .. N - 1}
  <1>0. N \in Nat \ {0}
    <2>1. N \in Nat /\ (N = 0 <=> S = {})
      BY FS_CardinalityType, FS_EmptySet
    <2> QED
      BY <2>1
  <1>1. \E f : f = [n \in 0 .. N |-> IF n = 0 THEN h ELSE nx[f[n - 1]]]
    <2> HIDE DEF N, Walk, met
    <2>1. \E f : IsWalk(f, N, h, nx)
      BY <1>0, WalkExists
    <2> QED
      BY <2>1 DEF IsWalk
  <1>2. Walk = [n \in 0 .. N |-> IF n = 0 THEN h ELSE nx[Walk[n - 1]]]
    BY <1>1
  <1> HIDE DEF Walk
  <1>3. pv[h] \in S /\ nx[pv[h]] = h /\ \A v \in S : nx[v] \in S
    BY DEF IsCycle
  <1> DEFINE f == [i \in 0 .. N |-> IF i = 0 THEN pv[h] ELSE Walk[i - 1]]
  <1>4. IsWalk(f, N, pv[h], nx)
    <2> HIDE DEF N
    <2>1. ASSUME NEW i \in 0 .. N, i # 0 PROVE f[i] = nx[f[i - 1]]
      <3>1. CASE i = 1
        <4>1. f[i] = Walk[0] /\ f[i - 1] = pv[h] /\ Walk[0] = h
          BY <1>0, <1>2, <3>1
        <4> QED
          BY <1>3, <4>1
      <3>2. CASE i # 1
        <4>1. i - 1 \in 0 .. N /\ i - 1 # 0 /\ i - 1 - 1 \in 0 .. N
          BY <1>0, <2>1, <3>2
        <4>2. f[i] = Walk[i - 1] /\ f[i - 1] = Walk[i - 1 - 1]
          BY <2>1, <4>1
        <4>3. Walk[i - 1] = nx[Walk[i - 1 - 1]]
          BY <1>2, <4>1
        <4> QED
          BY <4>2, <4>3
      <3> QED
        BY <3>1, <3>2
    <2>2. f[0] = pv[h]
      BY <1>0
    <2>3. f = [i \in 0 .. N |-> IF i = 0 THEN pv[h] ELSE nx[f[i - 1]]]
      <3>1. f = [i \in 0 .. N |-> f[i]]
        OBVIOUS
      <3> HIDE DEF f
      <3> QED
        BY <2>1, <2>2, <3>1
    <2> QED
      BY <2>3 DEF IsWalk
  <1> DEFINE behind == {f[i] : i \in 1 .. N}
  <1>5. behind = met
    <2> HIDE DEF N
    <2>1. ASSUME NEW i \in 1 .. N PROVE f[i] \in met
      <3>1. i - 1 \in 0 .. N - 1 /\ f[i] = Walk[i - 1]
        BY <1>0
      <3> QED
        BY <3>1
    <2>2. ASSUME NEW n \in 0 .. N - 1 PROVE Walk[n] \in behind
      <3>1. n + 1 \in 1 .. N /\ f[n + 1] = Walk[n]
        BY <1>0
      <3> HIDE DEF f
      <3> QED
        BY <3>1
    <2> HIDE DEF f
    <2> QED
      BY <2>1, <2>2
  <1>6. behind \subseteq S /\ h \in behind /\ \A v \in behind : nx[v] \in behind
    <2> HIDE DEF f, N, met
    <2>1. nx[pv[h]] \in behind /\ behind \subseteq S /\ \A v \in behind : nx[v] \in behind
      BY <1>3, <1>4, WalkCloses DEF N
    <2> QED
      BY <1>3, <2>1
  <1> HIDE DEF f, behind, met, N
  <1>7. met = S
    BY <1>5, <1>6 DEF IsCycle
  <1>8. \A t \in S : nx[t] \in S /\ pv[nx[t]] = t
    BY DEF IsCycle
  <1> QED
    BY <1>7, <1>8 DEF RingOf, met, Walk, N

-----------------------------------------------------------------------------
(* What the sets of threads are to each other, and that they are finite.   *)
LEMMA LifeFacts ==
  /\ IsFiniteSet(Tcbs) /\ IsFiniteSet(Up) /\ IsFiniteSet(OnRings) /\ IsFiniteSet(OnReady)
  /\ OnReady \subseteq OnRings /\ OnRings \subseteq Tcbs /\ Up \subseteq Tcbs
  /\ OnReady = Up \ off /\ Cardinality(Up) \in Nat
  <1>1. OnReady \subseteq OnRings /\ OnRings \subseteq Tcbs /\ Up \subseteq Tcbs
    BY DEF OnReady, OnRings, Up
  <1>2. IsFiniteSet(Tcbs) /\ IsFiniteSet(Up) /\ IsFiniteSet(OnRings) /\ IsFiniteSet(OnReady)
    <2>1. IsFiniteSet(Tcbs)
      BY LifeAssumption
    <2>2. IsFiniteSet(Up) /\ IsFiniteSet(OnRings)
      BY <1>1, <2>1, FS_Subset
    <2> QED
      BY <1>1, <2>1, <2>2, FS_Subset
  <1>3. OnReady = Up \ off
    BY DEF OnReady, OnRings, Up, Listed
  <1> QED
    BY <1>1, <1>2, <1>3, FS_CardinalityType

(* create_thread() and tready: a thread on no ring comes to both.          *)
LEMMA EnqueueKeeps ==
  ASSUME LifeKept, NEW t \in Tcbs \ OnRings, EnqueueReady(t)
  PROVE  /\ LinksTyped' /\ head' = head
         /\ IsCycle(all', back', OnRings \cup {t}) /\ IsCycle(ready', rback', OnReady \cup {t})
  <1>1. /\ head \in OnRings /\ head \in OnReady /\ t \in Tcbs \ OnReady
        /\ OnRings \in SUBSET Tcbs /\ OnReady \in SUBSET Tcbs
    BY LifeFacts DEF LifeKept
  <1>2. /\ all' = [all EXCEPT ![t] = head, ![back[head]] = t]
        /\ back' = [back EXCEPT ![t] = back[head], ![head] = t]
        /\ ready' = [ready EXCEPT ![t] = head, ![rback[head]] = t]
        /\ rback' = [rback EXCEPT ![t] = rback[head], ![head] = t]
        /\ head' = head
    BY DEF EnqueueReady, Behind, BehindReady, Before, LinkTail
  <1>3. IsCycle(all', back', OnRings \cup {t})
    BY <1>1, <1>2, CycleAdd DEF LifeKept, LinksTyped, RingsClosed
  <1>4. IsCycle(ready', rback', OnReady \cup {t})
    BY <1>1, <1>2, CycleAdd DEF LifeKept, LinksTyped, RingsClosed
  <1>5. LinksTyped'
    <2>1. back[head] \in Tcbs /\ rback[head] \in Tcbs /\ head \in Tcbs
      BY <1>1 DEF LifeKept, RingsClosed, IsCycle
    <2> QED
      BY <1>2, <2>1 DEF LifeKept, LinksTyped, Linked
  <1> QED
    BY <1>2, <1>3, <1>4, <1>5

(* remove_ready(), of a thread that may leave: it was not alone, and the   *)
(* head that is left is on both rings.                                     *)
LEMMA RemoveKeeps ==
  ASSUME LifeKept, NEW t \in Tcbs, MayLeave(t), RemoveReady(t)
  PROVE  /\ LinksTyped' /\ head' \in OnReady \ {t} /\ t \in OnReady
         /\ IsCycle(all', back', OnRings \ {t}) /\ IsCycle(ready', rback', OnReady \ {t})
  <1>1. /\ t \in OnRings /\ t \in OnReady /\ head \in OnReady
        /\ OnRings \in SUBSET Tcbs /\ OnReady \in SUBSET Tcbs
    BY LifeFacts DEF LifeKept, MayLeave, OnRings, OnReady
  <1>2. /\ all' = [all EXCEPT ![back[t]] = all[t]]
        /\ back' = [back EXCEPT ![all[t]] = back[t]]
        /\ ready' = [ready EXCEPT ![rback[t]] = ready[t]]
        /\ rback' = [rback EXCEPT ![ready[t]] = rback[t]]
        /\ head' = IF head = t THEN all[t] ELSE head
        /\ all[t] # t
    BY DEF RemoveReady, UnlinkReady
  <1>3. IsCycle(all', back', OnRings \ {t}) /\ all[t] \in OnRings \ {t} /\ back[t] \in OnRings
    BY <1>1, <1>2, CycleDrop DEF LifeKept, LinksTyped, RingsClosed
  <1>4. head' \in OnReady \ {t}
    BY <1>1, <1>2, <1>3 DEF MayLeave, OnReady
  <1>5. ready[t] # t
    <2> SUFFICES ASSUME ready[t] = t PROVE FALSE
      OBVIOUS
    <2>1. {t} \in SUBSET OnReady /\ {t} # {} /\ \A y \in {t} : ready[y] \in {t}
      BY <1>1
    <2>2. {t} = OnReady
      BY <2>1 DEF LifeKept, RingsClosed, IsCycle
    <2> QED
      BY <1>4, <2>2
  <1>6. /\ IsCycle(ready', rback', OnReady \ {t})
        /\ ready[t] \in OnReady /\ rback[t] \in OnReady
    BY <1>1, <1>2, <1>5, CycleDrop DEF LifeKept, LinksTyped, RingsClosed
  <1>7. LinksTyped'
    <2>1. all[t] \in Tcbs /\ back[t] \in Tcbs /\ ready[t] \in Tcbs /\ rback[t] \in Tcbs
      BY <1>1, <1>3, <1>6
    <2> QED
      BY <1>2, <2>1 DEF LifeKept, LinksTyped, Linked
  <1> QED
    BY <1>1, <1>3, <1>4, <1>6, <1>7

(* What a thread that changes its state is to sets and count.              *)
LEMMA UpChanges ==
  ASSUME LifeKept, NEW t \in Tcbs, NEW s \in {"READY", "WAITING", "FREE"},
         st' = [st EXCEPT ![t] = s]
  PROVE  /\ st' \in [Tcbs -> {"READY", "WAITING", "FREE"}] /\ st'[t] = s
         /\ \A u \in Tcbs \ {t} : st'[u] = st[u]
         /\ Up' = IF s = "READY" THEN Up \cup {t} ELSE Up \ {t}
         /\ t \notin Up /\ s = "READY" => Cardinality(Up') = Cardinality(Up) + 1
         /\ t \in Up /\ s # "READY" => Cardinality(Up') = Cardinality(Up) - 1
  <1>1. /\ st' \in [Tcbs -> {"READY", "WAITING", "FREE"}] /\ st'[t] = s
        /\ \A u \in Tcbs \ {t} : st'[u] = st[u]
    BY DEF LifeKept
  <1>2. Up' = IF s = "READY" THEN Up \cup {t} ELSE Up \ {t}
    BY <1>1 DEF Up
  <1>3. IsFiniteSet(Up)
    BY LifeFacts
  <1>4. t \notin Up /\ s = "READY" => Cardinality(Up') = Cardinality(Up) + 1
    BY <1>2, <1>3, FS_AddElement
  <1>5. t \in Up /\ s # "READY" => Cardinality(Up') = Cardinality(Up) - 1
    BY <1>2, <1>3, FS_RemoveElement
  <1> QED
    BY <1>1, <1>2, <1>4, <1>5

(* sample: the new thread is ready, on both rings, and counted.            *)
LEMMA CreateKeeps ==
  ASSUME LifeKept, NEW t \in Tcbs, CreateSample(t)
  PROVE  LifeKept'
  <1>1. /\ EnqueueReady(t) /\ st[t] = "FREE" /\ st' = [st EXCEPT ![t] = "READY"]
        /\ counted' = counted + 1 /\ off' = off
    BY DEF CreateSample
  <1>2. t \notin OnRings /\ t \notin Up /\ t \notin off
    BY <1>1 DEF LifeKept, OnRings, Up, Listed
  <1>3. /\ LinksTyped' /\ head' = head
        /\ IsCycle(all', back', OnRings \cup {t}) /\ IsCycle(ready', rback', OnReady \cup {t})
    BY <1>1, <1>2, EnqueueKeeps
  <1>4. /\ st' \in [Tcbs -> {"READY", "WAITING", "FREE"}] /\ st'[t] = "READY"
        /\ \A u \in Tcbs \ {t} : st'[u] = st[u]
        /\ Up' = Up \cup {t} /\ Cardinality(Up') = Cardinality(Up) + 1
    BY <1>1, <1>2, UpChanges
  <1>5. OnRings' = OnRings \cup {t} /\ OnReady' = OnReady \cup {t}
    BY <1>1, <1>2, <1>4 DEF OnRings, OnReady, Listed
  <1>6. off' \subseteq Up' /\ head' \in OnReady' /\ counted' = Cardinality(Up')
    BY <1>1, <1>3, <1>4, <1>5 DEF LifeKept
  <1> QED
    BY <1>3, <1>4, <1>5, <1>6 DEF LifeKept, RingsClosed

(* tready: a thread that was off the rings, and counted all the time, is   *)
(* back on both.                                                           *)
LEMMA SetReadyKeeps ==
  ASSUME LifeKept, NEW t \in Tcbs, t \in off, ThreadSetReady(t)
  PROVE  LifeKept'
  <1>1. EnqueueReady(t) /\ off' = off \ {t} /\ st' = st /\ counted' = counted
    BY DEF ThreadSetReady
  <1>2. t \notin OnRings /\ t \in Up
    BY DEF LifeKept, OnRings, Listed
  <1>3. /\ LinksTyped' /\ head' = head
        /\ IsCycle(all', back', OnRings \cup {t}) /\ IsCycle(ready', rback', OnReady \cup {t})
    BY <1>1, <1>2, EnqueueKeeps
  <1>4. OnRings' = OnRings \cup {t} /\ OnReady' = OnReady \cup {t} /\ Up' = Up
    BY <1>1, <1>2 DEF OnRings, OnReady, Listed, Up
  <1> QED
    BY <1>1, <1>3, <1>4 DEF LifeKept, RingsClosed

(* tdel and tready_del: one uncounts the thread, the other does not.       *)
LEMMA LeaveKeeps ==
  ASSUME LifeKept, NEW t \in Tcbs, MayLeave(t), DeleteThread(t) \/ ThreadRemoveReady(t)
  PROVE  LifeKept'
  <1>1. RemoveReady(t) /\ t \notin off
    BY DEF DeleteThread, ThreadRemoveReady, MayLeave, Listed
  <1>2. /\ LinksTyped' /\ head' \in OnReady \ {t} /\ t \in OnReady
        /\ IsCycle(all', back', OnRings \ {t}) /\ IsCycle(ready', rback', OnReady \ {t})
    BY <1>1, RemoveKeeps
  <1>3. t \in Up
    BY <1>2, LifeFacts
  <1>4. CASE DeleteThread(t)
    <2>1. st' = [st EXCEPT ![t] = "FREE"] /\ counted' = counted - 1 /\ off' = off \ {t}
      BY <1>4 DEF DeleteThread
    <2>2. /\ st' \in [Tcbs -> {"READY", "WAITING", "FREE"}] /\ st'[t] = "FREE"
          /\ \A u \in Tcbs \ {t} : st'[u] = st[u]
          /\ Up' = Up \ {t} /\ Cardinality(Up') = Cardinality(Up) - 1
      BY <1>3, <2>1, UpChanges
    <2>3. OnRings' = OnRings \ {t} /\ OnReady' = OnReady \ {t}
      BY <1>1, <2>1, <2>2 DEF OnRings, OnReady, Listed
    <2>4. off' \subseteq Up' /\ counted' = Cardinality(Up')
      BY <2>1, <2>2 DEF LifeKept
    <2> QED
      BY <1>2, <2>2, <2>3, <2>4 DEF LifeKept, RingsClosed
  <1>5. CASE ThreadRemoveReady(t)
    <2>1. st' = st /\ counted' = counted /\ off' = off \cup {t}
      BY <1>5 DEF ThreadRemoveReady
    <2>2. OnRings' = OnRings \ {t} /\ OnReady' = OnReady \ {t} /\ Up' = Up
      BY <2>1 DEF OnRings, OnReady, Listed, Up
    <2>3. off' \subseteq Up'
      BY <1>3, <2>1, <2>2 DEF LifeKept
    <2> QED
      BY <1>2, <2>1, <2>2, <2>3 DEF LifeKept, RingsClosed
  <1> QED
    BY <1>4, <1>5

(* wait: the thread leaves the ready ring, in which it is not the head.    *)
LEMMA WaitKeeps ==
  ASSUME LifeKept, NEW t \in Tcbs, Wait(t), clean'
  PROVE  LifeKept'
  <1>1. Listed(t) /\ (st[t] = "WAITING" \/ t # head) /\ st[t] # "FREE" /\ off' = off
    BY DEF Wait, Command
  <1>2. CASE st[t] = "WAITING" /\ UNCHANGED <<rings, st, counted>>
    BY <1>1, <1>2 DEF LifeKept, LinksTyped, RingsClosed, OnRings, OnReady, Up, Listed, rings
  <1>3. CASE /\ st[t] # "WAITING" /\ st' = [st EXCEPT ![t] = "WAITING"] /\ UnlinkReady(t)
             /\ counted' = counted - 1 /\ UNCHANGED <<all, back, head>>
    <2>1. st[t] = "READY" /\ t # head /\ t \in OnReady /\ t \in Up /\ t \notin off
      BY <1>1, <1>3 DEF LifeKept, OnReady, OnRings, Up, Listed
    <2>2. /\ st' \in [Tcbs -> {"READY", "WAITING", "FREE"}] /\ st'[t] = "WAITING"
          /\ \A u \in Tcbs \ {t} : st'[u] = st[u]
          /\ Up' = Up \ {t} /\ Cardinality(Up') = Cardinality(Up) - 1
      BY <1>3, <2>1, UpChanges
    <2>3. OnRings' = OnRings /\ OnReady' = OnReady \ {t}
      BY <1>1, <2>1, <2>2 DEF OnRings, OnReady, Listed
    <2>4. /\ ready' = [ready EXCEPT ![rback[t]] = ready[t]]
          /\ rback' = [rback EXCEPT ![ready[t]] = rback[t]]
      BY <1>3 DEF UnlinkReady
    <2>5. ready[t] # t
      <3> SUFFICES ASSUME ready[t] = t PROVE FALSE
        OBVIOUS
      <3>1. {t} \in SUBSET OnReady /\ {t} # {} /\ \A y \in {t} : ready[y] \in {t}
        BY <2>1
      <3>2. {t} = OnReady
        BY <3>1 DEF LifeKept, RingsClosed, IsCycle
      <3> QED
        BY <2>1, <3>2 DEF LifeKept
    <2>0. OnReady \in SUBSET Tcbs
      BY LifeFacts
    <2>6. /\ IsCycle(ready', rback', OnReady \ {t})
          /\ ready[t] \in OnReady /\ rback[t] \in OnReady
      BY <2>0, <2>1, <2>4, <2>5, CycleDrop DEF LifeKept, LinksTyped, RingsClosed
    <2>7. LinksTyped'
      <3>1. ready[t] \in Tcbs /\ rback[t] \in Tcbs
        BY <2>6, LifeFacts
      <3> QED
        BY <1>3, <2>4, <3>1 DEF LifeKept, LinksTyped, Linked
    <2>8. off' \subseteq Up' /\ head' \in OnReady' /\ counted' = Cardinality(Up')
      BY <1>1, <1>3, <2>1, <2>2, <2>3 DEF LifeKept
    <2>9. RingsClosed'
      BY <1>3, <2>3, <2>6 DEF LifeKept, RingsClosed
    <2> QED
      BY <2>2, <2>7, <2>8, <2>9 DEF LifeKept
  <1> QED
    BY <1>2, <1>3 DEF Wait

(* run: a thread asleep comes to the tail of the ready ring.               *)
LEMMA RunKeeps ==
  ASSUME LifeKept, NEW t \in Tcbs, Run(t), clean'
  PROVE  LifeKept'
  <1>1. Listed(t) /\ st[t] # "FREE" /\ off' = off
    BY DEF Run, Command
  <1>2. CASE st[t] = "READY" /\ UNCHANGED <<rings, st, counted>>
    BY <1>1, <1>2 DEF LifeKept, LinksTyped, RingsClosed, OnRings, OnReady, Up, Listed, rings
  <1>3. CASE /\ st[t] # "READY" /\ st' = [st EXCEPT ![t] = "READY"] /\ LinkTail(t)
             /\ counted' = counted + 1 /\ UNCHANGED <<all, back, head>>
    <2>1. t \in OnRings /\ t \in Tcbs \ OnReady /\ t \notin Up /\ t \notin off
      BY <1>1, <1>3 DEF OnReady, OnRings, Up, Listed
    <2>2. /\ st' \in [Tcbs -> {"READY", "WAITING", "FREE"}] /\ st'[t] = "READY"
          /\ \A u \in Tcbs \ {t} : st'[u] = st[u]
          /\ Up' = Up \cup {t} /\ Cardinality(Up') = Cardinality(Up) + 1
      BY <1>3, <2>1, UpChanges
    <2>3. OnRings' = OnRings /\ OnReady' = OnReady \cup {t}
      BY <1>1, <2>1, <2>2 DEF OnRings, OnReady, Listed
    <2>4. /\ ready' = [ready EXCEPT ![t] = head, ![rback[head]] = t]
          /\ rback' = [rback EXCEPT ![t] = rback[head], ![head] = t]
      BY <1>3 DEF LinkTail, BehindReady, Before
    <2>5. head \in OnReady /\ OnReady \in SUBSET Tcbs
      BY LifeFacts DEF LifeKept
    <2>6. IsCycle(ready', rback', OnReady \cup {t})
      BY <2>1, <2>4, <2>5, CycleAdd DEF LifeKept, LinksTyped, RingsClosed
    <2>7. LinksTyped'
      <3>1. rback[head] \in Tcbs /\ head \in Tcbs
        BY <2>5 DEF LifeKept, RingsClosed, IsCycle
      <3> QED
        BY <1>3, <2>4, <3>1 DEF LifeKept, LinksTyped, Linked
    <2>8. off' \subseteq Up' /\ head' \in OnReady' /\ counted' = Cardinality(Up')
      BY <1>1, <1>3, <2>2, <2>3, <2>5 DEF LifeKept
    <2>9. RingsClosed'
      BY <1>3, <2>3, <2>6 DEF LifeKept, RingsClosed
    <2> QED
      BY <2>2, <2>7, <2>8, <2>9 DEF LifeKept
  <1> QED
    BY <1>2, <1>3 DEF Run

-----------------------------------------------------------------------------
(* main() leaves two threads on both rings.                                *)
LEMMA LifeStarts == LInit => LifeInv
  <1> SUFFICES ASSUME LInit PROVE LifeKept
    BY DEF LifeInv
  <1> DEFINE other == [t \in Tcbs |-> IF t = Idle THEN Syscon ELSE IF t = Syscon THEN Idle ELSE Null]
  <1>1. /\ all = other /\ back = other /\ ready = other /\ rback = other /\ head = Idle
        /\ st = [t \in Tcbs |-> IF t \in {Idle, Syscon} THEN "READY" ELSE "FREE"]
        /\ counted = 2 /\ off = {}
    BY DEF LInit
  <1>2. Idle \in Tcbs /\ Syscon \in Tcbs /\ Idle # Syscon
    BY LifeAssumption
  <1>3. OnRings = {Idle, Syscon} /\ OnReady = {Idle, Syscon} /\ Up = {Idle, Syscon}
    BY <1>1, <1>2 DEF OnRings, OnReady, Up, Listed
  <1>4. other \in Linked /\ other[Idle] = Syscon /\ other[Syscon] = Idle
    BY <1>2 DEF Linked
  <1>5. IsCycle(other, other, {Idle, Syscon})
    <2> HIDE DEF other
    <2> QED
      BY <1>4 DEF IsCycle
  <1>6. Cardinality({Idle, Syscon}) = 2
    <2>1. Cardinality({Idle}) = 1 /\ IsFiniteSet({Idle})
      BY FS_Singleton
    <2>2. Cardinality({Idle} \cup {Syscon}) = Cardinality({Idle}) + 1
      BY <1>2, <2>1, FS_AddElement
    <2>3. {Idle, Syscon} = {Idle} \cup {Syscon}
      OBVIOUS
    <2>4. Cardinality({Idle, Syscon}) = Cardinality({Idle}) + 1
      BY <2>2, <2>3
    <2> QED
      BY <2>1, <2>4
  <1>7. st \in [Tcbs -> {"READY", "WAITING", "FREE"}]
    BY <1>1
  <1> HIDE DEF other
  <1> QED
    BY <1>1, <1>3, <1>4, <1>5, <1>6, <1>7 DEF LifeKept, LinksTyped, RingsClosed

(* Every command keeps the rings.                                          *)
LEMMA LifeGoesOn == LifeInv /\ [LNext]_lvars => LifeInv'
  <1> SUFFICES ASSUME LifeInv, [LNext]_lvars, clean' PROVE LifeKept'
    BY DEF LifeInv
  <1>1. CASE UNCHANGED lvars
    BY <1>1 DEF lvars, rings, LifeInv, LifeKept, LinksTyped, RingsClosed, OnRings, OnReady,
                Up, Listed
  <1>2. ASSUME NEW t \in Tcbs, CreateSample(t) PROVE LifeKept'
    BY <1>2, CreateKeeps DEF CreateSample, LifeInv
  <1>3. ASSUME NEW t \in Tcbs, Wait(t) PROVE LifeKept'
    BY <1>3, WaitKeeps DEF Wait, Command, LifeInv
  <1>4. ASSUME NEW t \in Tcbs, Run(t) PROVE LifeKept'
    BY <1>4, RunKeeps DEF Run, Command, LifeInv
  <1>5. ASSUME NEW t \in Tcbs, Tdel(t) PROVE LifeKept'
    BY <1>5, LeaveKeeps DEF Tdel, Command, LifeInv
  <1>6. ASSUME NEW t \in Tcbs, TreadyDel(t) PROVE LifeKept'
    BY <1>6, LeaveKeeps DEF TreadyDel, Command, LifeInv
  <1>7. ASSUME NEW t \in Tcbs, Tready(t) PROVE LifeKept'
    BY <1>7, SetReadyKeeps DEF Tready, Command, LifeInv
  <1> QED
    BY <1>1, <1>2, <1>3, <1>4, <1>5, <1>6, <1>7 DEF LNext

(* The invariant says what the property asks.                              *)
LEMMA KeptIsAgreed == LifeInv => RingsAgree
  <1> SUFFICES ASSUME LifeKept, clean PROVE RingsAgree
    BY DEF LifeInv, RingsAgree
  <1>1. head \in OnRings /\ head \in OnReady /\ IsFiniteSet(OnRings) /\ IsFiniteSet(OnReady)
    BY LifeFacts DEF LifeKept
  <1>2. RingOf(all, back, head, OnRings) /\ RingOf(ready, rback, head, OnReady)
    BY <1>1, CycleIsRing DEF LifeKept, RingsClosed
  <1>3. counted = Cardinality(Up)
    BY DEF LifeKept
  <1> QED
    BY <1>2, <1>3 DEF RingsAgree, OnRings, OnReady, Up

(* Through any sequence of commands that fit their threads, the list of    *)
(* all threads and the list of those that are ready stay rings from one    *)
(* head, with exactly the threads they should have, and ready_count counts *)
(* the ready ones (kern/thread.c).                                         *)
THEOREM RingsStayAgreed == LSpec => []RingsAgree
  <1>1. LInit => LifeInv
    BY LifeStarts
  <1>2. LifeInv /\ [LNext]_lvars => LifeInv'
    BY LifeGoesOn
  <1>3. LifeInv => RingsAgree
    BY KeptIsAgreed
  <1> QED
    BY <1>1, <1>2, <1>3, PTL DEF LSpec

-----------------------------------------------------------------------------
(* Part three, module Session: mounting keeps account of every page.       *)

(* The first n elements of a sequence without repetitions, and the rest.   *)
LEMMA SplitDistinct ==
  ASSUME NEW S, NEW q \in Seq(S), Distinct(q), NEW n \in 0 .. Len(q)
  PROVE  LET a == SubSeq(q, 1, n)
             b == SubSeq(q, n + 1, Len(q))
         IN  /\ a \in Seq(S) /\ Distinct(a) /\ Len(a) = n
             /\ b \in Seq(S) /\ Distinct(b) /\ Len(b) = Len(q) - n
             /\ Members(a) \cup Members(b) = Members(q) /\ Members(a) \cap Members(b) = {}
  <1> DEFINE a == SubSeq(q, 1, n)
             b == SubSeq(q, n + 1, Len(q))
             L == Len(q)
  <1>0. L \in Nat /\ n \in Nat /\ n <= L /\ DOMAIN q = 1 .. L
    OBVIOUS
  <1>1. a \in Seq(S) /\ Len(a) = n /\ \A i \in 1 .. n : a[i] = q[i]
    OBVIOUS
  <1>2. b \in Seq(S) /\ Len(b) = L - n /\ \A i \in 1 .. L - n : b[i] = q[n + i]
    <2>1. b \in Seq(S) /\ Len(b) = L - n
      OBVIOUS
    <2>2. \A i \in 1 .. L - n : b[i] = q[n + 1 + i - 1] /\ n + 1 + i - 1 = n + i
      OBVIOUS
    <2> QED
      BY <2>1, <2>2
  <1> HIDE DEF a, b, L
  <1>3. DOMAIN a = 1 .. n /\ DOMAIN b = 1 .. L - n
    BY <1>0, <1>1, <1>2
  <1>4. \A i, j \in 1 .. L : q[i] = q[j] => i = j
    BY <1>0 DEF Distinct
  <1>5. Distinct(a)
    <2> SUFFICES ASSUME NEW i \in 1 .. n, NEW j \in 1 .. n, a[i] = a[j] PROVE i = j
      BY <1>3 DEF Distinct
    <2>1. i \in 1 .. L /\ j \in 1 .. L
      BY <1>0
    <2> QED
      BY <1>1, <1>4, <2>1
  <1>6. Distinct(b)
    <2> SUFFICES ASSUME NEW i \in 1 .. L - n, NEW j \in 1 .. L - n, b[i] = b[j] PROVE i = j
      BY <1>3 DEF Distinct
    <2>1. n + i \in 1 .. L /\ n + j \in 1 .. L
      BY <1>0
    <2>2. n + i = n + j
      BY <1>2, <1>4, <2>1
    <2> QED
      BY <1>0, <2>2
  <1>7. Members(a) \cap Members(b) = {}
    <2> SUFFICES ASSUME NEW i \in 1 .. n, NEW j \in 1 .. L - n, a[i] = b[j] PROVE FALSE
      BY <1>3 DEF Members
    <2>1. i \in 1 .. L /\ n + j \in 1 .. L /\ i # n + j
      BY <1>0
    <2> QED
      BY <1>1, <1>2, <1>4, <2>1
  <1>8. Members(a) \cup Members(b) \subseteq Members(q)
    <2>1. ASSUME NEW i \in 1 .. n PROVE a[i] \in Members(q)
      <3>1. i \in 1 .. L
        BY <1>0
      <3> QED
        BY <1>0, <1>1, <3>1 DEF Members
    <2>2. ASSUME NEW i \in 1 .. L - n PROVE b[i] \in Members(q)
      <3>1. n + i \in 1 .. L
        BY <1>0
      <3> QED
        BY <1>0, <1>2, <3>1 DEF Members
    <2> QED
      BY <1>3, <2>1, <2>2 DEF Members
  <1>9. Members(q) \subseteq Members(a) \cup Members(b)
    <2> SUFFICES ASSUME NEW i \in 1 .. L PROVE q[i] \in Members(a) \cup Members(b)
      BY <1>0 DEF Members
    <2>1. CASE i <= n
      <3>1. i \in 1 .. n
        BY <1>0, <2>1
      <3> QED
        BY <1>1, <1>3, <3>1 DEF Members
    <2>2. CASE ~(i <= n)
      <3>1. i - n \in 1 .. L - n /\ n + (i - n) = i
        BY <1>0, <2>2
      <3>2. b[i - n] = q[i]
        BY <1>2, <3>1
      <3> QED
        BY <1>3, <3>1, <3>2 DEF Members
    <2> QED
      BY <2>1, <2>2
  <1>10. Members(a) \cup Members(b) = Members(q)
    BY <1>8, <1>9
  <1> QED
    BY <1>1, <1>2, <1>5, <1>6, <1>7, <1>10 DEF a, b, L

(* Two sequences with nothing in common, one behind the other.             *)
LEMMA JoinDistinct ==
  ASSUME NEW S, NEW a \in Seq(S), NEW b \in Seq(S), Distinct(a), Distinct(b),
         Members(a) \cap Members(b) = {}
  PROVE  /\ a \o b \in Seq(S) /\ Distinct(a \o b)
         /\ Members(a \o b) = Members(a) \cup Members(b)
  <1> DEFINE r == a \o b
             m == Len(a)
             n == Len(b)
  <1>0. m \in Nat /\ n \in Nat /\ DOMAIN a = 1 .. m /\ DOMAIN b = 1 .. n
    OBVIOUS
  <1>1. r \in Seq(S) /\ Len(r) = m + n
    OBVIOUS
  <1>2. \A i \in 1 .. m : r[i] = a[i]
    OBVIOUS
  <1>3. \A i \in 1 .. n : r[m + i] = b[i]
    OBVIOUS
  <1> HIDE DEF r, m, n
  <1>4. DOMAIN r = 1 .. m + n
    BY <1>0, <1>1
  <1>5. \A i \in 1 .. m + n : i \in 1 .. m \/ \E j \in 1 .. n : i = m + j
    <2> TAKE i \in 1 .. m + n
    <2>1. i \in 1 .. m \/ (i - m \in 1 .. n /\ i = m + (i - m))
      BY <1>0
    <2> QED
      BY <2>1
  <1>6. \A i \in 1 .. m : i \in 1 .. m + n
    BY <1>0
  <1>7. \A j \in 1 .. n : m + j \in 1 .. m + n
    BY <1>0
  <1>8. \A i \in 1 .. m, j \in 1 .. n : a[i] # b[j]
    BY <1>0 DEF Members
  <1>9. Distinct(r)
    <2> SUFFICES ASSUME NEW i \in 1 .. m + n, NEW j \in 1 .. m + n, r[i] = r[j] PROVE i = j
      BY <1>4 DEF Distinct
    <2>1. CASE i \in 1 .. m /\ j \in 1 .. m
      BY <1>0, <1>2, <2>1 DEF Distinct
    <2>2. ASSUME NEW k \in 1 .. n, NEW l \in 1 .. n, i = m + k, j = m + l PROVE i = j
      BY <1>0, <1>3, <2>2 DEF Distinct
    <2>3. ASSUME i \in 1 .. m, NEW l \in 1 .. n, j = m + l PROVE FALSE
      BY <1>2, <1>3, <1>8, <2>3
    <2>4. ASSUME j \in 1 .. m, NEW l \in 1 .. n, i = m + l PROVE FALSE
      BY <1>2, <1>3, <1>8, <2>4
    <2> QED
      BY <1>5, <2>1, <2>2, <2>3, <2>4
  <1>10. Members(r) = Members(a) \cup Members(b)
    <2>1. ASSUME NEW i \in 1 .. m + n PROVE r[i] \in Members(a) \cup Members(b)
      BY ZenonT(60), <1>0, <1>2, <1>3, <1>5 DEF Members
    <2>2. ASSUME NEW i \in 1 .. m PROVE a[i] \in Members(r)
      BY <1>2, <1>4, <1>6 DEF Members
    <2>3. ASSUME NEW i \in 1 .. n PROVE b[i] \in Members(r)
      BY <1>3, <1>4, <1>7 DEF Members
    <2> QED
      BY <1>0, <1>4, <2>1, <2>2, <2>3 DEF Members
  <1> QED
    BY <1>1, <1>9, <1>10 DEF r

(* A sequence backwards has the same elements.                             *)
LEMMA ReverseDistinct ==
  ASSUME NEW S, NEW q \in Seq(S), Distinct(q)
  PROVE  /\ Reverse(q) \in Seq(S) /\ Distinct(Reverse(q))
         /\ Members(Reverse(q)) = Members(q)
  <1> DEFINE L == Len(q)
             r == Reverse(q)
  <1>0. L \in Nat /\ DOMAIN q = 1 .. L /\ \A i \in 1 .. L : q[i] \in S
    OBVIOUS
  <1> HIDE DEF L
  <1>1. \A i \in 1 .. L : (L - i) + 1 \in 1 .. L /\ (L - ((L - i) + 1)) + 1 = i
    BY <1>0
  <1>2. r = [i \in 1 .. L |-> q[(L - i) + 1]]
    BY DEF Reverse, L
  <1> HIDE DEF r
  <1>3. DOMAIN r = 1 .. L /\ \A i \in 1 .. L : r[i] = q[(L - i) + 1]
    BY <1>2
  <1>4. r \in Seq(S)
    <2>1. \A i \in 1 .. L : q[(L - i) + 1] \in S
      BY <1>0, <1>1
    <2>2. [i \in 1 .. L |-> q[(L - i) + 1]] \in [1 .. L -> S]
      BY <2>1
    <2> QED
      BY <1>0, <1>2, <2>2
  <1>5. Distinct(r)
    <2> SUFFICES ASSUME NEW i \in 1 .. L, NEW j \in 1 .. L, r[i] = r[j] PROVE i = j
      BY <1>3 DEF Distinct
    <2>1. (L - i) + 1 = (L - j) + 1
      BY <1>0, <1>1, <1>3 DEF Distinct
    <2> QED
      BY <1>0, <2>1
  <1>6. Members(r) = Members(q)
    <2>1. ASSUME NEW i \in 1 .. L PROVE r[i] \in Members(q)
      BY <1>0, <1>1, <1>3 DEF Members
    <2>2. ASSUME NEW i \in 1 .. L PROVE q[i] \in Members(r)
      <3>1. r[(L - i) + 1] = q[i]
        BY <1>1, <1>3
      <3> QED
        BY <1>1, <1>3, <3>1 DEF Members
    <2> QED
      BY <1>0, <1>3, <2>1, <2>2 DEF Members
  <1> QED
    BY <1>4, <1>5, <1>6 DEF r

(* Sequences of two, one and no elements.                                  *)
LEMMA ShortDistinct ==
  ASSUME NEW S, NEW x \in S, NEW y \in S
  PROVE  /\ <<x, y>> \in Seq(S) /\ Members(<<x, y>>) = {x, y}
         /\ x # y => Distinct(<<x, y>>)
         /\ <<x>> \in Seq(S) /\ Distinct(<<x>>) /\ Members(<<x>>) = {x}
         /\ << >> \in Seq(S) /\ Distinct(<< >>) /\ Members(<< >>) = {}
  <1>1. /\ <<x, y>> \in Seq(S) /\ Members(<<x, y>>) = {x, y}
        /\ x # y => Distinct(<<x, y>>)
    BY DEF Distinct, Members
  <1>2. <<x>> \in Seq(S) /\ Distinct(<<x>>) /\ Members(<<x>>) = {x}
    BY DEF Distinct, Members
  <1>3. << >> \in Seq(S) /\ Distinct(<< >>) /\ Members(<< >>) = {}
    BY DEF Distinct, Members
  <1> QED
    BY <1>1, <1>2, <1>3

-----------------------------------------------------------------------------
(* A file system is mounted, or its mount waits for a buffer for ever.     *)
Held == mounted \/ came = "hung"

(* The pages that are in a variable of their own.                          *)
Own == {p \in {ls_page, buffers} : p # NoPage} \cup {p \in {sb} : Held}

(* Free pages, other threads', the data of the buffers and those by        *)
(* themselves: no page is in two of these sets, and every page is in one.  *)
Shares(free, oth, data, own) ==
  /\ free \cap oth = {} /\ free \cap data = {} /\ free \cap own = {}
  /\ oth \cap data = {} /\ oth \cap own = {} /\ data \cap own = {}
  /\ free \cup oth \cup data \cup own = Pages

(* Without a file system no buffer has a page; with one the superblock has *)
(* a page, and that of the heads, if any, is another.                      *)
Mounting ==
  /\ Held => sb \in Pages /\ sb \notin {ls_page, buffers}
  /\ ~Held => buffers = NoPage /\ buf_pages = << >>
  /\ {ls_page, buffers} \subseteq Pages \cup {NoPage}
  /\ ls_page = buffers => ls_page = NoPage

FilesKept ==
  /\ free_pages \in Seq(Pages) /\ Distinct(free_pages)
  /\ buf_pages \in Seq(Pages) /\ Distinct(buf_pages)
  /\ Mounting
  /\ Shares(Members(free_pages), others, Members(buf_pages), Own)

RightDevice == (holds[sb] = dev \/ unread) /\ Magic(holds[sb])

Settled == IF whole THEN came = "fine" ELSE listed

FilesInv ==
  /\ Orderly => FilesKept /\ (mounted => RightDevice)
  /\ {mounted, unread, whole, listed} \subseteq BOOLEAN
  /\ mounted => Settled
  /\ holds = [q \in Pages |-> holds[q]]

-----------------------------------------------------------------------------
(* The first page off the list.                                            *)
LEMMA FirstFree ==
  ASSUME FilesKept, free_pages # << >>
  PROVE  /\ Head(free_pages) \in Pages /\ Head(free_pages) \in Members(free_pages)
         /\ Tail(free_pages) \in Seq(Pages) /\ Distinct(Tail(free_pages))
         /\ Members(Tail(free_pages)) = Members(free_pages) \ {Head(free_pages)}
         /\ Len(Tail(free_pages)) = Len(free_pages) - 1
         /\ Head(free_pages) \notin others \cup Members(buf_pages) \cup Own
  BY TailDistinct DEF FilesKept, Shares

(* What SetUp() takes: the superblock's page p, that of the heads if there *)
(* is one, those of the data, and the rest of the list, with nothing in    *)
(* common.  Given back in Umount()'s order they are the same pages.        *)
TakenApart(p, taken, rest) ==
  /\ rest \in Seq(Pages) /\ Distinct(rest)
  /\ DataOf(taken) \in Seq(Pages) /\ Distinct(DataOf(taken))
  /\ p \in Members(free_pages)
  /\ Members(free_pages) = {p} \cup Members(HeadsOf(taken)) \cup Members(DataOf(taken)) \cup Members(rest)
  /\ p \notin Members(HeadsOf(taken)) \cup Members(DataOf(taken)) \cup Members(rest)
  /\ Members(DataOf(taken)) \cap Members(rest) = {}
  /\ Members(HeadsOf(taken)) \cap Members(DataOf(taken)) = {}
  /\ Members(HeadsOf(taken)) \cap Members(rest) = {}
  /\ Members(HeadsOf(taken)) = IF taken = << >> THEN {} ELSE {Head(taken)}
  /\ Umount(p, taken, rest) \in Seq(Pages) /\ Distinct(Umount(p, taken, rest))
  /\ Members(Umount(p, taken, rest)) = Members(free_pages)

(* A sequence is its first element, if it has one, and the others.         *)
LEMMA HeadsApart ==
  ASSUME NEW taken \in Seq(Pages), Distinct(taken)
  PROVE  /\ HeadsOf(taken) \in Seq(Pages) /\ Distinct(HeadsOf(taken))
         /\ DataOf(taken) \in Seq(Pages) /\ Distinct(DataOf(taken))
         /\ Members(HeadsOf(taken)) \cap Members(DataOf(taken)) = {}
         /\ Members(HeadsOf(taken)) \cup Members(DataOf(taken)) = Members(taken)
         /\ Members(HeadsOf(taken)) = IF taken = << >> THEN {} ELSE {Head(taken)}
  <1>1. CASE taken = << >>
    <2>1. HeadsOf(taken) = << >> /\ DataOf(taken) = << >>
      BY <1>1 DEF HeadsOf, DataOf
    <2>2. << >> \in Seq(Pages) /\ Distinct(<< >>) /\ Members(<< >>) = {}
      BY DEF Distinct, Members
    <2> QED
      BY <1>1, <2>1, <2>2
  <1>2. CASE taken # << >>
    <2>1. 1 \in 0 .. Len(taken) /\ taken[1] = Head(taken)
      BY <1>2
    <2>2. PICK a, b : a = SubSeq(taken, 1, 1) /\ b = DataOf(taken)
      OBVIOUS
    <2>3. /\ a \in Seq(Pages) /\ Distinct(a) /\ Len(a) = 1
          /\ b \in Seq(Pages) /\ Distinct(b)
          /\ Members(a) \cup Members(b) = Members(taken) /\ Members(a) \cap Members(b) = {}
      <3>1. 1 + 1 = 2
        OBVIOUS
      <3>2. b = SubSeq(taken, 1 + 1, Len(taken))
        BY ONLY <2>2, <3>1 DEF DataOf
      <3> QED
        BY <2>1, <2>2, <3>2, SplitDistinct
    <2>4. a[1] = Head(taken)
      BY <2>1, <2>2
    <2>5. a = HeadsOf(taken)
      <3>1. a = <<Head(taken)>>
        BY <2>3, <2>4
      <3> QED
        BY ONLY <1>2, <3>1 DEF HeadsOf
    <2>6. Members(a) = {Head(taken)}
      BY <2>3, <2>4 DEF Members
    <2> QED
      BY <1>2, <2>2, <2>3, <2>5, <2>6
  <1> QED
    BY <1>1, <1>2

(* buf_init() and ext2fs_umount() at work.                                 *)
LEMMA PagesTaken ==
  ASSUME FilesKept, free_pages # << >>, NEW p, p = Head(free_pages),
         NEW taken, taken = BufInit(Tail(free_pages)),
         NEW rest, rest = SubSeq(free_pages, Len(taken) + 2, Len(free_pages))
  PROVE  TakenApart(p, taken, rest)
  <1> DEFINE q == free_pages
             T == Tail(q)
             k == Len(taken)
             hs == HeadsOf(taken)
             ts == DataOf(taken)
  <1>1. /\ q \in Seq(Pages) /\ p \in Pages /\ p \in Members(q)
        /\ T \in Seq(Pages) /\ Distinct(T) /\ Members(T) = Members(q) \ {p}
        /\ Len(T) = Len(q) - 1 /\ Len(q) \in Nat
    BY FirstFree DEF FilesKept
  <1>2. BufPages \in Nat \ {0}
    BY SessionAssumption
  <1>3. taken = SubSeq(T, 1, k) /\ k \in 0 .. Len(T)
    <2> HIDE DEF q, T
    <2>1. Len(T) \in Nat
      BY <1>1
    <2>2. CASE Len(T) <= BufPages
      <3>1. taken = SubSeq(T, 1, Len(T)) /\ Len(taken) = Len(T)
        BY <1>1, <2>1, <2>2 DEF BufInit, T, q
      <3> QED
        BY <1>2, <2>1, <2>2, <3>1
    <2>3. CASE ~(Len(T) <= BufPages)
      <3>1. taken = SubSeq(T, 1, BufPages + 1) /\ BufPages + 1 <= Len(T)
        BY <1>2, <2>1, <2>3 DEF BufInit, T, q
      <3> QED
        BY <1>2, <2>1, <3>1
    <2> QED
      BY <2>2, <2>3
  <1>4. rest = SubSeq(T, k + 1, Len(T))
    <2>1. Len(T) \in Nat /\ k \in Nat /\ Len(q) = Len(T) + 1
      BY <1>1, <1>3
    <2>2. rest = SubSeq(q, k + 2, Len(q))
      OBVIOUS
    <2>3. /\ SubSeq(q, k + 2, Len(q)) \in Seq(Pages)
          /\ Len(SubSeq(q, k + 2, Len(q))) = Len(q) - (k + 1)
          /\ \A i \in 1 .. Len(q) - (k + 1) : SubSeq(q, k + 2, Len(q))[i] = q[k + 1 + i]
      <3> HIDE DEF k, T, q
      <3>1. k + 1 <= Len(q)
        BY <1>1, <1>3, <2>1
      <3> QED
        BY <1>1, <2>1, <3>1
    <2>4. /\ SubSeq(T, k + 1, Len(T)) \in Seq(Pages)
          /\ Len(SubSeq(T, k + 1, Len(T))) = Len(T) - k
          /\ \A i \in 1 .. Len(T) - k : SubSeq(T, k + 1, Len(T))[i] = T[k + i]
      <3> HIDE DEF k, T, q
      <3> QED
        BY SMTT(60), <1>1, <1>3, <2>1
    <2>5. \A i \in 1 .. Len(T) : T[i] = q[i + 1]
      BY <1>1
    <2>6. Len(q) - (k + 1) = Len(T) - k
      BY <2>1
    <2>7. \A i \in 1 .. Len(T) - k : T[k + i] = q[k + 1 + i]
      <3> HIDE DEF k, T, q
      <3> TAKE i \in 1 .. Len(T) - k
      <3>1. k + i \in 1 .. Len(T) /\ k + i + 1 = k + 1 + i
        BY <2>1
      <3> QED
        BY <2>5, <3>1
    <2> HIDE DEF k, T, q
    <2>8. PICK s : s = SubSeq(q, k + 2, Len(q))
      OBVIOUS
    <2>9. PICK t : t = SubSeq(T, k + 1, Len(T))
      OBVIOUS
    <2>10. s \in Seq(Pages) /\ t \in Seq(Pages) /\ Len(s) = Len(t)
      BY <2>3, <2>4, <2>6, <2>8, <2>9
    <2>11. \A i \in 1 .. Len(s) : s[i] = t[i]
      BY SMTT(60), <2>3, <2>4, <2>6, <2>7, <2>8, <2>9
    <2>12. s = t
      BY ONLY <2>10, <2>11, SeqEqual
    <2> QED
      BY <2>2, <2>8, <2>9, <2>12
  <1> HIDE DEF q, T
  <1>5. /\ taken \in Seq(Pages) /\ Distinct(taken) /\ rest \in Seq(Pages) /\ Distinct(rest)
        /\ Members(taken) \cup Members(rest) = Members(q) \ {p}
        /\ Members(taken) \cap Members(rest) = {}
    <2> HIDE DEF k
    <2>1. /\ SubSeq(T, 1, k) \in Seq(Pages) /\ Distinct(SubSeq(T, 1, k))
          /\ SubSeq(T, k + 1, Len(T)) \in Seq(Pages) /\ Distinct(SubSeq(T, k + 1, Len(T)))
          /\ Members(SubSeq(T, 1, k)) \cup Members(SubSeq(T, k + 1, Len(T))) = Members(T)
          /\ Members(SubSeq(T, 1, k)) \cap Members(SubSeq(T, k + 1, Len(T))) = {}
      BY ONLY <1>1, <1>3, SplitDistinct
    <2> QED
      BY ONLY <1>1, <1>3, <1>4, <2>1
  <1> HIDE DEF k
  <1>6. /\ hs \in Seq(Pages) /\ Distinct(hs) /\ ts \in Seq(Pages) /\ Distinct(ts)
        /\ Members(hs) \cap Members(ts) = {} /\ Members(hs) \cup Members(ts) = Members(taken)
        /\ Members(hs) = IF taken = << >> THEN {} ELSE {Head(taken)}
    BY <1>5, HeadsApart
  <1> HIDE DEF hs, ts
  <1>7. <<p>> \in Seq(Pages) /\ Distinct(<<p>>) /\ Members(<<p>>) = {p}
    BY <1>1, ShortDistinct
  <1>8. /\ <<p>> \o hs \in Seq(Pages) /\ Distinct(<<p>> \o hs)
        /\ Members(<<p>> \o hs) = {p} \cup Members(hs)
    <2>1. PICK u : u = <<p>>
      OBVIOUS
    <2>2. u \in Seq(Pages) /\ Distinct(u) /\ Members(u) = {p}
      BY <1>7, <2>1
    <2>3. Members(u) \cap Members(hs) = {}
      BY <1>5, <1>6, <2>2
    <2>4. u \o hs \in Seq(Pages) /\ Distinct(u \o hs) /\ Members(u \o hs) = Members(u) \cup Members(hs)
      BY ONLY <1>6, <2>2, <2>3, JoinDistinct
    <2> QED
      BY <2>1, <2>2, <2>4
  <1>9. /\ Reverse(ts) \in Seq(Pages) /\ Distinct(Reverse(ts)) /\ Members(Reverse(ts)) = Members(ts)
    BY <1>6, ReverseDistinct
  <1>10. /\ <<p>> \o hs \o Reverse(ts) \in Seq(Pages) /\ Distinct(<<p>> \o hs \o Reverse(ts))
         /\ Members(<<p>> \o hs \o Reverse(ts)) = {p} \cup Members(hs) \cup Members(ts)
    <2>1. PICK u, v : u = <<p>> \o hs /\ v = Reverse(ts)
      OBVIOUS
    <2>2. Members(u) \cap Members(v) = {}
      BY <1>5, <1>6, <1>8, <1>9, <2>1
    <2>3. /\ u \in Seq(Pages) /\ Distinct(u) /\ v \in Seq(Pages) /\ Distinct(v)
          /\ Members(u) \cap Members(v) = {}
          /\ Members(u) \cup Members(v) = {p} \cup Members(hs) \cup Members(ts)
      BY <1>8, <1>9, <2>1, <2>2
    <2>4. u \o v \in Seq(Pages) /\ Distinct(u \o v) /\ Members(u \o v) = Members(u) \cup Members(v)
      BY ONLY <2>3, JoinDistinct
    <2> QED
      BY <2>1, <2>3, <2>4
  <1>11. /\ <<p>> \o hs \o Reverse(ts) \o rest \in Seq(Pages)
         /\ Distinct(<<p>> \o hs \o Reverse(ts) \o rest)
         /\ Members(<<p>> \o hs \o Reverse(ts) \o rest)
              = {p} \cup Members(hs) \cup Members(ts) \cup Members(rest)
    <2>1. PICK u : u = <<p>> \o hs \o Reverse(ts)
      OBVIOUS
    <2>2. /\ u \in Seq(Pages) /\ Distinct(u) /\ rest \in Seq(Pages) /\ Distinct(rest)
          /\ Members(u) \cap Members(rest) = {} /\ Members(u) = {p} \cup Members(hs) \cup Members(ts)
      BY ZenonT(60), <1>5, <1>6, <1>10, <2>1
    <2>3. /\ u \o rest \in Seq(Pages) /\ Distinct(u \o rest)
          /\ Members(u \o rest) = Members(u) \cup Members(rest)
      BY ONLY <2>2, JoinDistinct
    <2> QED
      BY <2>1, <2>2, <2>3
  <1>12. Members(q) = {p} \cup Members(hs) \cup Members(ts) \cup Members(rest)
    BY <1>1, <1>5, <1>6
  <1>13. /\ p \notin Members(hs) \cup Members(ts) \cup Members(rest)
         /\ Members(hs) \cap Members(rest) = {} /\ Members(ts) \cap Members(rest) = {}
    BY <1>5, <1>6
  <1> QED
    BY <1>1, <1>5, <1>6, <1>11, <1>12, <1>13 DEF TakenApart, Umount, hs, ts, q

(* Pages keep being noted one by one.                                      *)
LEMMA HoldsWritten ==
  ASSUME holds = [q \in Pages |-> holds[q]], NEW p \in Pages, NEW c,
         holds' = [holds EXCEPT ![p] = c]
  PROVE  holds' = [q \in Pages |-> holds'[q]] /\ \A q \in Pages \ {p} : holds'[q] = holds[q]
  <1>1. DOMAIN holds = Pages
    OBVIOUS
  <1>2. holds' = [q \in Pages |-> IF q = p THEN c ELSE holds[q]]
    BY <1>1
  <1> QED
    BY <1>2

(* Which pages those are.                                                  *)
LEMMA OwnIs ==
  ASSUME Mounting
  PROVE  Own = ({ls_page, buffers} \ {NoPage}) \cup IF Held THEN {sb} ELSE {}
  BY DEF Own

(* A command that reads changes nothing, or the session is over.           *)
LEMMA ReadKeeps ==
  ASSUME FilesInv, Read
  PROVE  FilesInv'
  <1>1. /\ free_pages' = free_pages /\ others' = others /\ holds' = holds /\ mounted' = mounted
        /\ dev' = dev /\ sb' = sb /\ unread' = unread /\ buffers' = buffers
        /\ buf_pages' = buf_pages /\ ls_page' = ls_page /\ whole' = whole /\ listed' = listed
        /\ came = "fine"
    BY DEF Read, fs, bufs
  <1>2. /\ came' \in {"fine", "wild", "fault"}
        /\ mounted /\ whole => came' = "fine"
    <2>1. CASE mounted /\ whole
      BY <2>1 DEF Read
    <2>2. CASE mounted /\ ~whole
      BY <2>2 DEF Read
    <2>3. CASE ~mounted
      BY <2>3 DEF Read
    <2> QED
      BY <2>1, <2>2, <2>3
  <1>3. ASSUME Orderly' PROVE FilesKept' /\ (mounted' => RightDevice')
    <2>1. came' = came /\ Orderly
      BY <1>1, <1>2, <1>3 DEF Orderly
    <2> QED
      BY <1>1, <2>1 DEF FilesInv, FilesKept, Mounting, Own, Held, Shares, RightDevice, Magic
  <1>4. mounted' => Settled'
    BY <1>1, <1>2 DEF FilesInv, Settled
  <1> QED
    BY <1>1, <1>3, <1>4 DEF FilesInv

(* A page that is taken is not the superblock's.                           *)
LEMMA TakeKeeps ==
  ASSUME FilesInv, Ls \/ OtherTakes
  PROVE  FilesInv'
  <1> DEFINE p == Head(free_pages)
  <1>1. /\ Orderly /\ free_pages # << >> /\ free_pages' = Tail(free_pages)
        /\ holds' = [holds EXCEPT ![p] = Junk] /\ came' = came
        /\ mounted' = mounted /\ dev' = dev /\ sb' = sb /\ unread' = unread
        /\ buffers' = buffers /\ buf_pages' = buf_pages /\ whole' = whole /\ listed' = listed
    BY DEF Ls, OtherTakes, fs, bufs, Orderly
  <1>2. FilesKept /\ Orderly' /\ Held' = Held
    BY <1>1 DEF FilesInv, Orderly, Held
  <1>3. /\ p \in Pages /\ p \in Members(free_pages)
        /\ Tail(free_pages) \in Seq(Pages) /\ Distinct(Tail(free_pages))
        /\ Members(Tail(free_pages)) = Members(free_pages) \ {p}
        /\ p \notin others \cup Members(buf_pages) \cup Own
    BY <1>1, <1>2, FirstFree
  <1> HIDE DEF p
  <1>4. Members(free_pages') = Members(free_pages) \ {p} /\ p # NoPage
    BY <1>1, <1>3, SessionAssumption
  <1>5. /\ buffers # p
        /\ Held => sb # p /\ sb \in Pages
    BY <1>2, <1>3, <1>4, OwnIs DEF FilesKept, Mounting
  <1>6. /\ Mounting'
        /\ Shares(Members(free_pages'), others', Members(buf_pages'), Own')
    <2>1. CASE Ls
      <3>1. ls_page = NoPage /\ ls_page' = p /\ others' = others /\ mounted
        BY <2>1 DEF Ls, p
      <3>2. Mounting'
        BY <1>1, <1>2, <1>3, <1>4, <1>5, <3>1 DEF Mounting, FilesKept
      <3>3. Own' = Own \cup {p}
        BY <1>1, <1>2, <1>4, <3>1 DEF Own
      <3> QED
        BY <1>1, <1>2, <1>3, <1>4, <3>1, <3>2, <3>3 DEF FilesKept, Shares
    <2>2. CASE OtherTakes
      <3>1. ls_page' = ls_page /\ others' = others \cup {p}
        BY <2>2 DEF OtherTakes, p
      <3>2. Mounting' /\ Own' = Own
        BY <1>1, <1>2, <3>1 DEF Mounting, FilesKept, Own
      <3> QED
        BY <1>1, <1>2, <1>3, <1>4, <3>1, <3>2 DEF FilesKept, Shares
    <2> QED
      BY <2>1, <2>2
  <1>7. FilesKept'
    BY <1>1, <1>2, <1>3, <1>6 DEF FilesKept
  <1>8. holds' = [q \in Pages |-> holds'[q]] /\ (mounted => holds'[sb] = holds[sb])
    BY <1>1, <1>3, <1>5, HoldsWritten DEF FilesInv, Held
  <1>9. mounted' => RightDevice' /\ Settled'
    BY <1>1, <1>8 DEF FilesInv, RightDevice, Settled, Magic
  <1> QED
    BY <1>1, <1>7, <1>8, <1>9 DEF FilesInv

(* A page another thread gives back was not free.                          *)
LEMMA GiveKeeps ==
  ASSUME FilesInv, OtherGives
  PROVE  FilesInv'
  <1>1. PICK p \in others : others' = others \ {p} /\ free_pages' = <<p>> \o free_pages
    BY DEF OtherGives
  <1>2. /\ Orderly /\ came' = came /\ holds' = holds
        /\ mounted' = mounted /\ dev' = dev /\ sb' = sb /\ unread' = unread
        /\ buffers' = buffers /\ buf_pages' = buf_pages /\ ls_page' = ls_page
        /\ whole' = whole /\ listed' = listed
    BY DEF OtherGives, fs, bufs
  <1>3. FilesKept
    BY <1>2 DEF FilesInv
  <1>4. p \in Pages /\ p \notin Members(free_pages)
    BY <1>3 DEF FilesKept, Shares
  <1>5. /\ free_pages' \in Seq(Pages) /\ Distinct(free_pages')
        /\ Members(free_pages') = Members(free_pages) \cup {p}
    <2>1. PICK u : u = <<p>>
      OBVIOUS
    <2>2. u \in Seq(Pages) /\ Distinct(u) /\ Members(u) = {p}
      BY <1>4, <2>1, ShortDistinct
    <2>3. /\ free_pages \in Seq(Pages) /\ Distinct(free_pages)
          /\ Members(u) \cap Members(free_pages) = {}
      BY <1>3, <1>4, <2>2 DEF FilesKept
    <2>4. /\ u \o free_pages \in Seq(Pages) /\ Distinct(u \o free_pages)
          /\ Members(u \o free_pages) = Members(u) \cup Members(free_pages)
      BY ONLY <2>2, <2>3, JoinDistinct
    <2> QED
      BY <1>1, <2>1, <2>2, <2>4
  <1>6. Mounting' /\ Own' = Own /\ RightDevice' = RightDevice /\ Settled' = Settled
    BY <1>2, <1>3 DEF Mounting, Own, Held, FilesKept, RightDevice, Settled, Magic
  <1>7. Shares(Members(free_pages'), others', Members(buf_pages'), Own')
    BY <1>1, <1>2, <1>3, <1>4, <1>5, <1>6 DEF FilesKept, Shares
  <1> QED
    BY <1>2, <1>3, <1>5, <1>6, <1>7 DEF FilesInv, FilesKept

(* ext2fs_mount(): no superblock; the file system mounted, with all its    *)
(* buffers or not; the mount taken back after an error; or too few pages,  *)
(* and the descriptors read through what an earlier mount left, or never.  *)
LEMMA MountKeeps ==
  ASSUME FilesInv, NEW d \in DevNos, Mount(d)
  PROVE  FilesInv'
  <1> DEFINE p == Head(free_pages)
  <1>1. PICK fine \in BOOLEAN :
          /\ dev' = d /\ unread' = ~fine
          /\ LET content == IF fine THEN d ELSE holds[p]
             IN IF Magic(content) THEN SetUp(d, p, content)
                ELSE /\ holds' = [holds EXCEPT ![p] = content]
                     /\ sb' = NoPage /\ mounted' = FALSE
                     /\ UNCHANGED <<free_pages, bufs, came>>
    BY DEF Mount
  <1>2. PICK content : content = IF fine THEN d ELSE holds[p]
    OBVIOUS
  <1>3. /\ came = "fine" /\ Orderly /\ ~mounted /\ ~Held /\ free_pages # << >>
        /\ others' = others /\ ls_page' = ls_page
    BY DEF Mount, Orderly, Held
  <1>4. FilesKept /\ mounted = FALSE /\ buffers = NoPage /\ buf_pages = << >>
    BY <1>3 DEF FilesInv, FilesKept, Mounting
  <1>5. p \in Pages /\ p \in Members(free_pages) /\ Members(buf_pages) = {} /\ p \notin Own
    BY <1>3, <1>4, FirstFree DEF Members
  <1>6. Own = {ls_page} \ {NoPage} /\ ls_page \in Pages \cup {NoPage}
    BY <1>3, <1>4, OwnIs DEF FilesKept, Mounting
  <1>7. p # ls_page /\ p # NoPage
    BY <1>4, <1>5, <1>6, SessionAssumption
  <1>8. unread' \in BOOLEAN
    BY <1>1
  <1>9. CASE ~Magic(content)
    <2>1. /\ holds' = [holds EXCEPT ![p] = content] /\ sb' = NoPage /\ mounted' = FALSE
          /\ free_pages' = free_pages /\ buffers' = buffers /\ buf_pages' = buf_pages
          /\ came' = came /\ whole' = whole /\ listed' = listed
      BY <1>1, <1>2, <1>9 DEF bufs
    <2>2. holds' = [q \in Pages |-> holds'[q]]
      BY <1>5, <2>1, HoldsWritten DEF FilesInv
    <2>3. Mounting' /\ Own' = Own
      BY <1>3, <1>4, <1>6, <2>1 DEF Mounting, Own, Held
    <2>4. FilesKept'
      BY <1>3, <1>4, <2>1, <2>3 DEF FilesKept
    <2> QED
      BY <1>8, <2>1, <2>2, <2>4 DEF FilesInv
  <1>10. CASE Magic(content)
    <2>1. SetUp(d, p, content)
      BY <1>1, <1>2, <1>10
    <2>2. PICK taken : taken = BufInit(Tail(free_pages))
      OBVIOUS
    <2>3. PICK rest : rest = SubSeq(free_pages, Len(taken) + 2, Len(free_pages))
      OBVIOUS
    <2> HIDE DEF p
    <2> DEFINE keep == /\ free_pages' = rest /\ buf_pages' = DataOf(taken)
                       /\ buffers' = IF taken = << >> THEN buffers ELSE Head(taken)
    <2>4. /\ sb' = p
          /\ holds' = [q \in Pages |-> IF q = p THEN content
                                       ELSE IF q \in ToSet(taken) THEN Junk ELSE holds[q]]
          /\ whole' = (Len(taken) = BufPages + 1) /\ listed' = (listed \/ whole')
          /\ \/ (whole' \/ listed) /\ mounted' = TRUE /\ keep /\ came' = came
             \/ /\ free_pages' = Umount(p, taken, rest)
                /\ buffers' = NoPage /\ buf_pages' = << >>
                /\ mounted' = mounted /\ came' = came
             \/ /\ came' = IF listed THEN "wild" ELSE "hung"
                /\ keep /\ mounted' = mounted
      BY <2>1, <2>2, <2>3 DEF SetUp
    <2>5. holds' = [q \in Pages |-> holds'[q]] /\ holds'[p] = content
      BY <1>5, <2>4
    <2>6. {unread', whole', listed'} \subseteq BOOLEAN
      BY <1>8, <2>4
    <2>7. TakenApart(p, taken, rest)
      BY <1>3, <1>4, <2>2, <2>3, PagesTaken DEF p
    <2>8. RightDevice'
      <3>1. holds'[sb'] = content
        BY <2>4, <2>5
      <3>2. content = dev' \/ unread'
        BY <1>1, <1>2
      <3> QED
        BY <1>10, <3>1, <3>2 DEF RightDevice, Magic
    <2>9. ASSUME keep, Held' PROVE FilesKept'
      <3> DEFINE hs == Members(HeadsOf(taken))
      <3>1. /\ hs = {buffers'} \ {NoPage} /\ buffers' \in Pages \cup {NoPage}
            /\ buffers' # p /\ (buffers' = ls_page => ls_page = NoPage)
        <4>1. Members(free_pages) \subseteq Pages /\ NoPage \notin Pages
              /\ Members(free_pages) \cap Own = {}
          BY <1>4, SessionAssumption DEF FilesKept, Shares
        <4>2. CASE taken = << >>
          BY <1>4, <1>7, <2>7, <2>9, <4>2 DEF TakenApart
        <4>3. CASE taken # << >>
          <5>1. hs = {Head(taken)} /\ buffers' = Head(taken)
            BY <2>7, <2>9, <4>3 DEF TakenApart
          <5>2. Head(taken) \in Members(free_pages) /\ Head(taken) # p
            BY <2>7, <5>1 DEF TakenApart
          <5> QED
            BY <1>6, <4>1, <5>1, <5>2
        <4> QED
          BY <4>2, <4>3
      <3>2. Mounting'
        BY <1>3, <1>5, <1>6, <1>7, <2>4, <2>9, <3>1 DEF Mounting
      <3>3. Own' = Own \cup {p} \cup hs
        <4>1. Own' = ({ls_page', buffers'} \ {NoPage}) \cup {sb'}
          BY <2>9 DEF Own
        <4> QED
          BY <1>3, <1>6, <2>4, <3>1, <4>1
      <3>4. Shares(Members(free_pages'), others', Members(buf_pages'), Own')
        <4>1. Shares(Members(free_pages), others, {}, Own)
          BY <1>4, <1>5 DEF FilesKept
        <4>2. Members(free_pages') = Members(rest) /\ Members(buf_pages') = Members(DataOf(taken))
          BY <2>9
        <4> HIDE DEF hs
        <4>3. /\ Members(free_pages) = {p} \cup hs \cup Members(DataOf(taken)) \cup Members(rest)
              /\ p \notin hs \cup Members(DataOf(taken)) \cup Members(rest)
              /\ Members(DataOf(taken)) \cap Members(rest) = {}
              /\ hs \cap Members(DataOf(taken)) = {} /\ hs \cap Members(rest) = {}
          BY <2>7 DEF TakenApart, hs
        <4> QED
          BY <1>3, <3>3, <4>1, <4>2, <4>3 DEF Shares
      <3> QED
        BY <2>7, <2>9, <3>2, <3>4 DEF FilesKept, TakenApart
    <2>10. CASE (whole' \/ listed) /\ mounted' = TRUE /\ keep /\ came' = came
      <3>1. Held' /\ Settled' /\ mounted' \in BOOLEAN
        BY <1>3, <2>4, <2>10 DEF Held, Settled
      <3> QED
        BY <2>5, <2>6, <2>8, <2>9, <2>10, <3>1 DEF FilesInv
    <2>11. CASE /\ free_pages' = Umount(p, taken, rest)
                /\ buffers' = NoPage /\ buf_pages' = << >>
                /\ mounted' = mounted /\ came' = came
      <3>1. Mounting' /\ Own' = Own
        BY <1>3, <1>4, <1>6, <2>11 DEF Mounting, Own, Held
      <3>2. Members(free_pages') = Members(free_pages) /\ buf_pages' = buf_pages
        BY <1>4, <2>7, <2>11 DEF TakenApart
      <3>3. FilesKept'
        BY <1>3, <1>4, <2>7, <2>11, <3>1, <3>2 DEF FilesKept, TakenApart
      <3> QED
        BY <1>4, <2>5, <2>6, <2>11, <3>3 DEF FilesInv
    <2>12. CASE /\ came' = IF listed THEN "wild" ELSE "hung"
                /\ keep /\ mounted' = mounted
      <3>1. ASSUME Orderly' PROVE FilesKept'
        <4>1. Held'
          BY <2>12, <3>1 DEF Orderly, Held
        <4> QED
          BY <2>9, <2>12, <4>1
      <3> QED
        BY <1>4, <2>5, <2>6, <2>12, <3>1 DEF FilesInv
    <2> QED
      BY <2>4, <2>10, <2>11, <2>12
  <1> QED
    BY <1>9, <1>10

-----------------------------------------------------------------------------
(* Every page is on the list of alloc_page(), once.                        *)
LEMMA FilesStart == SInit => FilesInv
  <1> SUFFICES ASSUME SInit PROVE FilesInv
    OBVIOUS
  <1> DEFINE n == Cardinality(Pages)
  <1>1. n \in Nat /\ IsFiniteSet(Pages)
    BY SessionAssumption, FS_CardinalityType
  <1>2. \E f \in [1 .. n -> Pages] : IsInjective(f)
    <2>1. PICK k \in Nat : ExistsBijection(1 .. k, Pages)
      BY <1>1, FS_NatBijection
    <2>2. k = n
      BY <2>1, FS_CountingElements
    <2> QED
      BY <2>1, <2>2 DEF ExistsBijection, Bijection, Injection
  <1>3. free_pages \in [1 .. n -> Pages] /\ IsInjective(free_pages)
    BY <1>2 DEF SInit, SetToSeq
  <1> HIDE DEF n
  <1>4. free_pages \in Seq(Pages) /\ Len(free_pages) = n
    BY <1>1, <1>3
  <1>5. Distinct(free_pages)
    BY <1>3 DEF Distinct, IsInjective
  <1>6. Members(free_pages) \subseteq Pages /\ Cardinality(Members(free_pages)) = n
    BY <1>4, <1>5, DistinctLen
  <1>7. Members(free_pages) = Pages
    BY <1>1, <1>6, FS_Subset DEF n
  <1>8. /\ others = {} /\ holds = [q \in Pages |-> Junk] /\ mounted = FALSE /\ unread = FALSE
        /\ buffers = NoPage /\ buf_pages = << >> /\ ls_page = NoPage /\ came = "fine"
        /\ whole = TRUE /\ listed = FALSE
    BY DEF SInit
  <1>9. Mounting /\ Own = {}
    BY <1>8 DEF Mounting, Own, Held
  <1>10. Members(buf_pages) = {} /\ buf_pages \in Seq(Pages) /\ Distinct(buf_pages)
    BY <1>8 DEF Members, Distinct
  <1>11. Shares(Members(free_pages), others, Members(buf_pages), Own)
    BY <1>7, <1>8, <1>9, <1>10 DEF Shares
  <1> QED
    BY <1>4, <1>5, <1>8, <1>9, <1>10, <1>11 DEF FilesInv, FilesKept

(* Every step of a session keeps the account.                              *)
LEMMA FilesGoOn == FilesInv /\ [SNext]_svars => FilesInv'
  <1> SUFFICES ASSUME FilesInv, [SNext]_svars PROVE FilesInv'
    OBVIOUS
  <1>1. CASE UNCHANGED svars
    BY <1>1 DEF svars, fs, bufs, FilesInv, FilesKept, Mounting, Own, Held, Orderly, Shares,
                RightDevice, Settled, Magic
  <1>2. ASSUME NEW d \in DevNos, Mount(d) PROVE FilesInv'
    BY <1>2, MountKeeps
  <1>3. CASE Read
    BY <1>3, ReadKeeps
  <1>4. CASE Ls \/ OtherTakes
    BY <1>4, TakeKeeps
  <1>5. CASE OtherGives
    BY <1>5, GiveKeeps
  <1> QED
    BY <1>1, <1>2, <1>3, <1>4, <1>5 DEF SNext

(* Two sets with nothing in common.                                        *)
LEMMA JoinedSize ==
  ASSUME NEW A, NEW B, IsFiniteSet(A), IsFiniteSet(B), A \cap B = {}
  PROVE  /\ IsFiniteSet(A \cup B)
         /\ Cardinality(A \cup B) = Cardinality(A) + Cardinality(B)
  <1>1. /\ IsFiniteSet(A \cup B)
        /\ Cardinality(A \cup B) = Cardinality(A) + Cardinality(B) - Cardinality(A \cap B)
    BY FS_Union
  <1>2. Cardinality(A \cap B) = 0
    BY FS_EmptySet
  <1>3. Cardinality(A) \in Nat /\ Cardinality(B) \in Nat
    BY FS_CardinalityType
  <1> QED
    BY <1>1, <1>2, <1>3

(* Sets with nothing in common are counted one by one.                     *)
LEMMA PagesCounted ==
  ASSUME FilesKept
  PROVE  Len(free_pages) + Cardinality(others) + Len(buf_pages)
           + (IF ls_page = NoPage THEN 0 ELSE 1) + (IF buffers = NoPage THEN 0 ELSE 1)
           + (IF Held THEN 1 ELSE 0)
         = Cardinality(Pages)
  <1>1. PICK free, data : free = Members(free_pages) /\ data = Members(buf_pages)
    OBVIOUS
  <1>2. Shares(free, others, data, Own)
    BY <1>1 DEF FilesKept
  <1>3. /\ IsFiniteSet(Pages) /\ IsFiniteSet(free) /\ IsFiniteSet(others)
        /\ IsFiniteSet(data) /\ IsFiniteSet(Own)
    <2>1. /\ free \subseteq Pages /\ others \subseteq Pages /\ data \subseteq Pages
          /\ Own \subseteq Pages /\ IsFiniteSet(Pages)
      BY <1>2, SessionAssumption DEF Shares
    <2> QED
      BY <2>1, FS_Subset
  <1>4. Cardinality(free) = Len(free_pages) /\ Cardinality(data) = Len(buf_pages)
    BY <1>1, DistinctLen DEF FilesKept
  <1>5. Cardinality(Own) = (IF ls_page = NoPage THEN 0 ELSE 1) + (IF buffers = NoPage THEN 0 ELSE 1)
                             + (IF Held THEN 1 ELSE 0)
    <2>1. \A x : IsFiniteSet({x} \ {NoPage}) /\ Cardinality({x} \ {NoPage}) = IF x = NoPage THEN 0 ELSE 1
      <3> SUFFICES ASSUME NEW x
                   PROVE  /\ IsFiniteSet({x} \ {NoPage})
                          /\ Cardinality({x} \ {NoPage}) = IF x = NoPage THEN 0 ELSE 1
        OBVIOUS
      <3>1. CASE x = NoPage
        <4>1. {x} \ {NoPage} = {}
          BY <3>1
        <4> QED
          BY <3>1, <4>1, FS_EmptySet
      <3>2. CASE x # NoPage
        <4>1. {x} \ {NoPage} = {x}
          BY <3>2
        <4> QED
          BY <3>2, <4>1, FS_Singleton
      <3> QED
        BY <3>1, <3>2
    <2>2. PICK l, b, h : /\ l = {ls_page} \ {NoPage} /\ b = {buffers} \ {NoPage}
                         /\ h = IF Held THEN {sb} ELSE {}
      OBVIOUS
    <2>3. /\ Own = (l \cup b) \cup h /\ l \cap b = {} /\ (l \cup b) \cap h = {}
      <3>1. Mounting
        BY DEF FilesKept
      <3>2. Own = ({ls_page, buffers} \ {NoPage}) \cup h
        BY <2>2, <3>1, OwnIs
      <3> QED
        BY <2>2, <3>1, <3>2 DEF Mounting
    <2>4. IsFiniteSet(h) /\ Cardinality(h) = IF Held THEN 1 ELSE 0
      BY <2>2, FS_EmptySet, FS_Singleton
    <2>5. /\ IsFiniteSet(l) /\ Cardinality(l) = IF ls_page = NoPage THEN 0 ELSE 1
          /\ IsFiniteSet(b) /\ Cardinality(b) = IF buffers = NoPage THEN 0 ELSE 1
      BY <2>1, <2>2
    <2>6. IsFiniteSet(l \cup b) /\ Cardinality(l \cup b) = Cardinality(l) + Cardinality(b)
      BY <2>3, <2>5, JoinedSize
    <2>7. Cardinality((l \cup b) \cup h) = Cardinality(l \cup b) + Cardinality(h)
      BY ONLY <2>3, <2>4, <2>6, JoinedSize
    <2> QED
      BY <2>3, <2>4, <2>5, <2>6, <2>7
  <1>7. PICK u, v : u = free \cup others /\ v = data \cup Own
    OBVIOUS
  <1>8. /\ u \cap v = {} /\ u \cup v = Pages /\ free \cap others = {} /\ data \cap Own = {}
    BY <1>2, <1>7 DEF Shares
  <1>9. IsFiniteSet(u) /\ Cardinality(u) = Cardinality(free) + Cardinality(others)
    BY ONLY <1>3, <1>7, <1>8, JoinedSize
  <1>10. IsFiniteSet(v) /\ Cardinality(v) = Cardinality(data) + Cardinality(Own)
    BY ONLY <1>3, <1>7, <1>8, JoinedSize
  <1>11. Cardinality(Pages) = Cardinality(u) + Cardinality(v)
    BY ONLY <1>8, <1>9, <1>10, JoinedSize
  <1>12. Cardinality(others) \in Nat /\ Len(free_pages) \in Nat /\ Len(buf_pages) \in Nat
    BY <1>3, FS_CardinalityType DEF FilesKept
  <1>13. PICK i \in 0 .. 1, j \in 0 .. 1, m \in 0 .. 1 :
           /\ i = (IF ls_page = NoPage THEN 0 ELSE 1) /\ j = (IF buffers = NoPage THEN 0 ELSE 1)
           /\ m = IF Held THEN 1 ELSE 0
    OBVIOUS
  <1>14. Cardinality(Own) = i + j + m
    BY <1>5, <1>13
  <1>15. Cardinality(Pages) = (Len(free_pages) + Cardinality(others)) + (Len(buf_pages) + (i + j + m))
    BY ONLY <1>4, <1>9, <1>10, <1>11, <1>14
  <1>16. Len(free_pages) + Cardinality(others) + Len(buf_pages) + i + j + m = Cardinality(Pages)
    BY ONLY <1>12, <1>15, i \in 0 .. 1, j \in 0 .. 1, m \in 0 .. 1
  <1> QED
    BY ONLY <1>13, <1>16

(* The invariant says what the property asks.                              *)
LEMMA KeptIsSound == FilesInv => MountsSound
  <1> SUFFICES ASSUME FilesInv PROVE MountsSound
    OBVIOUS
  <1> DEFINE uses == <<ToSet(free_pages), others, Own, ToSet(buf_pages)>>
  <1>1. ASSUME Orderly PROVE UNION ToSet(uses) = Pages
    <2>1. ToSet(free_pages) = Members(free_pages) /\ ToSet(buf_pages) = Members(buf_pages)
      BY DEF ToSet, Members
    <2>2. ToSet(uses) = {ToSet(free_pages), others, Own, ToSet(buf_pages)}
      BY DEF ToSet
    <2>3. UNION ToSet(uses) = ToSet(free_pages) \cup others \cup Own \cup ToSet(buf_pages)
      BY <2>2
    <2>4. Members(free_pages) \cup others \cup Members(buf_pages) \cup Own = Pages
      BY <1>1 DEF FilesInv, FilesKept, Shares
    <2> QED
      BY <2>1, <2>3, <2>4
  <1>2. ASSUME Orderly
        PROVE  Len(free_pages) + Cardinality(others) + Len(buf_pages)
                 + (IF ls_page = NoPage THEN 0 ELSE 1) + (IF buffers = NoPage THEN 0 ELSE 1)
                 + (IF Held THEN 1 ELSE 0)
               = Cardinality(Pages)
    BY <1>2, PagesCounted DEF FilesInv
  <1>3. /\ Orderly /\ mounted => (holds[sb] = dev \/ unread) /\ Magic(holds[sb])
        /\ mounted => IF whole THEN came = "fine" ELSE listed
    BY DEF FilesInv, RightDevice, Settled
  <1> QED
    BY <1>1, <1>2, <1>3 DEF MountsSound, Own, Held

(* Whichever page a mount does not get and whatever it cannot read, no     *)
(* page is lost and none is given back that is in use until a command goes *)
(* through memory that is not its own, which no command does on a file     *)
(* system that got its buffers (dev/ext2fs.c, dev/buf.c).                  *)
THEOREM MountsStaySound == SSpec => []MountsSound
  <1>1. SInit => FilesInv
    BY FilesStart
  <1>2. FilesInv /\ [SNext]_svars => FilesInv'
    BY FilesGoOn
  <1>3. FilesInv => MountsSound
    BY KeptIsSound
  <1> QED
    BY <1>1, <1>2, <1>3, PTL DEF SSpec
=============================================================================
