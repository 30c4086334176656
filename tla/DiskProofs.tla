----------------------------- MODULE DiskProofs -----------------------------
(***************************************************************************)
(* Proofs about modules Ide and BufCache, for any geometry of the disk and *)
(* any number of buffers, blocks and hash slots: what ide_io() reports as  *)
(* read has been read, the buffer cache's lists are sound in every detail, *)
(* its buffers hold the blocks they stand for, and it is a least-recently- *)
(* used cache. Then about module Ext2, for any size of a block and of a    *)
(* table of blocks: a file's blocks, its bytes, the whole of it and the    *)
(* inodes are found where they are.                                        *)
(*                                                                         *)
(* The theorems about the disk hold of a kernel in which the console's     *)
(* thread is the only one that reads the disk, as it is in this one: the   *)
(* cache has no lock, and a second caller of ide_io() could take the       *)
(* completion the first is about to wait for.                              *)
(***************************************************************************)
EXTENDS BufCache, Ext2, Chains, SequenceTheorems

IoLabels == {"idle", "ide_io", "start", "wait", "asleep", "done", "fill"}

(* The console's request is on its way: it has ide_lock.                   *)
InFlight ==
  pc[Console] = "start" \/ (pc[Console] \in {"wait", "asleep"} /\ busy = 0)

(* A buffer with the first n sectors from sector s on.                     *)
Filled(s, n) == [i \in 0 .. MaxCount - 1 |-> IF i < n THEN s + i ELSE Junk]

IoShapes ==
  /\ pc \in [Threads -> IoLabels] /\ ret \in [Threads -> {"idle", "done", "fill"}]
  /\ ask \in [Threads -> Nat \X (0 .. MaxCount)]
  /\ ok \in [Threads -> BOOLEAN]
  /\ mem \in [Threads -> [0 .. MaxCount - 1 -> Junk .. Size]]
  /\ request \in [op : 0 .. 1, buf : Threads \cup {None}, at : 0 .. MaxCount,
                  sector : 0 .. Size, scount : 0 .. MaxCount, io_scount : 0 .. MaxCount]
  /\ drive \in [state : {"off", "busy", "error"}, at : 0 .. Size, left : 0 .. MaxCount]

(* The thread's call, the lock and the semaphore fit together.             *)
IoLocks ==
  /\ pc[Console] = "idle" <=> ret[Console] = "idle"
  /\ pc[Console] \in {"done", "fill"} => ret[Console] = pc[Console]
  /\ busy_q = IF pc[Console] = "asleep" THEN <<Console>> ELSE << >>
  /\ busy \in 0 .. 1 /\ (busy = 1 => pc[Console] = "wait")
  /\ ide_lock = IF InFlight THEN Console ELSE None

(* The request is as far as the buffer is filled, the drive as far as the  *)
(* request.                                                                *)
IoRequest ==
  LET from == ask[Console][1]  count == ask[Console][2] IN
  /\ InFlight =>
       /\ request.op = 1 /\ request.buf = Console /\ request.scount > 0
       /\ request.at + request.scount = count /\ request.sector = from + request.at
       /\ from + count <= Size
       /\ mem[Console] = Filled(from, request.at)
  /\ drive.state = "busy" =>
       /\ InFlight /\ pc[Console] # "start"
       /\ drive.at = request.sector /\ drive.left = request.io_scount
       /\ 0 < drive.left /\ drive.left <= request.scount

(* What has been read.                                                     *)
IoResult ==
  LET from == ask[Console][1]  count == ask[Console][2] IN
  /\ pc[Console] = "ide_io" => mem[Console] = Empty
  /\ pc[Console] = "wait" /\ busy = 1 => mem[Console] = Filled(from, count)
  /\ pc[Console] \in {"done", "fill"} /\ ok[Console] => mem[Console] = Filled(from, count)

IoInv == IoShapes /\ IoLocks /\ IoRequest /\ IoResult

-----------------------------------------------------------------------------
(* Quotient and remainder.                                                 *)
LEMMA DivMod ==
  ASSUME NEW a \in Nat, NEW b \in Nat, b > 0
  PROVE  \E q \in Nat, r \in 0 .. b - 1 : a \div b = q /\ a % b = r /\ q * b + r = a
  <1>1. PICK q \in Nat : q = a \div b
    OBVIOUS
  <1>2. PICK r \in 0 .. b - 1 : r = a % b
    OBVIOUS
  <1>3. a % b = a - b * (a \div b)
    OBVIOUS
  <1> QED
    BY <1>1, <1>2, <1>3

(* ide_io_start(): the drive finds the sector asked for at the cylinder,   *)
(* head and sector that are computed for it, whatever the geometry, and a  *)
(* command is for one sector at least, and for no more than are wanted.    *)
LEMMA CommandFacts ==
  /\ \A s \in Nat : Lba(Chs(s)) = s
  /\ \A r : r.sector \in Nat /\ r.scount \in Nat /\ r.scount > 0 =>
       IoCount(r) \in 1 .. r.scount
  <1>0. Heads \in Nat /\ Sectors \in Nat /\ Sectors > 0 /\ Heads > 1
    BY IdeAssumption
  <1> SUFFICES ASSUME NEW s \in Nat
               PROVE  /\ Lba(Chs(s)) = s
                      /\ \A r : r.sector = s /\ r.scount \in Nat /\ r.scount > 0 =>
                           IoCount(r) \in 1 .. r.scount
    OBVIOUS
  <1>1. PICK t \in Nat, x \in 0 .. Sectors - 1 :
          t = s \div Sectors /\ x = s % Sectors /\ t * Sectors + x = s
    BY <1>0, DivMod
  <1>2. PICK u \in Nat, v \in 0 .. Heads - 1 :
          u = t \div Heads /\ v = t % Heads /\ u * Heads + v = t
    BY <1>0, DivMod
  <1>3. Chs(s) = [cyl |-> u, head |-> v, sect |-> x + 1]
    BY <1>1, <1>2 DEF Chs
  <1>4. Lba(Chs(s)) = s
    <2>1. Lba(Chs(s)) = (u * Heads + v) * Sectors + ((x + 1) - 1)
      BY <1>3 DEF Lba
    <2>2. (x + 1) - 1 = x
      BY <1>0, <1>1
    <2> QED
      BY <1>1, <1>2, <2>1, <2>2
  <1>5. PICK k \in Nat : k = Sectors * Heads - (x + 1) /\ k > 0
    <2>1. x + 1 \in 1 .. Sectors
      BY <1>0, <1>1
    <2>2. \A y \in 1 .. Sectors : Sectors * Heads - y \in Nat /\ Sectors * Heads - y > 0
      BY <1>0
    <2> QED
      BY <2>1, <2>2
  <1>6. ASSUME NEW r, r.sector = s, r.scount \in Nat, r.scount > 0
        PROVE  IoCount(r) \in 1 .. r.scount
    <2>1. IoCount(r) = IF r.scount > k THEN k ELSE r.scount
      BY <1>3, <1>5, <1>6 DEF IoCount, CylSectors
    <2> QED
      BY <1>5, <1>6, <2>1
  <1> QED
    BY <1>4, <1>6

(* The invariant has what the runs check of the driver.                    *)
LEMMA IoInvIsSound ==
  ASSUME Threads = {Console}, IoInv
  PROVE  TypeOK /\ ReadsSound
  <1>1. Console # None /\ Cardinality(Threads) = 1
    BY IdeAssumption, FS_Singleton
  <1>2. TypeOK
    <2>1. busy_q \in Seq(Threads) /\ ide_lock \in Threads \cup {None}
      <3>1. Console \in Threads /\ <<Console>> \in Seq(Threads) /\ << >> \in Seq(Threads)
        BY BufAssumption
      <3>2. /\ busy_q = <<Console>> \/ busy_q = << >>
            /\ ide_lock = Console \/ ide_lock = None
        BY DEF IoInv, IoLocks
      <3> QED
        BY <3>1, <3>2
    <2> QED
      BY <1>1, <2>1 DEF TypeOK, IoInv, IoShapes, IoLocks
  <1>3. ReadExact
    BY DEF ReadExact, Returned, IoInv, IoShapes, IoResult, Filled, IoLabels
  <1>4. InStep
    BY DEF InStep, IoInv, IoRequest, IoLocks, InFlight
  <1> QED
    BY <1>2, <1>3, <1>4 DEF ReadsSound

(* After ide_init().                                                       *)
LEMMA InitIoInv ==
  ASSUME Threads = {Console}, Init
  PROVE  IoInv
  <1>0. {Size, MaxCount} \subseteq Nat
    BY IdeAssumption
  <1>1. Empty \in [0 .. MaxCount - 1 -> Junk .. Size]
    BY <1>0 DEF Empty, Junk
  <1>2. IoShapes
    BY <1>0, <1>1 DEF IoShapes, Init, NoRequest, Quiet, IoLabels
  <1> QED
    BY <1>2 DEF IoInv, IoLocks, IoRequest, IoResult, Init, InFlight, Quiet

-----------------------------------------------------------------------------
(* What stays as it is while the driver works: the call.                   *)
CallStays == ret' = ret /\ ask' = ask

(* The thread's steps.                                                     *)
LEMMA IoStepKeeps ==
  ASSUME Threads = {Console}, IoInv, IoStep(Console)
  PROVE  IoInv' /\ CallStays /\ pc[Console] \notin {"idle", "done", "fill"} /\ pc'[Console] # "idle"
  <1>0. /\ Console # None /\ {Size, MaxCount} \subseteq Nat /\ Console \in Threads
    BY IdeAssumption
  <1>t. /\ pc \in [Threads -> IoLabels] /\ ret \in [Threads -> {"idle", "done", "fill"}]
        /\ ask \in [Threads -> Nat \X (0 .. MaxCount)] /\ ok \in [Threads -> BOOLEAN]
        /\ ask[Console][1] \in Nat /\ ask[Console][2] \in 0 .. MaxCount
        /\ request \in [op : 0 .. 1, buf : Threads \cup {None}, at : 0 .. MaxCount,
                        sector : 0 .. Size, scount : 0 .. MaxCount, io_scount : 0 .. MaxCount]
        /\ drive \in [state : {"off", "busy", "error"}, at : 0 .. Size, left : 0 .. MaxCount]
    BY <1>0 DEF IoInv, IoShapes
  <1>1. CASE IdeIoRefuse(Console)
    <2>1. /\ pc[Console] = "ide_io" /\ pc' = [pc EXCEPT ![Console] = ret[Console]]
          /\ ok' = [ok EXCEPT ![Console] = FALSE]
          /\ ret' = ret /\ ask' = ask /\ mem' = mem /\ request' = request /\ drive' = drive
          /\ ide_lock' = ide_lock /\ busy' = busy /\ busy_q' = busy_q
      BY <1>1 DEF IdeIoRefuse, IoReturn, sema
    <2>2. ret[Console] \in {"done", "fill"} /\ pc'[Console] = ret[Console] /\ ok'[Console] = FALSE
      BY <1>0, <1>t, <2>1 DEF IoInv, IoLocks
    <2>3. IoShapes'
      BY <1>t, <2>1, <2>2 DEF IoInv, IoShapes, IoLabels
    <2>4. ~InFlight /\ ~InFlight' /\ busy = 0
      BY <2>1, <2>2 DEF InFlight, IoInv, IoLocks
    <2>5. IoLocks'
      BY <2>1, <2>2, <2>4 DEF IoInv, IoLocks
    <2>6. IoRequest' /\ IoResult'
      BY <2>1, <2>2, <2>4 DEF IoInv, IoRequest, IoResult
    <2> QED
      BY <2>1, <2>2, <2>3, <2>5, <2>6 DEF IoInv, CallStays
  <1>2. CASE IdeIo(Console)
    <2>1. /\ pc[Console] = "ide_io" /\ ask[Console][2] > 0 /\ ask[Console][1] + ask[Console][2] <= Size
          /\ ide_lock' = Console /\ pc' = [pc EXCEPT ![Console] = "start"]
          /\ busy' = busy /\ busy_q' = busy_q /\ drive' = drive /\ ret' = ret /\ ask' = ask
          /\ ok' = ok /\ mem' = mem
      BY <1>2 DEF IdeIo
    <2>2. request' = [op |-> 1, buf |-> Console, at |-> 0, sector |-> ask[Console][1],
                      scount |-> ask[Console][2], io_scount |-> request.io_scount]
      BY <1>2 DEF IdeIo, NoRequest
    <2>3. pc'[Console] = "start"
      BY <1>0, <1>t, <2>1
    <2>4. IoShapes'
      <3>1. pc' \in [Threads -> IoLabels]
        BY <1>t, <2>1 DEF IoLabels
      <3>2. /\ ask[Console][1] \in 0 .. Size /\ ask[Console][2] \in 0 .. MaxCount
            /\ 0 \in 0 .. MaxCount /\ request.io_scount \in 0 .. MaxCount
        BY <1>0, <1>t, <2>1
      <3>3. request' \in [op : 0 .. 1, buf : Threads \cup {None}, at : 0 .. MaxCount,
                          sector : 0 .. Size, scount : 0 .. MaxCount, io_scount : 0 .. MaxCount]
        BY <1>0, <2>2, <3>2
      <3> QED
        BY <2>1, <3>1, <3>3 DEF IoInv, IoShapes
    <2>5. ~InFlight /\ InFlight' /\ busy = 0
      BY <2>1, <2>3 DEF InFlight, IoInv, IoLocks
    <2>6. IoLocks'
      BY <2>1, <2>3, <2>5 DEF IoInv, IoLocks
    <2>7. IoRequest'
      <3>1. mem[Console] = Filled(ask[Console][1], 0)
        <4>1. \A i \in 0 .. MaxCount - 1 : ~(i < 0)
          BY <1>0
        <4>2. Filled(ask[Console][1], 0) = Empty
          BY <4>1 DEF Empty, Filled
        <4> QED
          BY <2>1, <4>2 DEF IoInv, IoResult
      <3> QED
        BY <1>0, <1>t, <2>1, <2>2, <2>5, <3>1 DEF IoInv, IoRequest
    <2>8. IoResult'
      BY <2>3 DEF IoResult
    <2> QED
      BY <2>1, <2>3, <2>4, <2>6, <2>7, <2>8 DEF IoInv, CallStays
  <1>3. CASE IdeIoStart(Console)
    <2>1. /\ pc[Console] = "start" /\ busy' = busy /\ busy_q' = busy_q /\ mem' = mem
          /\ request' = [request EXCEPT !.io_scount = IoCount(request)]
          /\ ret' = ret /\ ask' = ask
      BY <1>3 DEF IdeIoStart, Command, IoReturn
    <2>2. InFlight /\ busy = 0 /\ drive.state # "busy"
      BY <2>1 DEF InFlight, IoInv, IoLocks, IoRequest
    <2>3. /\ request.op = 1 /\ request.buf = Console /\ request.scount > 0
          /\ request.at + request.scount = ask[Console][2]
          /\ request.sector = ask[Console][1] + request.at
          /\ ask[Console][1] + ask[Console][2] <= Size
          /\ mem[Console] = Filled(ask[Console][1], request.at)
      BY <2>2 DEF IoInv, IoRequest
    <2>4. IoCount(request) \in 1 .. request.scount /\ IoCount(request) \in 0 .. MaxCount
      <3>1. IoCount(request) \in 1 .. request.scount
        BY <1>t, <2>3, CommandFacts
      <3> QED
        BY <1>0, <1>t, <3>1
    <2>5. /\ request'.op = 1 /\ request'.buf = Console /\ request'.scount = request.scount
          /\ request'.at = request.at /\ request'.sector = request.sector
          /\ request'.io_scount = IoCount(request)
          /\ request' \in [op : 0 .. 1, buf : Threads \cup {None}, at : 0 .. MaxCount,
                           sector : 0 .. Size, scount : 0 .. MaxCount, io_scount : 0 .. MaxCount]
      <3>1. PICK k \in 0 .. MaxCount : k = IoCount(request)
        BY <2>4
      <3>2. request' = [request EXCEPT !.io_scount = k]
        BY <2>1, <3>1
      <3> QED
        BY <1>t, <2>3, <3>1, <3>2
    <2>6. CASE Command(request) /\ pc' = [pc EXCEPT ![Console] = "wait"]
               /\ UNCHANGED <<ide_lock, ret, ask, ok>>
      <3>1. drive' = [state |-> "busy", at |-> request.sector, left |-> IoCount(request)]
        <4>1. Lba(Chs(request.sector)) = request.sector
          BY <1>t, CommandFacts
        <4> QED
          BY <2>6, <4>1 DEF Command
      <3>2. pc'[Console] = "wait" /\ pc' \in [Threads -> IoLabels]
        BY <1>0, <1>t, <2>6 DEF IoLabels
      <3>3. drive' \in [state : {"off", "busy", "error"}, at : 0 .. Size, left : 0 .. MaxCount]
        BY <1>t, <2>4, <3>1
      <3>4. IoShapes'
        BY <2>1, <2>5, <2>6, <3>2, <3>3 DEF IoInv, IoShapes
      <3>5. InFlight'
        BY <2>1, <2>2, <3>2 DEF InFlight
      <3>6. IoLocks'
        BY <2>1, <2>2, <2>6, <3>2, <3>5 DEF IoInv, IoLocks
      <3>7. IoRequest'
        BY <1>t, <2>1, <2>3, <2>4, <2>5, <3>1, <3>2, <3>5 DEF IoRequest
      <3>8. IoResult'
        BY <2>1, <2>2, <3>2 DEF IoResult
      <3> QED
        BY <2>1, <3>2, <3>4, <3>6, <3>7, <3>8 DEF IoInv, CallStays
    <2>7. CASE ide_lock' = None /\ IoReturn(Console, FALSE) /\ UNCHANGED drive
      <3>1. pc' = [pc EXCEPT ![Console] = ret[Console]] /\ ok' = [ok EXCEPT ![Console] = FALSE]
        BY <2>7 DEF IoReturn
      <3>2. ret[Console] \in {"done", "fill"} /\ pc'[Console] = ret[Console] /\ ok'[Console] = FALSE
        BY <1>0, <1>t, <2>1, <3>1 DEF IoInv, IoLocks
      <3>3. IoShapes'
        BY <1>t, <2>1, <2>5, <2>7, <3>1, <3>2 DEF IoInv, IoShapes, IoLabels
      <3>4. ~InFlight'
        BY <3>2 DEF InFlight
      <3>5. IoLocks'
        BY <2>1, <2>2, <2>7, <3>2, <3>4 DEF IoInv, IoLocks
      <3>6. IoRequest' /\ IoResult'
        BY <2>1, <2>2, <2>7, <3>2, <3>4 DEF IoInv, IoRequest, IoResult
      <3> QED
        BY <2>1, <3>2, <3>3, <3>5, <3>6 DEF IoInv, CallStays
    <2> QED
      BY <1>3, <2>6, <2>7 DEF IdeIoStart
  <1>4. CASE IdeIoWait(Console)
    <2>1. /\ pc[Console] = "wait"
          /\ ide_lock' = ide_lock /\ request' = request /\ drive' = drive /\ mem' = mem
      BY <1>4 DEF IdeIoWait
    <2>2. CASE busy > 0 /\ busy' = busy - 1 /\ IoReturn(Console, TRUE) /\ UNCHANGED busy_q
      <3>1. /\ pc' = [pc EXCEPT ![Console] = ret[Console]] /\ ok' = [ok EXCEPT ![Console] = TRUE]
            /\ ret' = ret /\ ask' = ask /\ busy = 1 /\ busy' = 0
        BY <2>2 DEF IoReturn, IoInv, IoLocks
      <3>2. ret[Console] \in {"done", "fill"} /\ pc'[Console] = ret[Console] /\ ok'[Console] = TRUE
        BY <1>0, <1>t, <2>1, <3>1 DEF IoInv, IoLocks
      <3>3. IoShapes'
        BY <1>t, <2>1, <3>1, <3>2 DEF IoInv, IoShapes, IoLabels
      <3>4. ~InFlight /\ ~InFlight'
        BY <2>1, <3>1, <3>2 DEF InFlight
      <3>5. IoLocks'
        BY <2>1, <2>2, <3>1, <3>2, <3>4 DEF IoInv, IoLocks
      <3>6. IoRequest' /\ IoResult'
        BY <2>1, <3>1, <3>2, <3>4 DEF IoInv, IoRequest, IoResult
      <3> QED
        BY <2>1, <3>1, <3>2, <3>3, <3>5, <3>6 DEF IoInv, CallStays
    <2>3. CASE busy = 0 /\ busy_q' = Append(busy_q, Console) /\ pc' = [pc EXCEPT ![Console] = "asleep"]
               /\ UNCHANGED <<busy, ret, ask, ok>>
      <3>1. pc'[Console] = "asleep" /\ pc' \in [Threads -> IoLabels]
        BY <1>0, <1>t, <2>3 DEF IoLabels
      <3>2. busy_q' = <<Console>>
        <4>1. busy_q = << >>
          BY <2>1 DEF IoInv, IoLocks
        <4>2. Append(<< >>, Console) = <<Console>>
          OBVIOUS
        <4> QED
          BY <2>3, <4>1, <4>2
      <3>3. IoShapes'
        BY <2>1, <2>3, <3>1 DEF IoInv, IoShapes
      <3>4. InFlight /\ InFlight'
        BY <2>1, <2>3, <3>1 DEF InFlight
      <3>5. IoLocks'
        BY <2>1, <2>3, <3>1, <3>2, <3>4 DEF IoInv, IoLocks
      <3>6. IoRequest' /\ IoResult'
        BY <2>1, <2>3, <3>1, <3>4 DEF IoInv, IoRequest, IoResult
      <3> QED
        BY <2>1, <2>3, <3>1, <3>3, <3>5, <3>6 DEF IoInv, CallStays
    <2> QED
      BY <1>4, <2>2, <2>3 DEF IdeIoWait
  <1> QED
    BY <1>1, <1>2, <1>3, <1>4 DEF IoStep

(* ide_interrupt(): of each block every sector comes to its place.         *)
LEMMA HandlerKeeps ==
  ASSUME Threads = {Console}, IoInv, Handler
  PROVE  IoInv' /\ CallStays /\ pc[Console] \in {"wait", "asleep"} /\ pc'[Console] # "idle"
  <1>0. /\ Console # None /\ {Size, MaxCount, Multi} \subseteq Nat /\ Console \in Threads
    BY IdeAssumption
  <1>t. /\ pc \in [Threads -> IoLabels] /\ ret \in [Threads -> {"idle", "done", "fill"}]
        /\ ask \in [Threads -> Nat \X (0 .. MaxCount)] /\ ok \in [Threads -> BOOLEAN]
        /\ ask[Console][1] \in Nat /\ ask[Console][2] \in 0 .. MaxCount
        /\ mem \in [Threads -> [0 .. MaxCount - 1 -> Junk .. Size]]
        /\ request \in [op : 0 .. 1, buf : Threads \cup {None}, at : 0 .. MaxCount,
                        sector : 0 .. Size, scount : 0 .. MaxCount, io_scount : 0 .. MaxCount]
        /\ drive \in [state : {"off", "busy", "error"}, at : 0 .. Size, left : 0 .. MaxCount]
    BY <1>0 DEF IoInv, IoShapes
  <1>1. drive.state = "busy"
    BY DEF Handler, IdeInterrupt, IdeError
  <1>2. /\ InFlight /\ pc[Console] \in {"wait", "asleep"} /\ busy = 0
        /\ drive.at = request.sector /\ drive.left = request.io_scount
        /\ 0 < drive.left /\ drive.left <= request.scount
    BY <1>1 DEF IoInv, IoRequest, InFlight
  <1>3. /\ request.op = 1 /\ request.buf = Console /\ request.scount > 0
        /\ request.at + request.scount = ask[Console][2]
        /\ request.sector = ask[Console][1] + request.at
        /\ ask[Console][1] + ask[Console][2] <= Size
        /\ mem[Console] = Filled(ask[Console][1], request.at)
    BY <1>2 DEF IoInv, IoRequest
  <1>n. /\ request.at \in Nat /\ request.scount \in Nat /\ request.io_scount \in Nat
        /\ request.sector \in Nat /\ request.op \in 0 .. 1
        /\ ask[Console][1] \in Nat /\ ask[Console][2] \in Nat
        /\ ask[Console][2] <= MaxCount /\ MaxCount \in Nat /\ Size \in Nat /\ Multi \in Nat
        /\ 0 < request.io_scount /\ request.io_scount <= request.scount
    BY <1>0, <1>t, <1>2
  <1>4. CASE IdeError
    <2>1. /\ drive' = [Quiet EXCEPT !.state = "error"] /\ ide_lock' = ide_lock /\ busy' = busy
          /\ busy_q' = busy_q /\ request' = request /\ pc' = pc /\ ret' = ret /\ ask' = ask
          /\ ok' = ok /\ mem' = mem
      BY <1>4 DEF IdeError, sema, iolocal
    <2>2. drive' = [state |-> "error", at |-> 0, left |-> 0]
      BY <2>1 DEF Quiet
    <2>3. drive' \in [state : {"off", "busy", "error"}, at : 0 .. Size, left : 0 .. MaxCount]
      BY <1>0, <2>2
    <2>4. IoShapes'
      BY <2>1, <2>3 DEF IoInv, IoShapes
    <2>5. InFlight' <=> InFlight
      BY <2>1 DEF InFlight
    <2> QED
      BY <1>2, <2>1, <2>2, <2>4, <2>5
         DEF IoInv, IoLocks, IoRequest, IoResult, CallStays
  <1>5. CASE IdeInterrupt
    <2>1. PICK n \in 1 .. request.io_scount :
            /\ n = Block(request.io_scount)
            /\ Multi = 0 \/ (n = Multi) \/ (n < Multi /\ n = request.io_scount)
      BY <1>n DEF Block
    <2>n. n \in Nat /\ 1 <= n /\ n <= request.io_scount
      BY <1>n
    <2>2. PICK r : r = Advance(request, n)
      OBVIOUS
    <2>3. /\ r = [op |-> request.op, buf |-> Console, at |-> request.at + n,
                  sector |-> request.sector + n, scount |-> request.scount - n,
                  io_scount |-> request.io_scount - n]
          /\ r.scount \in Nat /\ r.io_scount \in Nat /\ r.io_scount <= r.scount
          /\ r.at + r.scount = ask[Console][2] /\ r.sector = ask[Console][1] + r.at
      <3>1. r = [request EXCEPT !.at = @ + n, !.sector = @ + n, !.scount = @ - n, !.io_scount = @ - n]
        BY <2>2 DEF Advance
      <3>2. r = [op |-> request.op, buf |-> Console, at |-> request.at + n,
                 sector |-> request.sector + n, scount |-> request.scount - n,
                 io_scount |-> request.io_scount - n]
        BY <1>t, <1>3, <3>1
      <3>3. /\ r.at = request.at + n /\ r.sector = request.sector + n
            /\ r.scount = request.scount - n /\ r.io_scount = request.io_scount - n
        BY <3>2
      <3>4. /\ r.scount \in Nat /\ r.io_scount \in Nat /\ r.io_scount <= r.scount
            /\ r.at + r.scount = ask[Console][2] /\ r.sector = ask[Console][1] + r.at
        BY <1>n, <1>3, <2>n, <3>3
      <3> QED
        BY <3>2, <3>4
    <2>4. r \in [op : 0 .. 1, buf : Threads \cup {None}, at : 0 .. MaxCount,
                 sector : 0 .. Size, scount : 0 .. MaxCount, io_scount : 0 .. MaxCount]
      <3>1. /\ request.op \in 0 .. 1 /\ request.at + n \in 0 .. MaxCount
            /\ request.sector + n \in 0 .. Size /\ request.scount - n \in 0 .. MaxCount
            /\ request.io_scount - n \in 0 .. MaxCount
        BY <1>n, <1>3, <2>n
      <3> QED
        BY <1>0, <2>3, <3>1
    <2>f. /\ r.at = request.at + n /\ r.sector = request.sector + n
          /\ r.scount = request.scount - n /\ r.io_scount = request.io_scount - n
          /\ r.at \in Nat /\ r.sector \in Nat /\ r.scount \in Nat /\ r.io_scount \in Nat
          /\ r.scount <= MaxCount /\ r.sector <= Size /\ r.io_scount <= r.scount
          /\ r.at <= ask[Console][2]
      <3>1. /\ r.at = request.at + n /\ r.sector = request.sector + n
            /\ r.scount = request.scount - n /\ r.io_scount = request.io_scount - n
        BY <2>3
      <3> QED
        BY <1>n, <1>3, <2>n, <3>1
    <2>5. mem'[Console] = Filled(ask[Console][1], r.at)
          /\ mem' \in [Threads -> [0 .. MaxCount - 1 -> Junk .. Size]]
      <3>1. mem' = [mem EXCEPT ![Console] =
                      [i \in DOMAIN @ |-> IF i \in request.at .. request.at + n - 1
                         THEN IF i - request.at < drive.left THEN drive.at + (i - request.at) ELSE Junk
                         ELSE @[i]]]
        BY <1>3, <1>5, <2>1 DEF IdeInterrupt, Moved
      <3>2. DOMAIN mem[Console] = 0 .. MaxCount - 1
        BY <1>0, <1>t
      <3>3. mem'[Console] =
              [i \in 0 .. MaxCount - 1 |-> IF i \in request.at .. request.at + n - 1
                 THEN IF i - request.at < drive.left THEN drive.at + (i - request.at) ELSE Junk
                 ELSE mem[Console][i]]
        BY <1>0, <1>t, <3>1, <3>2
      <3>4. ASSUME NEW i \in 0 .. MaxCount - 1
            PROVE  (IF i \in request.at .. request.at + n - 1
                    THEN IF i - request.at < drive.left THEN drive.at + (i - request.at) ELSE Junk
                    ELSE mem[Console][i])
                   = IF i < r.at THEN ask[Console][1] + i ELSE Junk
        <4>1. mem[Console][i] = IF i < request.at THEN ask[Console][1] + i ELSE Junk
          BY <1>3 DEF Filled
        <4>2. r.at = request.at + n /\ request.at \in Nat /\ n \in Nat /\ i \in Nat
          BY <1>n, <2>n, <2>f
        <4>3. CASE i \in request.at .. request.at + n - 1
          <5>1. i >= request.at /\ i < request.at + n
            BY <4>2, <4>3
          <5>2. /\ i - request.at < drive.left
                /\ drive.at + (i - request.at) = ask[Console][1] + i
            BY <1>n, <1>2, <1>3, <2>n, <4>2, <5>1
          <5> QED
            BY <4>2, <4>3, <5>1, <5>2
        <4>4. CASE i \notin request.at .. request.at + n - 1
          <5>1. i < request.at \/ i >= request.at + n
            BY <4>2, <4>4
          <5> QED
            BY <4>1, <4>2, <4>4, <5>1
        <4> QED
          BY <4>3, <4>4
      <3>5. mem'[Console] = Filled(ask[Console][1], r.at)
        BY <3>3, <3>4 DEF Filled
      <3>6. Filled(ask[Console][1], r.at) \in [0 .. MaxCount - 1 -> Junk .. Size]
        <4>1. \A i \in 0 .. MaxCount - 1 :
                (IF i < r.at THEN ask[Console][1] + i ELSE Junk) \in Junk .. Size
          <5> SUFFICES ASSUME NEW i \in 0 .. MaxCount - 1
                       PROVE  (IF i < r.at THEN ask[Console][1] + i ELSE Junk) \in Junk .. Size
            OBVIOUS
          <5>1. i \in Nat /\ (i < r.at => ask[Console][1] + i <= Size)
            BY <1>n, <1>3, <2>f
          <5>2. Junk \in Int /\ Junk <= 0
            BY DEF Junk
          <5> QED
            BY <1>n, <5>1, <5>2
        <4> QED
          BY <4>1 DEF Filled
      <3>7. \A t \in Threads : t = Console
        OBVIOUS
      <3>8. mem' \in [Threads -> [0 .. MaxCount - 1 -> Junk .. Size]]
        <4>1. DOMAIN mem' = Threads /\ mem' = [t \in Threads |-> mem'[t]]
          BY <1>t, <3>1
        <4> QED
          BY <3>5, <3>6, <3>7, <4>1
      <3> QED
        BY <3>5, <3>8
    <2>6. DriveRest(n) \in [state : {"off", "busy", "error"}, at : 0 .. Size, left : 0 .. MaxCount]
          /\ (drive.left > n => DriveRest(n) = [state |-> "busy", at |-> drive.at + n,
                                                left |-> drive.left - n])
          /\ (~(drive.left > n) => DriveRest(n).state = "off")
      <3>1. CASE drive.left > n
        <4>1. DriveRest(n) = [state |-> "busy", at |-> drive.at + n, left |-> drive.left - n]
          BY <1>t, <1>1, <3>1 DEF DriveRest
        <4>2. drive.at + n \in 0 .. Size /\ drive.left - n \in 0 .. MaxCount
          BY <1>n, <1>2, <1>3, <2>n, <3>1
        <4> QED
          BY <3>1, <4>1, <4>2
      <3>2. CASE ~(drive.left > n)
        <4>1. DriveRest(n) = [state |-> "off", at |-> 0, left |-> 0]
          BY <3>2 DEF DriveRest, Quiet
        <4> QED
          BY <1>0, <3>2, <4>1
      <3> QED
        BY <3>1, <3>2
    <2>7. CASE Finished(r) /\ IdeIoDone(r) /\ drive' = DriveRest(n)
      <3>1. r.scount = 0 /\ ~(drive.left > n) /\ r.at = ask[Console][2]
        <4>1. r.scount = 0
          BY <2>7 DEF Finished
        <4> QED
          BY <1>n, <1>2, <1>3, <2>n, <2>3, <2>f, <4>1
      <3>2. /\ ide_lock' = None /\ request' = [r EXCEPT !.op = 0] /\ drive'.state = "off"
            /\ drive' \in [state : {"off", "busy", "error"}, at : 0 .. Size, left : 0 .. MaxCount]
        BY <2>6, <2>7, <3>1 DEF IdeIoDone
      <3>3. request' \in [op : 0 .. 1, buf : Threads \cup {None}, at : 0 .. MaxCount,
                          sector : 0 .. Size, scount : 0 .. MaxCount, io_scount : 0 .. MaxCount]
        BY <2>4, <3>2
      <3>4. CASE pc[Console] = "wait"
        <4>1. busy_q = << >>
          BY <3>4 DEF IoInv, IoLocks
        <4>2. /\ busy' = 1 /\ busy_q' = busy_q /\ pc' = pc /\ ret' = ret /\ ask' = ask /\ ok' = ok
          BY <1>2, <2>7, <4>1 DEF IdeIoDone, iolocal
        <4>3. IoShapes'
          BY <2>5, <3>2, <3>3, <4>2 DEF IoInv, IoShapes
        <4>4. ~InFlight'
          BY <3>4, <4>2 DEF InFlight
        <4>5. IoLocks'
          BY <3>2, <3>4, <4>1, <4>2, <4>4 DEF IoInv, IoLocks
        <4>6. IoRequest' /\ IoResult'
          BY <2>5, <3>1, <3>2, <3>4, <4>2, <4>4 DEF IoRequest, IoResult
        <4> QED
          BY <3>4, <4>2, <4>3, <4>5, <4>6 DEF IoInv, CallStays
      <3>5. CASE pc[Console] = "asleep"
        <4>1. busy_q = <<Console>>
          BY <3>5 DEF IoInv, IoLocks
        <4>2. busy_q # << >> /\ Head(busy_q) = Console /\ Tail(busy_q) = << >>
          BY <4>1
        <4>3. /\ busy' = busy /\ busy_q' = << >>
              /\ pc' = [pc EXCEPT ![Console] = ret[Console]]
              /\ ok' = [ok EXCEPT ![Console] = TRUE]
              /\ ret' = ret /\ ask' = ask
          BY <2>7, <4>2 DEF IdeIoDone, IoReturn
        <4>4. ret[Console] \in {"done", "fill"} /\ pc'[Console] = ret[Console]
          BY <1>0, <1>t, <3>5, <4>3 DEF IoInv, IoLocks
        <4>5. IoShapes'
          BY <1>t, <2>5, <3>2, <3>3, <4>3, <4>4 DEF IoInv, IoShapes, IoLabels
        <4>6. ~InFlight'
          BY <4>4 DEF InFlight
        <4>7. IoLocks'
          BY <1>2, <3>2, <4>3, <4>4, <4>6 DEF IoInv, IoLocks
        <4>8. IoRequest' /\ IoResult'
          BY <2>5, <3>1, <3>2, <4>3, <4>4, <4>6 DEF IoRequest, IoResult
        <4> QED
          BY <3>5, <4>3, <4>4, <4>5, <4>7, <4>8 DEF IoInv, CallStays
      <3> QED
        BY <1>2, <3>4, <3>5
    <2>8. CASE ~Finished(r) /\ UNCHANGED <<sema, iolocal>>
      <3>0. /\ ide_lock' = ide_lock /\ busy' = busy /\ busy_q' = busy_q /\ pc' = pc /\ ret' = ret
            /\ ask' = ask /\ ok' = ok
        BY <2>8 DEF sema, iolocal
      <3>1. r.scount > 0
        BY <2>3, <2>8 DEF Finished
      <3>2. InFlight'
        BY <1>2, <3>0 DEF InFlight
      <3>3. IoLocks' /\ IoResult'
        BY <1>2, <3>0, <3>2 DEF IoInv, IoLocks, IoResult
      <3>4. ASSUME NEW k \in 0 .. r.scount, request' = [r EXCEPT !.io_scount = k],
                   drive' \in [state : {"off", "busy", "error"}, at : 0 .. Size, left : 0 .. MaxCount],
                   drive'.state = "busy" => k > 0 /\ drive'.at = r.sector /\ drive'.left = k
            PROVE  IoInv'
        <4>1. k \in 0 .. MaxCount /\ k <= r.scount
          BY <1>0, <2>4
        <4>2. request' = [op |-> request.op, buf |-> Console, at |-> r.at, sector |-> r.sector,
                          scount |-> r.scount, io_scount |-> k]
          BY <2>3, <3>4
        <4>3. IoShapes'
          <5>1. request' \in [op : 0 .. 1, buf : Threads \cup {None}, at : 0 .. MaxCount,
                              sector : 0 .. Size, scount : 0 .. MaxCount, io_scount : 0 .. MaxCount]
            BY <2>4, <3>4, <4>1
          <5> QED
            BY <2>5, <3>0, <3>4, <5>1 DEF IoInv, IoShapes
        <4>4. IoRequest'
          BY <1>2, <1>3, <2>3, <2>5, <3>0, <3>1, <3>2, <3>4, <4>1, <4>2 DEF IoRequest
        <4> QED
          BY <3>3, <4>3, <4>4 DEF IoInv
      <3>5. CASE request' = r /\ drive' = DriveRest(n)
        <4>1. r = [r EXCEPT !.io_scount = r.io_scount] /\ r.io_scount \in 0 .. r.scount
          BY <2>3
        <4>2. drive'.state = "busy" => /\ r.io_scount > 0 /\ drive'.at = r.sector
                                       /\ drive'.left = r.io_scount
          <5>1. drive'.state = "busy" =>
                  /\ drive.left > n /\ drive'.at = drive.at + n /\ drive'.left = drive.left - n
            BY <2>6, <3>5
          <5> QED
            BY <1>n, <1>2, <2>n, <2>f, <5>1
        <4> QED
          BY <1>2, <2>6, <3>0, <3>4, <3>5, <4>1, <4>2 DEF CallStays, IoInv, IoLocks
      <3>6. IoCount(r) \in 1 .. r.scount
        BY <2>3, <2>4, <3>1, CommandFacts
      <3>7. CASE Command(r)
        <4>1. /\ request' = [r EXCEPT !.io_scount = IoCount(r)]
              /\ drive' = [state |-> "busy", at |-> r.sector, left |-> IoCount(r)]
          <5>1. Lba(Chs(r.sector)) = r.sector
            BY <2>4, CommandFacts
          <5> QED
            BY <3>7, <5>1 DEF Command
        <4>2. PICK k \in 0 .. r.scount : k = IoCount(r) /\ k > 0 /\ k \in 0 .. MaxCount
          BY <1>n, <2>f, <3>6
        <4>3. drive' \in [state : {"off", "busy", "error"}, at : 0 .. Size, left : 0 .. MaxCount]
          BY <2>4, <4>1, <4>2
        <4> QED
          BY <1>2, <3>0, <3>4, <4>1, <4>2, <4>3 DEF CallStays, IoInv, IoLocks
      <3>8. CASE /\ request' = [r EXCEPT !.io_scount = IoCount(r)]
                 /\ drive' = DriveRest(n) /\ Multi # 0 /\ Multi - n > 0
        <4>1. ~(drive.left > n)
          BY <1>n, <1>2, <2>1, <2>n, <3>8
        <4>2. PICK k \in 0 .. r.scount : k = IoCount(r)
          BY <2>3, <3>6
        <4> QED
          BY <1>2, <2>6, <3>0, <3>4, <3>8, <4>1, <4>2 DEF CallStays, IoInv, IoLocks
      <3> HIDE DEF Command
      <3>9. \/ request' = r /\ drive' = DriveRest(n)
            \/ Command(r)
            \/ /\ request' = [r EXCEPT !.io_scount = IoCount(r)]
               /\ drive' = DriveRest(n) /\ Multi # 0 /\ Multi - n > 0
        BY <1>5, <2>1, <2>2, <2>8 DEF IdeInterrupt
      <3> QED
        BY <3>5, <3>7, <3>8, <3>9
    <2>9. \/ Finished(r) /\ IdeIoDone(r) /\ drive' = DriveRest(n)
          \/ ~Finished(r) /\ UNCHANGED <<sema, iolocal>>
      BY <1>5, <2>1, <2>2 DEF IdeInterrupt
    <2> QED
      BY <2>7, <2>8, <2>9
  <1> QED
    BY <1>4, <1>5 DEF Handler

(* A thread goes into ide_io(), for itself or for bread() ...              *)
LEMMA CallKeeps ==
  ASSUME Threads = {Console}, IoInv, pc[Console] = "idle",
         NEW r \in Nat \X (0 .. MaxCount), NEW to \in {"done", "fill"},
         ask' = [ask EXCEPT ![Console] = r], mem' = [mem EXCEPT ![Console] = Empty],
         pc' = [pc EXCEPT ![Console] = "ide_io"], ret' = [ret EXCEPT ![Console] = to],
         ok' \in [Threads -> BOOLEAN], UNCHANGED <<sema, request, drive>>
  PROVE  IoInv'
  <1>0. Console \in Threads /\ {Size, MaxCount} \subseteq Nat
    BY IdeAssumption
  <1>1. /\ pc'[Console] = "ide_io" /\ ret'[Console] = to /\ mem'[Console] = Empty
        /\ ide_lock' = ide_lock /\ busy' = busy /\ busy_q' = busy_q
        /\ request' = request /\ drive' = drive
    BY <1>0 DEF IoInv, IoShapes, sema
  <1>2. Empty \in [0 .. MaxCount - 1 -> Junk .. Size]
    BY <1>0 DEF Empty, Junk
  <1>3. IoShapes'
    BY <1>1, <1>2 DEF IoInv, IoShapes, IoLabels
  <1>4. ~InFlight /\ ~InFlight'
    BY <1>1 DEF InFlight
  <1>5. IoLocks'
    BY <1>1, <1>4 DEF IoInv, IoLocks
  <1>6. IoRequest' /\ IoResult'
    BY <1>1, <1>4 DEF IoInv, IoRequest, IoResult
  <1> QED
    BY <1>3, <1>5, <1>6 DEF IoInv

(* ... and has used what it got.                                           *)
LEMMA FinishKeeps ==
  ASSUME Threads = {Console}, IoInv, pc[Console] \in {"done", "fill"},
         pc' = [pc EXCEPT ![Console] = "idle"], ret' = [ret EXCEPT ![Console] = "idle"],
         ask' = [ask EXCEPT ![Console] = <<0, 0>>],
         ok' = [ok EXCEPT ![Console] = FALSE], mem' = [mem EXCEPT ![Console] = Empty],
         UNCHANGED <<sema, request, drive>>
  PROVE  IoInv'
  <1>0. Console \in Threads /\ {Size, MaxCount} \subseteq Nat
    BY IdeAssumption
  <1>1. /\ pc'[Console] = "idle" /\ ret'[Console] = "idle" /\ mem'[Console] = Empty
        /\ ide_lock' = ide_lock /\ busy' = busy /\ busy_q' = busy_q
        /\ request' = request /\ drive' = drive
    BY <1>0 DEF IoInv, IoShapes, sema
  <1>2. Empty \in [0 .. MaxCount - 1 -> Junk .. Size] /\ <<0, 0>> \in Nat \X (0 .. MaxCount)
    BY <1>0 DEF Empty, Junk
  <1>3. IoShapes'
    BY <1>1, <1>2 DEF IoInv, IoShapes, IoLabels
  <1>4. ~InFlight /\ ~InFlight'
    BY <1>1 DEF InFlight
  <1>5. IoLocks'
    BY <1>1, <1>4 DEF IoInv, IoLocks
  <1>6. IoRequest' /\ IoResult'
    BY <1>1, <1>4 DEF IoInv, IoRequest, IoResult
  <1> QED
    BY <1>3, <1>5, <1>6 DEF IoInv

(* Every step of the cache and the driver keeps the driver's invariant.    *)
LEMMA NextKeepsIo ==
  ASSUME Threads = {Console}, IoInv, [BNext]_bvars
  PROVE  IoInv'
  <1>0. /\ Console \in Threads /\ {Start, BlkSectors} \subseteq Nat
        /\ BlkSectors \in 1 .. MaxCount /\ Blks \subseteq Nat /\ {Size, MaxCount} \subseteq Nat
        /\ Requests \subseteq Nat \X (0 .. MaxCount)
    BY IdeAssumption, BufAssumption
  <1>1. ASSUME UNCHANGED vars PROVE IoInv'
    BY <1>1 DEF vars, sema, iolocal, IoInv, IoShapes, IoLocks, IoRequest, IoResult, InFlight
  <1>2. ASSUME NEW x, NEW b \in Blks, NEW read, pc[Console] = "idle", Got(x, b, read)
        PROVE  IoInv'
    <2>1. CASE UNCHANGED <<vars, bh>>
      BY <1>1, <2>1
    <2>2. CASE /\ ask' = [ask EXCEPT ![Console] = <<Start + b * BlkSectors, BlkSectors>>]
               /\ mem' = [mem EXCEPT ![Console] = Empty]
               /\ pc' = [pc EXCEPT ![Console] = "ide_io"]
               /\ ret' = [ret EXCEPT ![Console] = "fill"]
               /\ UNCHANGED <<sema, request, drive, ok>>
      <3>1. <<Start + b * BlkSectors, BlkSectors>> \in Nat \X (0 .. MaxCount)
        <4>1. Start \in Nat /\ b \in Nat /\ BlkSectors \in Nat /\ BlkSectors \in 0 .. MaxCount
          BY <1>0
        <4>2. Start + b * BlkSectors \in Nat
          BY <4>1
        <4> QED
          BY <4>1, <4>2
      <3>2. ok' \in [Threads -> BOOLEAN] /\ UNCHANGED <<sema, request, drive>>
        BY <2>2 DEF IoInv, IoShapes
      <3>3. PICK r \in Nat \X (0 .. MaxCount) : r = <<Start + b * BlkSectors, BlkSectors>>
        BY <3>1
      <3>4. ask' = [ask EXCEPT ![Console] = r]
        BY <2>2, <3>3
      <3> QED
        BY <1>2, <2>2, <3>2, <3>4, CallKeeps
    <2> QED
      BY <1>2, <2>1, <2>2 DEF Got
  <1>3. ASSUME NEW b \in Blks, BreadFound(b) PROVE IoInv'
    BY <1>2, <1>3 DEF BreadFound, MayRead
  <1>4. ASSUME NEW b \in Blks, BreadFree(b) \/ Astray(b) PROVE IoInv'
    BY <1>1, <1>2, <1>4 DEF BreadFree, Astray, MayRead
  <1>5. CASE BreadFilled
    <2>1. UNCHANGED <<sema, request, drive>>
      BY <1>5 DEF BreadFilled
    <2> QED
      BY <1>5, <2>1, FinishKeeps DEF BreadFilled
  <1>6. ASSUME NEW x \in Bufs, Brelse(x) \/ LsReturns(x) PROVE IoInv'
    BY <1>1, <1>6 DEF Brelse, LsReturns
  <1>7. CASE Remount
    BY <1>1, <1>7 DEF Remount
  <1>8. CASE Handler
    BY <1>8, HandlerKeeps
  <1>9. ASSUME NEW t \in Threads, IoStep(t) \/ Call(t) \/ Done(t) PROVE IoInv'
    <2>1. t = Console
      OBVIOUS
    <2>2. CASE IoStep(t)
      BY <2>1, <2>2, IoStepKeeps
    <2>3. CASE Call(t)
      <3>1. PICK r \in Requests : ask' = [ask EXCEPT ![Console] = r]
        BY <2>1, <2>3 DEF Call
      <3>2. r \in Nat \X (0 .. MaxCount) /\ ok' \in [Threads -> BOOLEAN]
        BY <1>0, <2>1, <2>3 DEF Call, IoInv, IoShapes
      <3>3. /\ pc[Console] = "idle" /\ mem' = [mem EXCEPT ![Console] = Empty]
            /\ pc' = [pc EXCEPT ![Console] = "ide_io"] /\ ret' = [ret EXCEPT ![Console] = "done"]
            /\ UNCHANGED <<sema, request, drive>>
        BY <2>1, <2>3 DEF Call
      <3> QED
        BY <3>1, <3>2, <3>3, CallKeeps
    <2>4. CASE Done(t)
      BY <2>1, <2>4, FinishKeeps DEF Done
    <2> QED
      BY <1>9, <2>2, <2>3, <2>4
  <1> QED
    BY <1>1, <1>3, <1>4, <1>5, <1>6, <1>7, <1>8, <1>9 DEF BNext, bvars

(* Whatever the geometry of the disk and the number of sectors it moves at *)
(* an interrupt: what ide_io() reports as read is in its place, sector by  *)
(* sector, and the handler goes on where the drive is (ide.c:202-251,      *)
(* 317-411).                                                               *)
THEOREM ReadsStaySound ==
  ASSUME Threads = {Console}
  PROVE  BSpec => []ReadsSound
  <1>1. BInit => IoInv
    BY InitIoInv DEF BInit
  <1>2. IoInv /\ [BNext]_bvars => IoInv'
    BY NextKeepsIo
  <1>3. IoInv => ReadsSound
    BY IoInvIsSound
  <1> QED
    BY <1>1, <1>2, <1>3, PTL DEF BSpec

-----------------------------------------------------------------------------
(* on has the buffers of each slot's chain: those that stand for a block of*)
(* the slot; of the ones for block 0 of device 0, maybe some only.         *)
Sits(on) ==
  /\ on \in [Slots -> SUBSET Bufs]
  /\ \A h \in Slots, x \in Bufs :
       /\ x \in on[h] => dev[x] = Dev /\ Hash[<<dev[x], blk[x]>>] = h
       /\ dev[x] = Dev /\ Hash[<<dev[x], blk[x]>>] = h /\ ~Odd(x) => x \in on[h]

(* Links in both directions that go round nowhere.                         *)
Linked(nx, pv, rank) ==
  /\ \A x, y \in Bufs : nx[x] = y <=> pv[y] = x
  /\ \A x \in Bufs : nx[x] # Null => rank[nx[x]] < rank[x]

(* The chains of the slots have the buffers that on says.  Buffers that    *)
(* are on no chain may be linked among each other: a remount leaves them so.*)
Chained(nx, pv, ht, on) ==
  /\ nx \in [Bufs -> Bufs \cup {Null}] /\ pv \in [Bufs -> Bufs \cup {Null}]
  /\ ht \in [Slots -> Bufs \cup {Null}]
  /\ \A h \in Slots :
       /\ IsChain(ht[h], nx, Null, Bufs, on[h])
       /\ ht[h] # Null => pv[ht[h]] = Null
  /\ \E rank \in [Bufs -> Nat] : Linked(nx, pv, rank)

BufShapes ==
  /\ dev \in [Bufs -> {0, Dev}] /\ blk \in [Bufs -> {0} \cup Blks]
  /\ flags \in [Bufs -> 0 .. 1] /\ DOMAIN data = Bufs
  /\ next \in Links /\ prev \in Links /\ hash_table \in [Slots -> Bufs \cup {Null}]
  /\ next_free \in [Bufs -> Bufs \cup {Null}] /\ prev_free \in [Bufs -> Bufs \cup {Null}]
  /\ free_list \in Bufs /\ bh \in Bufs \cup {Null} /\ held \subseteq Bufs /\ lost \subseteq Bufs
  /\ tidy \in BOOLEAN /\ astray \in BOOLEAN

(* What holds of the chains if the heads' page held links in order.        *)
HashLists ==
  tidy =>
    /\ ~astray
    /\ \E on : Sits(on) /\ Chained(next, prev, hash_table, on)
    /\ \A x, y \in Bufs :
         dev[x] = Dev /\ dev[y] = Dev /\ blk[x] = blk[y] /\ ~Odd(x) => x = y

(* q is the free list: of the buffers nobody has.  It goes round as soon   *)
(* as a buffer has been taken, and before that all chains are empty.       *)
FreeIs(q) ==
  /\ q \in Seq(Bufs) /\ IsRing(q, free_list, next_free, prev_free, Null)
  /\ Members(q) = Bufs \ Taken
  /\ next_free[q[Len(q)]] = Null => \A h \in Slots : hash_table[h] = Null

FreeLists ==
  /\ \E q : FreeIs(q)
  /\ \A x \in Taken : next_free[x] = Null /\ prev_free[x] = Null

(* Who has a buffer, and what the buffer is to him.                        *)
Users ==
  /\ bh # Null <=> ret[Console] = "fill"
  /\ held \cap lost = {} /\ bh \notin held
  /\ Cardinality(held) <= MaxHold /\ (bh # Null => Cardinality(held) < MaxHold)
  /\ Cardinality(lost \cup ({bh} \ {Null})) <= MaxLost
  /\ \A x \in Taken : dev[x] = Dev
  /\ bh # Null => /\ flags[bh] = 0
                  /\ ask[Console] = <<Start + blk[bh] * BlkSectors, BlkSectors>>

BufInv == BufShapes /\ HashLists /\ FreeLists /\ Users /\ DataFresh

-----------------------------------------------------------------------------
(* What the assumptions say of the constants of the cache.                 *)
LEMMA BufFacts ==
  /\ NBuf \in Nat /\ NBuf > 0 /\ Bufs \subseteq Nat /\ Null \notin Bufs
  /\ IsFiniteSet(Bufs) /\ Cardinality(Bufs) = NBuf
  /\ Wild \notin Bufs /\ Wild # Null
  /\ Dev \in Nat /\ 0 # Null /\ Null \notin Blks /\ Console \in Threads
  /\ \A d \in {0, Dev}, b \in {0} \cup Blks : Hash[<<d, b>>] \in Slots
  <1>1. /\ NBuf \in Nat /\ MaxHold \in Nat /\ MaxLost \in Nat /\ MaxHold + MaxLost < NBuf
        /\ Dev \in Nat /\ Blks \subseteq Nat /\ Console \in Threads
    BY BufAssumption
  <1>2. /\ NBuf > 0 /\ Bufs \subseteq Nat /\ Null \notin Bufs /\ Null \notin Blks
        /\ Wild \notin Bufs /\ Wild # Null /\ 0 # Null
    BY <1>1 DEF Bufs, Null, Wild
  <1>3. IsFiniteSet(Bufs) /\ Cardinality(Bufs) = NBuf
    <2>1. 0 \in Int /\ NBuf - 1 \in Int
      BY <1>1
    <2>2. IsFiniteSet(0 .. NBuf - 1)
          /\ Cardinality(0 .. NBuf - 1) = IF 0 > NBuf - 1 THEN 0 ELSE NBuf - 1 - 0 + 1
      BY <2>1, FS_Interval
    <2> QED
      BY <1>1, <1>2, <2>2 DEF Bufs
  <1>4. \A d \in {0, Dev}, b \in {0} \cup Blks : Hash[<<d, b>>] \in Slots
    BY BufAssumption
  <1> QED
    BY <1>1, <1>2, <1>3, <1>4

(* buf_remove_hash(): a buffer leaves its chain, or the other buffers a    *)
(* remount left it linked with, wherever among them it is.                 *)
LEMMA HashRemoved ==
  ASSUME BufShapes, NEW OnSlot, Sits(OnSlot), Chained(next, prev, hash_table, OnSlot),
         NEW x \in Bufs
  PROVE  LET c == RemoveHash(x)  on == [h \in Slots |-> OnSlot[h] \ {x}] IN
         /\ Chained(c.next, c.prev, c.hash_table, on)
         /\ c.next[x] = Null /\ c.prev[x] = Null
  <1> DEFINE on == [h \in Slots |-> OnSlot[h] \ {x}]
  <1>1. /\ next \in [Bufs -> Bufs \cup {Null}] /\ prev \in [Bufs -> Bufs \cup {Null}]
        /\ hash_table \in [Slots -> Bufs \cup {Null}]
        /\ \A h \in Slots : /\ IsChain(hash_table[h], next, Null, Bufs, OnSlot[h])
                            /\ hash_table[h] # Null => prev[hash_table[h]] = Null
    BY DEF Chained
  <1>2. PICK rank \in [Bufs -> Nat] : Linked(next, prev, rank)
    BY DEF Chained
  <1>3. /\ \A y, z \in Bufs : next[y] = z <=> prev[z] = y
        /\ \A y \in Bufs : next[y] # Null => rank[next[y]] < rank[y]
    BY <1>2 DEF Linked
  <1>n. Null \notin Bufs
    BY BufFacts
  <1>4. PICK k \in Slots : k = Hash[<<dev[x], blk[x]>>]
    BY BufFacts DEF BufShapes
  <1>5. PICK p \in Bufs \cup {Null} : p = prev[x]
    BY <1>1
  <1>6. PICK n \in Bufs \cup {Null} : n = next[x]
    BY <1>1
  <1>7. /\ p # x /\ n # x /\ (p # Null => p # n)
        /\ p # Null => next[p] = x /\ rank[x] < rank[p] /\ rank[x] \in Nat /\ rank[p] \in Nat
        /\ n # Null => prev[n] = x /\ rank[n] < rank[x] /\ rank[n] \in Nat /\ rank[x] \in Nat
    <2>1. p # Null => next[p] = x /\ rank[x] < rank[p] /\ rank[x] \in Nat /\ rank[p] \in Nat
      BY <1>3, <1>5, <1>n
    <2>2. n # Null => prev[n] = x /\ rank[n] < rank[x] /\ rank[n] \in Nat /\ rank[x] \in Nat
      BY <1>3, <1>6, <1>n
    <2>3. p # x /\ n # x
      BY <1>n, <2>1, <2>2
    <2>4. p # Null => p # n
      BY <2>1, <2>2
    <2> QED
      BY <2>1, <2>2, <2>3, <2>4
  <1>8. PICK pv \in [Bufs -> Bufs \cup {Null}] :
          pv = Set(prev, n, p) /\ \A y \in Bufs : pv[y] = IF y = n THEN p ELSE prev[y]
    <2>1. /\ Set(prev, n, p) \in [Bufs -> Bufs \cup {Null}]
          /\ \A y \in Bufs : Set(prev, n, p)[y] = IF y = n THEN p ELSE prev[y]
      <3>1. /\ prev \in [Bufs -> Bufs \cup {Null}]
            /\ n \in Bufs \cup {Null} /\ p \in Bufs \cup {Null}
        BY <1>1
      <3> QED
        BY <3>1, BufFacts DEF Set
    <2> QED
      BY <2>1
  <1>9. PICK nx \in [Bufs -> Bufs \cup {Null}] :
          nx = Set(next, p, n) /\ \A y \in Bufs : nx[y] = IF y = p THEN n ELSE next[y]
    <2>1. /\ Set(next, p, n) \in [Bufs -> Bufs \cup {Null}]
          /\ \A y \in Bufs : Set(next, p, n)[y] = IF y = p THEN n ELSE next[y]
      <3>1. /\ next \in [Bufs -> Bufs \cup {Null}]
            /\ p \in Bufs \cup {Null} /\ n \in Bufs \cup {Null}
        BY <1>1
      <3> QED
        BY <3>1, BufFacts DEF Set
    <2> QED
      BY <2>1
  <1>10. PICK pv_2, nx_2, ht_2 :
           /\ pv_2 = [pv EXCEPT ![x] = Null] /\ nx_2 = [nx EXCEPT ![x] = Null]
           /\ ht_2 = IF hash_table[k] = x THEN [hash_table EXCEPT ![k] = nx[x]] ELSE hash_table
    OBVIOUS
  <1>11. RemoveHash(x) = [next |-> nx_2, prev |-> pv_2, hash_table |-> ht_2]
    <2>1. pv[x] = p
      BY <1>5, <1>7, <1>8
    <2> QED
      BY <1>4, <1>5, <1>6, <1>8, <1>9, <1>10, <2>1 DEF RemoveHash
  <1>12. /\ \A y \in Bufs : nx_2[y] = IF y = x THEN Null ELSE IF y = p THEN n ELSE next[y]
         /\ \A y \in Bufs : pv_2[y] = IF y = x THEN Null ELSE IF y = n THEN p ELSE prev[y]
         /\ nx_2 \in [Bufs -> Bufs \cup {Null}] /\ pv_2 \in [Bufs -> Bufs \cup {Null}]
         /\ ht_2 \in [Slots -> Bufs \cup {Null}]
         /\ \A h \in Slots : ht_2[h] = IF h = k /\ hash_table[k] = x THEN n ELSE hash_table[h]
    <2>1. nx[x] = n
      BY <1>6, <1>7, <1>9
    <2> QED
      BY <1>1, <1>8, <1>9, <1>10, <2>1
  <1>13. Linked(nx_2, pv_2, rank)
    <2>1. ASSUME NEW y \in Bufs, NEW z \in Bufs PROVE nx_2[y] = z <=> pv_2[z] = y
      BY <1>n, <1>3, <1>5, <1>6, <1>7, <1>12
    <2>2. ASSUME NEW y \in Bufs, nx_2[y] # Null PROVE rank[nx_2[y]] < rank[y]
      <3>1. CASE y = x
        BY <1>12, <2>2, <3>1
      <3>2. CASE y # x /\ y = p
        <4>1. nx_2[y] = n /\ n # Null /\ p # Null
          BY <1>n, <1>12, <2>2, <3>2
        <4> QED
          BY <1>7, <3>2, <4>1
      <3>3. CASE y # x /\ y # p
        BY <1>3, <1>12, <2>2, <3>3
      <3> QED
        BY <3>1, <3>2, <3>3
    <2> QED
      BY <2>1, <2>2 DEF Linked
  <1>14. ASSUME NEW h \in Slots
         PROVE  /\ IsChain(ht_2[h], nx_2, Null, Bufs, OnSlot[h] \ {x})
                /\ ht_2[h] # Null => pv_2[ht_2[h]] = Null
    <2>1. PICK M : M = OnSlot[h]
      OBVIOUS
    <2>2. PICK first \in Bufs \cup {Null} : first = hash_table[h]
      BY <1>1
    <2>3. IsChain(first, next, Null, Bufs, M) /\ (first # Null => prev[first] = Null)
      BY <1>1, <2>1, <2>2
    <2>4. /\ M \subseteq Bufs /\ (first # Null => first \in M)
          /\ \A y \in M : next[y] \in (M \cup {Null}) \ {y, first}
      BY <2>3, ChainFacts
    <2>5. x \in M => h = k
      BY <1>4, <2>1 DEF Sits
    <2>6. CASE x \notin M
      <3>1. first # x /\ (first # Null => first # n)
        BY <1>7, <2>4, <2>6, <2>3, <1>n
      <3>2. ht_2[h] = first
        BY <1>12, <2>2, <3>1
      <3>3. p \notin M
        BY <1>7, <1>n, <2>4, <2>6
      <3>4. \A y \in M : nx_2[y] = next[y]
        BY <1>12, <2>4, <2>6, <3>3
      <3>5. IsChain(first, nx_2, Null, Bufs, M)
        BY <2>3, <3>4, ChainSame
      <3>6. M \ {x} = M
        BY <2>6
      <3>7. first # Null => pv_2[first] = Null
        BY <1>12, <2>3, <2>4, <3>1
      <3> QED
        BY <2>1, <3>2, <3>5, <3>6, <3>7
    <2>7. CASE x \in M /\ x = first
      <3>1. ht_2[h] = n /\ first # Null /\ p = Null
        BY <1>n, <1>5, <1>12, <2>2, <2>3, <2>5, <2>7
      <3>2. \A y \in M \ {first} : nx_2[y] = next[y]
        BY <1>12, <1>n, <2>4, <2>7, <3>1
      <3>3. IsChain(next[first], nx_2, Null, Bufs, M \ {first})
        BY <2>3, <3>1, <3>2, ChainPop
      <3>4. n # Null => pv_2[n] = Null
        BY <1>7, <1>12, <3>1
      <3> QED
        BY <1>6, <2>1, <2>7, <3>1, <3>3, <3>4
    <2>8. CASE x \in M /\ x # first
      <3>1. PICK r \in M : next[r] = x
        BY <2>3, <2>8, ChainPredecessor
      <3>2. r = p /\ p # Null /\ p \in M /\ next[p] = x
        BY <1>3, <1>5, <1>n, <2>4, <3>1
      <3>3. ht_2[h] = first
        BY <1>12, <2>2, <2>5, <2>8
      <3>4. nx_2[p] = next[x] /\ \A y \in M \ {x, p} : nx_2[y] = next[y]
        BY <1>6, <1>7, <1>12, <2>4, <3>2
      <3>5. IsChain(first, nx_2, Null, Bufs, M \ {x})
        BY <2>3, <2>8, <3>2, <3>4, ChainCut
      <3>6. first # n
        BY <1>6, <2>4, <2>8
      <3>7. first # Null => pv_2[first] = Null
        BY <1>12, <2>3, <2>4, <2>8, <3>6
      <3> QED
        BY <2>1, <3>3, <3>5, <3>7
    <2> QED
      BY <2>6, <2>7, <2>8
  <1>15. \A h \in Slots : on[h] = OnSlot[h] \ {x}
    OBVIOUS
  <1> HIDE DEF on
  <1>16. Chained(nx_2, pv_2, ht_2, on)
    <2>1. \A h \in Slots : /\ IsChain(ht_2[h], nx_2, Null, Bufs, on[h])
                           /\ ht_2[h] # Null => pv_2[ht_2[h]] = Null
      <3> SUFFICES ASSUME NEW h \in Slots
                   PROVE  /\ IsChain(ht_2[h], nx_2, Null, Bufs, on[h])
                          /\ ht_2[h] # Null => pv_2[ht_2[h]] = Null
        OBVIOUS
      <3>1. on[h] = OnSlot[h] \ {x}
        BY <1>15
      <3> QED
        BY <1>14, <3>1
    <2> QED
      BY <1>12, <1>13, <2>1 DEF Chained
  <1> QED
    BY <1>11, <1>12, <1>16 DEF on

(* buf_insert_hash(): a buffer that is linked with none goes on a chain.   *)
LEMMA HashInserted ==
  ASSUME NEW nx, NEW pv, NEW ht, NEW on, NEW x \in Bufs, NEW k \in Slots,
         Chained(nx, pv, ht, on), nx[x] = Null, pv[x] = Null,
         DOMAIN on = Slots, \A h \in Slots : x \notin on[h],
         \A h, i \in Slots : h # i => on[h] \cap on[i] = {},
         NEW c, c = [next |-> nx, prev |-> pv, hash_table |-> ht]
  PROVE  LET d == InsertHash(c, x, k) IN
         Chained(d.next, d.prev, d.hash_table, [on EXCEPT ![k] = @ \cup {x}])
  <1> DEFINE on_2 == [on EXCEPT ![k] = @ \cup {x}]
  <1>1. /\ nx \in [Bufs -> Bufs \cup {Null}] /\ pv \in [Bufs -> Bufs \cup {Null}]
        /\ ht \in [Slots -> Bufs \cup {Null}]
        /\ \A h \in Slots : /\ IsChain(ht[h], nx, Null, Bufs, on[h])
                            /\ ht[h] # Null => pv[ht[h]] = Null
    BY DEF Chained
  <1>2. PICK rank \in [Bufs -> Nat] : Linked(nx, pv, rank)
    BY DEF Chained
  <1>3. /\ \A y, z \in Bufs : nx[y] = z <=> pv[z] = y
        /\ \A y \in Bufs : nx[y] # Null => rank[nx[y]] < rank[y]
    BY <1>2 DEF Linked
  <1>n. Null \notin Bufs
    BY BufFacts
  <1>4. PICK o \in Bufs \cup {Null} : o = ht[k]
    BY <1>1
  <1>5. \A h \in Slots : /\ on[h] \subseteq Bufs /\ (ht[h] # Null => ht[h] \in on[h])
                         /\ ht[h] # x
    <2> SUFFICES ASSUME NEW h \in Slots
                 PROVE  on[h] \subseteq Bufs /\ (ht[h] # Null => ht[h] \in on[h]) /\ ht[h] # x
      OBVIOUS
    <2>1. PICK first : first = ht[h]
      OBVIOUS
    <2>2. IsChain(first, nx, Null, Bufs, on[h])
      BY <1>1, <2>1
    <2>3. on[h] \subseteq Bufs /\ (first # Null => first \in on[h])
      BY <2>2, ChainFacts
    <2> QED
      BY <1>n, <2>1, <2>3
  <1>6. PICK pv_2 \in [Bufs -> Bufs \cup {Null}] :
          pv_2 = Set(pv, o, x) /\ \A y \in Bufs : pv_2[y] = IF y = o THEN x ELSE pv[y]
    <2>1. /\ Set(pv, o, x) \in [Bufs -> Bufs \cup {Null}]
          /\ \A y \in Bufs : Set(pv, o, x)[y] = IF y = o THEN x ELSE pv[y]
      <3>1. /\ pv \in [Bufs -> Bufs \cup {Null}]
            /\ o \in Bufs \cup {Null} /\ x \in Bufs \cup {Null}
        BY <1>1
      <3> QED
        BY <3>1, BufFacts DEF Set
    <2> QED
      BY <2>1
  <1>7. PICK nx_2 \in [Bufs -> Bufs \cup {Null}] :
          nx_2 = [nx EXCEPT ![x] = o] /\ \A y \in Bufs : nx_2[y] = IF y = x THEN o ELSE nx[y]
    <2>1. PICK f : f = [nx EXCEPT ![x] = o]
      OBVIOUS
    <2>2. f \in [Bufs -> Bufs \cup {Null}] /\ \A y \in Bufs : f[y] = IF y = x THEN o ELSE nx[y]
      BY <1>1, <2>1
    <2> QED
      BY <2>1, <2>2
  <1>8. PICK ht_2 \in [Slots -> Bufs \cup {Null}] :
          ht_2 = [ht EXCEPT ![k] = x] /\ \A h \in Slots : ht_2[h] = IF h = k THEN x ELSE ht[h]
    <2>1. PICK f : f = [ht EXCEPT ![k] = x]
      OBVIOUS
    <2>2. f \in [Slots -> Bufs \cup {Null}] /\ \A h \in Slots : f[h] = IF h = k THEN x ELSE ht[h]
      BY <1>1, <2>1
    <2> QED
      BY <2>1, <2>2
  <1>9. InsertHash(c, x, k) = [next |-> nx_2, prev |-> pv_2, hash_table |-> ht_2]
    BY <1>4, <1>6, <1>7, <1>8 DEF InsertHash
  <1>10. PICK rank_2 \in [Bufs -> Nat] :
           \A y \in Bufs : rank_2[y] = IF y = x THEN IF o = Null THEN 0 ELSE rank[o] + 1 ELSE rank[y]
    <2>1. (IF o = Null THEN 0 ELSE rank[o] + 1) \in Nat
      BY <1>n
    <2>2. [y \in Bufs |-> IF y = x THEN IF o = Null THEN 0 ELSE rank[o] + 1 ELSE rank[y]]
            \in [Bufs -> Nat]
      BY <2>1
    <2> QED
      BY <2>2
  <1>11. o # x
    BY <1>4, <1>5
  <1>12. o # Null => pv[o] = Null
    BY <1>1, <1>4
  <1>13. Linked(nx_2, pv_2, rank_2)
    <2>1. ASSUME NEW y \in Bufs, NEW z \in Bufs PROVE nx_2[y] = z <=> pv_2[z] = y
      <3>1. nx[y] = z <=> pv[z] = y
        BY <1>3
      <3>2. z = o => pv[z] = Null
        BY <1>12, <1>n
      <3> QED
        BY <1>n, <1>6, <1>7, <1>11, <3>1, <3>2
    <2>2. ASSUME NEW y \in Bufs, nx_2[y] # Null PROVE rank_2[nx_2[y]] < rank_2[y]
      <3>1. CASE y = x
        <4>1. nx_2[y] = o /\ o # Null /\ o \in Bufs
          BY <1>7, <2>2, <3>1
        <4>2. rank_2[o] = rank[o] /\ rank_2[y] = rank[o] + 1 /\ rank[o] \in Nat
          BY <1>10, <1>11, <3>1, <4>1
        <4> QED
          BY <4>1, <4>2
      <3>2. CASE y # x
        <4>1. nx_2[y] = nx[y] /\ nx[y] \in Bufs
          BY <1>1, <1>7, <2>2, <3>2
        <4>2. nx[y] # x
          BY <1>3, <1>n
        <4> QED
          BY <1>3, <1>10, <1>n, <3>2, <4>1, <4>2
      <3> QED
        BY <3>1, <3>2
    <2> QED
      BY <2>1, <2>2 DEF Linked
  <1>14. ASSUME NEW h \in Slots
         PROVE  /\ IsChain(ht_2[h], nx_2, Null, Bufs, on_2[h])
                /\ ht_2[h] # Null => pv_2[ht_2[h]] = Null
    <2>1. PICK M : M = on[h]
      OBVIOUS
    <2>2. PICK first : first = ht[h]
      OBVIOUS
    <2>3. IsChain(first, nx, Null, Bufs, M) /\ (first # Null => pv[first] = Null)
      BY <1>1, <2>1, <2>2
    <2>4. x \notin M /\ \A y \in M : nx_2[y] = nx[y]
      BY <1>5, <1>7, <2>1
    <2>5. CASE h = k
      <3>1. nx_2[x] = first
        BY <1>4, <1>7, <2>2, <2>5
      <3>2. IsChain(x, nx_2, Null, Bufs, M \cup {x})
        BY <1>n, <2>3, <2>4, <3>1, ChainPush
      <3>3. on_2[h] = M \cup {x} /\ ht_2[h] = x
        BY <1>8, <2>1, <2>5
      <3>4. pv_2[x] = Null
        BY <1>6, <1>11
      <3> QED
        BY <3>2, <3>3, <3>4
    <2>6. CASE h # k
      <3>1. on_2[h] = M /\ ht_2[h] = first
        BY <1>8, <2>1, <2>2, <2>6
      <3>2. IsChain(first, nx_2, Null, Bufs, M)
        BY <2>3, <2>4, ChainSame
      <3>3. first # Null => first \in on[h] /\ first # o /\ first \in Bufs
        BY <1>4, <1>5, <2>2, <2>6
      <3>4. first # Null => pv_2[first] = Null
        BY <1>6, <2>3, <3>3
      <3> QED
        BY <3>1, <3>2, <3>4
    <2> QED
      BY <2>5, <2>6
  <1> HIDE DEF on_2
  <1>15. Chained(nx_2, pv_2, ht_2, on_2)
    BY <1>6, <1>7, <1>8, <1>13, <1>14 DEF Chained
  <1> QED
    BY <1>9, <1>15 DEF on_2

(* The links that a look-up and a change of chain leave are of their kind, *)
(* whatever the page of the heads held: no stale link gets into a slot.    *)
LEMMA HashShapes ==
  ASSUME BufShapes, NEW x \in Bufs, ~(Wild \in {next[x], prev[x]}), NEW k \in Slots
  PROVE  LET d == InsertHash(RemoveHash(x), x, k) IN
         /\ d.next \in Links /\ d.prev \in Links
         /\ d.hash_table \in [Slots -> Bufs \cup {Null}]
  <1>1. /\ next \in [Bufs -> Bufs \cup {Null, Wild}] /\ prev \in [Bufs -> Bufs \cup {Null, Wild}]
        /\ hash_table \in [Slots -> Bufs \cup {Null}]
    BY DEF BufShapes, Links
  <1>2. PICK n \in Bufs \cup {Null}, p \in Bufs \cup {Null} : n = next[x] /\ p = prev[x]
    BY <1>1
  <1>3. \A f \in [Bufs -> Bufs \cup {Null, Wild}], y \in Bufs \cup {Null}, z \in Bufs \cup {Null} :
          Set(f, y, z) \in [Bufs -> Bufs \cup {Null, Wild}]
    BY DEF Set
  <1>4. PICK pv : pv = Set(prev, n, p)
    OBVIOUS
  <1>5. pv \in [Bufs -> Bufs \cup {Null, Wild}] /\ pv[x] = p
    <2>1. pv[x] = p
      BY <1>1, <1>2, <1>4 DEF Set
    <2> QED
      BY <1>1, <1>3, <1>4, <2>1
  <1>6. PICK nx : nx = Set(next, p, n)
    OBVIOUS
  <1>7. nx \in [Bufs -> Bufs \cup {Null, Wild}] /\ nx[x] = n
    <2>1. nx[x] = n
      BY <1>1, <1>2, <1>6 DEF Set
    <2> QED
      BY <1>1, <1>3, <1>6, <2>1
  <1>8. PICK c : c = RemoveHash(x)
    OBVIOUS
  <1>9. /\ c.next = [nx EXCEPT ![x] = Null] /\ c.prev = [pv EXCEPT ![x] = Null]
        /\ c.hash_table = IF hash_table[Hash[<<dev[x], blk[x]>>]] = x
                          THEN [hash_table EXCEPT ![Hash[<<dev[x], blk[x]>>]] = nx[x]]
                          ELSE hash_table
    BY <1>2, <1>4, <1>5, <1>6, <1>8 DEF RemoveHash
  <1>10. /\ c.next \in [Bufs -> Bufs \cup {Null, Wild}] /\ c.prev \in [Bufs -> Bufs \cup {Null, Wild}]
         /\ c.hash_table \in [Slots -> Bufs \cup {Null}]
    BY <1>1, <1>5, <1>7, <1>9
  <1>11. PICK o \in Bufs \cup {Null} : o = c.hash_table[k]
    BY <1>10
  <1>12. /\ InsertHash(c, x, k).next = [c.next EXCEPT ![x] = o]
         /\ InsertHash(c, x, k).prev = Set(c.prev, o, x)
         /\ InsertHash(c, x, k).hash_table = [c.hash_table EXCEPT ![k] = x]
    BY <1>11 DEF InsertHash
  <1>13. Set(c.prev, o, x) \in [Bufs -> Bufs \cup {Null, Wild}]
    BY <1>3, <1>10
  <1> QED
    BY <1>8, <1>10, <1>12, <1>13 DEF Links

(* buf_get_hash(): the walk along a chain meets each buffer of it once, and*)
(* ends.                                                                   *)
LEMMA ChainWalked ==
  ASSUME NEW h \in Slots, NEW M, IsChain(hash_table[h], next, Null, Bufs, M)
  PROVE  /\ \A x \in Bufs : Cardinality({i \in 0 .. NBuf : ChainAt(h)[i] = x})
                              = IF x \in M THEN 1 ELSE 0
         /\ {ChainAt(h)[i] : i \in 0 .. NBuf} \ {Null} = M
         /\ ChainAt(h)[NBuf] = Null
  <1> DEFINE At_[i \in 0 .. NBuf] ==
               IF i = 0 THEN hash_table[h]
               ELSE LET x == At_[i - 1] IN IF x = Null THEN Null ELSE After[x]
  <1>0. /\ NBuf \in Nat /\ Null \notin Bufs /\ Wild \notin Bufs
        /\ IsFiniteSet(Bufs) /\ Cardinality(Bufs) = NBuf
    BY BufFacts
  <1>1. M \subseteq Bufs
    BY ChainFacts
  <1>2. \A x \in M : After[x] = next[x]
    BY <1>0, <1>1 DEF After
  <1>3. IsChain(hash_table[h], After, Null, Bufs, M)
    BY <1>2, ChainSame
  <1>4. Cardinality(M) <= NBuf
    BY <1>0, <1>1, FS_Subset
  <1>5. ChainAt(h) = At_
    BY DEF ChainAt
  <1>6. /\ \E f : IsPath(f, NBuf, hash_table[h], After, Null)
        /\ \A f : IsPath(f, NBuf, hash_table[h], After, Null) =>
             {f[i] : i \in 0 .. NBuf} \ {Null} = M
    <2> HIDE DEF At_
    <2> QED
      BY <1>0, <1>3, <1>4, ChainPath
  <1>7. IsPath(At_, NBuf, hash_table[h], After, Null)
    BY <1>6 DEF IsPath
  <1> HIDE DEF At_
  <1>8. ASSUME NEW x \in Bufs
        PROVE  Cardinality({i \in 0 .. NBuf : At_[i] = x}) = IF x \in M THEN 1 ELSE 0
    BY <1>0, <1>3, <1>4, <1>7, ChainPathOnce
  <1>9. At_[NBuf] = Null
    BY <1>0, <1>3, <1>4, <1>7, ChainPathEnds
  <1> QED
    BY <1>5, <1>6, <1>7, <1>8, <1>9

(* buf_get_hash() returns one buffer at most, and that one names the block *)
(* and is on the chain of its slot.                                        *)
LEMMA FoundNames ==
  ASSUME NEW b \in Blks, NEW x \in Found(b)
  PROVE  /\ x \in Bufs /\ dev[x] = Dev /\ blk[x] = b /\ Found(b) = {x}
         /\ \E h \in Slots : hash_table[h] # Null
  <1>1. PICK h \in Slots : h = Hash[<<Dev, b>>]
    BY BufFacts
  <1>2. PICK i \in 0 .. NBuf :
          /\ x = ChainAt(h)[i] /\ x \in Bufs /\ Names(x, b)
          /\ \A k \in 0 .. i - 1 : ~(ChainAt(h)[k] \in Bufs /\ Names(ChainAt(h)[k], b))
    BY <1>1 DEF Found
  <1>3. ASSUME hash_table[h] = Null PROVE FALSE
    <2>1. IsChain(hash_table[h], next, Null, Bufs, {})
      BY <1>3, BufFacts, ChainEmpty
    <2>2. {ChainAt(h)[j] : j \in 0 .. NBuf} \ {Null} = {}
      BY <2>1, ChainWalked
    <2>3. x \in {ChainAt(h)[j] : j \in 0 .. NBuf} \ {Null}
      BY <1>2, BufFacts
    <2> QED
      BY <2>2, <2>3
  <1>4. ASSUME NEW y \in Found(b) PROVE y = x
    <2>1. PICK j \in 0 .. NBuf :
            /\ y = ChainAt(h)[j] /\ y \in Bufs /\ Names(y, b)
            /\ \A k \in 0 .. j - 1 : ~(ChainAt(h)[k] \in Bufs /\ Names(ChainAt(h)[k], b))
      BY <1>1, <1>4 DEF Found
    <2>2. NBuf \in Nat
      BY BufFacts
    <2>3. ~(i \in 0 .. j - 1) /\ ~(j \in 0 .. i - 1)
      BY <1>2, <2>1
    <2>4. i = j
      BY <2>2, <2>3
    <2> QED
      BY <1>2, <2>1, <2>4
  <1> QED
    BY <1>2, <1>3, <1>4 DEF Names

(* On links in order the look-up ends, and what it does not find is in no  *)
(* buffer that has been taken for it.                                      *)
LEMMA LookedUp ==
  ASSUME BufShapes, HashLists, tidy, NEW b \in Blks
  PROVE  /\ ChainAt(Hash[<<Dev, b>>])[NBuf] = Null
         /\ Found(b) = {} => \A y \in Bufs : Names(y, b) => Odd(y)
  <1>1. PICK h \in Slots : h = Hash[<<Dev, b>>]
    BY BufFacts
  <1>2. PICK on : Sits(on) /\ Chained(next, prev, hash_table, on)
    BY DEF HashLists
  <1>3. PICK M : M = on[h]
    OBVIOUS
  <1>4. IsChain(hash_table[h], next, Null, Bufs, M)
    BY <1>2, <1>3 DEF Chained
  <1>5. PICK at : at = ChainAt(h)
    OBVIOUS
  <1>6. {at[i] : i \in 0 .. NBuf} \ {Null} = M /\ at[NBuf] = Null
    <2>1. /\ {ChainAt(h)[i] : i \in 0 .. NBuf} \ {Null} = M
          /\ ChainAt(h)[NBuf] = Null
      BY <1>4, ChainWalked
    <2> QED
      BY <1>5, <2>1
  <1>7. ASSUME NEW y \in Bufs, Names(y, b), ~Odd(y) PROVE Found(b) # {}
    <2>1. y \in M
      BY <1>1, <1>2, <1>3, <1>7 DEF Sits, Names
    <2>2. PICK T : T = {j \in 0 .. NBuf : at[j] \in Bufs /\ Names(at[j], b)}
      OBVIOUS
    <2>3. T # {} /\ T \in SUBSET Nat
      <3>1. PICK i \in 0 .. NBuf : at[i] = y
        BY <1>6, <2>1
      <3>2. i \in T
        BY <1>7, <2>2, <3>1
      <3>3. NBuf \in Nat
        BY BufFacts
      <3> QED
        BY <2>2, <3>2, <3>3
    <2>4. PICK j \in T : \A k \in T : j <= k
      BY <2>3, LeastNat
    <2>5. j \in 0 .. NBuf /\ NBuf \in Nat
      BY <2>2, BufFacts
    <2>6. ASSUME NEW k \in 0 .. j - 1 PROVE ~(at[k] \in Bufs /\ Names(at[k], b))
      <3>1. k \in 0 .. NBuf /\ ~(j <= k)
        BY <2>5
      <3> QED
        BY <2>2, <2>4, <3>1
    <2>7. at[j] \in Found(b)
      BY <1>1, <1>5, <2>2, <2>5, <2>6 DEF Found
    <2> QED
      BY <2>7
  <1> QED
    BY <1>1, <1>5, <1>6, <1>7

(* The free list read off its links is the list.                           *)
LEMMA FreeSeqIs ==
  ASSUME NEW q, FreeIs(q)
  PROVE  FreeSeq = q
  <1> DEFINE Walk_[i \in 1 .. NBuf] ==
               IF i = 1 THEN <<free_list>>
               ELSE LET s == Walk_[i - 1]  x == next_free[s[Len(s)]] IN
                    IF x \in {Null, free_list} THEN s ELSE Append(s, x)
  <1>0. /\ NBuf \in Nat /\ Null \notin Bufs
        /\ IsFiniteSet(Bufs) /\ Cardinality(Bufs) = NBuf
    BY BufFacts
  <1>1. /\ q \in Seq(Bufs) /\ IsRing(q, free_list, next_free, prev_free, Null)
        /\ Distinct(q)
    BY DEF FreeIs, IsRing
  <1>2. Len(q) <= NBuf
    <2>1. IsFiniteSet(Members(q)) /\ Cardinality(Members(q)) = Len(q) /\ Members(q) \subseteq Bufs
      BY <1>1, DistinctLen
    <2> QED
      BY <1>0, <2>1, FS_Subset
  <1>3. FreeSeq = Walk_[NBuf]
    BY DEF FreeSeq
  <1>4. /\ \E f : IsGathering(f, NBuf, free_list, next_free, Null)
        /\ \A f : IsGathering(f, NBuf, free_list, next_free, Null) => f[NBuf] = q
    <2> HIDE DEF Walk_
    <2> QED
      BY <1>0, <1>1, <1>2, RingGathered
  <1>5. IsGathering(Walk_, NBuf, free_list, next_free, Null)
    BY <1>4 DEF IsGathering
  <1> HIDE DEF Walk_
  <1> QED
    BY <1>3, <1>4, <1>5

(* The same of the next state.                                             *)
LEMMA FreeSeqNext ==
  ASSUME NEW q, FreeIs(q)'
  PROVE  FreeSeq' = q
  <1> DEFINE Walk_[i \in 1 .. NBuf] ==
               IF i = 1 THEN <<free_list'>>
               ELSE LET s == Walk_[i - 1]  x == next_free'[s[Len(s)]] IN
                    IF x \in {Null, free_list'} THEN s ELSE Append(s, x)
  <1>0. /\ NBuf \in Nat /\ Null \notin Bufs
        /\ IsFiniteSet(Bufs) /\ Cardinality(Bufs) = NBuf
    BY BufFacts
  <1>1. /\ q \in Seq(Bufs) /\ IsRing(q, free_list', next_free', prev_free', Null)
        /\ Distinct(q)
    BY DEF FreeIs, IsRing
  <1>2. Len(q) <= NBuf
    <2>1. IsFiniteSet(Members(q)) /\ Cardinality(Members(q)) = Len(q) /\ Members(q) \subseteq Bufs
      BY <1>1, DistinctLen
    <2> QED
      BY <1>0, <2>1, FS_Subset
  <1>3. FreeSeq' = Walk_[NBuf]
    BY DEF FreeSeq
  <1>4. /\ \E f : IsGathering(f, NBuf, free_list', next_free', Null)
        /\ \A f : IsGathering(f, NBuf, free_list', next_free', Null) => f[NBuf] = q
    <2> HIDE DEF Walk_
    <2> QED
      BY <1>0, <1>1, <1>2, RingGathered
  <1>5. IsGathering(Walk_, NBuf, free_list', next_free', Null)
    BY <1>4 DEF IsGathering
  <1> HIDE DEF Walk_
  <1> QED
    BY <1>3, <1>4, <1>5

(* The invariant has what the runs check of the cache.                     *)
LEMMA BufInvIsSound ==
  ASSUME Threads = {Console}, IoInv, BufInv
  PROVE  BuffersSound /\ DataFresh
  <1>0. /\ BufShapes /\ HashLists /\ FreeLists
        /\ TypeOK
    BY IoInvIsSound DEF BufInv
  <1>1. BTypeOK
    BY <1>0 DEF BTypeOK, BufShapes
  <1>2. FreeRing
    <2>1. PICK q : FreeIs(q)
      BY <1>0 DEF FreeLists
    <2>2. FreeSeq = q
      BY <2>1, FreeSeqIs
    <2>3. /\ q \in Seq(Bufs) /\ Members(q) = Bufs \ Taken /\ Distinct(q) /\ free_list = q[1]
          /\ \A i \in 1 .. Len(q) - 1 : prev_free[q[i + 1]] = q[i]
          /\ prev_free[q[1]] = q[Len(q)]
      BY <2>1 DEF FreeIs, IsRing
    <2>4. Len(q) = Cardinality(Bufs \ Taken)
      BY <2>3, DistinctLen
    <2> QED
      BY <2>2, <2>3, <2>4 DEF FreeRing, Members
  <1>3. HashExact
    <2> SUFFICES ASSUME tidy, NEW h \in Slots, NEW x \in Bufs
                 PROVE  LET at == ChainAt(h)  chain == [i \in 0 .. NBuf |-> at[i]]
                            times == Cardinality({i \in 0 .. NBuf : chain[i] = x})
                        IN IF dev[x] = Dev /\ Hash[<<dev[x], blk[x]>>] = h
                           THEN times = 1 \/ (Odd(x) /\ times = 0)
                           ELSE times = 0
      BY DEF HashExact
    <2>1. PICK at : at = ChainAt(h)
      OBVIOUS
    <2>2. PICK on : Sits(on) /\ Chained(next, prev, hash_table, on)
      BY <1>0 DEF HashLists
    <2>3. IsChain(hash_table[h], next, Null, Bufs, on[h])
      BY <2>2 DEF Chained
    <2>4. Cardinality({i \in 0 .. NBuf : at[i] = x}) = IF x \in on[h] THEN 1 ELSE 0
      BY <2>1, <2>3, ChainWalked
    <2>5. /\ x \in on[h] => dev[x] = Dev /\ Hash[<<dev[x], blk[x]>>] = h
          /\ dev[x] = Dev /\ Hash[<<dev[x], blk[x]>>] = h /\ ~Odd(x) => x \in on[h]
      BY <2>2 DEF Sits
    <2>6. {i \in 0 .. NBuf : [j \in 0 .. NBuf |-> at[j]][i] = x} = {i \in 0 .. NBuf : at[i] = x}
      OBVIOUS
    <2> QED
      BY <2>1, <2>4, <2>5, <2>6
  <1>4. tidy => ~astray
    BY <1>0 DEF HashLists
  <1> QED
    BY <1>1, <1>2, <1>3, <1>4 DEF BuffersSound, BufInv

-----------------------------------------------------------------------------
(* buf_remove_free(): a buffer leaves the free list from wherever it is ... *)
LEMMA FreeTaken ==
  ASSUME BufShapes, NEW q, FreeIs(q), Len(q) > 1, NEW k \in 1 .. Len(q), NEW x, x = q[k],
         k = 1 \/ \E h \in Slots : hash_table[h] # Null
  PROVE  LET f == RemoveFree(x)  r == Omit(q, k) IN
         /\ f.next_free \in [Bufs -> Bufs \cup {Null}]
         /\ f.prev_free \in [Bufs -> Bufs \cup {Null}] /\ f.free_list \in Bufs
         /\ r \in Seq(Bufs) /\ Members(r) = (Bufs \ Taken) \ {x} /\ x \in Bufs \ Taken
         /\ IsRing(r, f.free_list, f.next_free, f.prev_free, Null)
         /\ f.next_free[r[Len(r)]] # Null
         /\ f.next_free[x] = Null /\ f.prev_free[x] = Null
         /\ \A y \in Taken \cap Bufs : /\ f.next_free[y] = next_free[y]
                                       /\ f.prev_free[y] = prev_free[y]
  <1> DEFINE r == Omit(q, k)
  <1>n. Null \notin Bufs
    BY BufFacts
  <1>1. /\ next_free \in [Bufs -> Bufs \cup {Null}] /\ prev_free \in [Bufs -> Bufs \cup {Null}]
        /\ free_list \in Bufs
    BY DEF BufShapes
  <1>2. /\ q \in Seq(Bufs) /\ IsRing(q, free_list, next_free, prev_free, Null) /\ Distinct(q)
        /\ Members(q) = Bufs \ Taken /\ (k = 1 \/ next_free[q[Len(q)]] # Null)
        /\ q[1] = free_list /\ 1 \in DOMAIN q
    BY DEF FreeIs, IsRing
  <1>3. PICK n \in Bufs, p \in Bufs :
          /\ n = next_free[x] /\ p = prev_free[x] /\ n # x /\ p # x
          /\ n \in Members(q) /\ p \in Members(q)
    <2>1. next_free[x] \in Members(q) \ {x} /\ prev_free[x] \in Members(q) \ {x}
      BY <1>2, RingNeighbours
    <2> QED
      BY <1>2, <2>1
  <1>4. x \in Members(q) /\ x \in Bufs /\ (k = 1 <=> free_list = x)
    BY <1>2 DEF Members, Distinct
  <1>5. PICK pv : pv = [[prev_free EXCEPT ![n] = p] EXCEPT ![x] = Null]
    OBVIOUS
  <1>6. PICK nx : nx = [[next_free EXCEPT ![p] = n] EXCEPT ![x] = Null]
    OBVIOUS
  <1>7. /\ pv \in [Bufs -> Bufs \cup {Null}] /\ nx \in [Bufs -> Bufs \cup {Null}]
        /\ \A y \in Bufs : pv[y] = IF y = x THEN Null ELSE IF y = n THEN p ELSE prev_free[y]
        /\ \A y \in Bufs : nx[y] = IF y = x THEN Null ELSE IF y = p THEN n ELSE next_free[y]
    BY <1>1, <1>3, <1>4, <1>5, <1>6
  <1>8. PICK first : first = IF free_list = x THEN n ELSE free_list
    OBVIOUS
  <1>9. RemoveFree(x) = [next_free |-> nx, prev_free |-> pv, free_list |-> first]
    <2>1. Set(prev_free, next_free[x], prev_free[x]) = [prev_free EXCEPT ![n] = p]
      BY <1>3, <1>n DEF Set
    <2>2. [prev_free EXCEPT ![n] = p][x] = p
      BY <1>1, <1>3, <1>4
    <2>3. Set(next_free, p, next_free[x]) = [next_free EXCEPT ![p] = n]
      BY <1>3, <1>n DEF Set
    <2>4. [next_free EXCEPT ![p] = n][x] = n
      BY <1>1, <1>3, <1>4
    <2> QED
      BY <1>5, <1>6, <1>8, <2>1, <2>2, <2>3, <2>4 DEF RemoveFree
  <1>10. /\ r \in Seq(Bufs) /\ Members(r) = (Bufs \ Taken) \ {x}
    BY <1>2, OmitDistinct
  <1>11. IsRing(r, first, nx, pv, Null) /\ nx[r[Len(r)]] = r[1]
    <2>1. /\ nx[prev_free[x]] = next_free[x] /\ pv[next_free[x]] = prev_free[x]
          /\ \A y \in Members(q) \ {x, prev_free[x]} : nx[y] = next_free[y]
          /\ \A y \in Members(q) \ {x, next_free[x]} : pv[y] = prev_free[y]
      BY <1>2, <1>3, <1>7
    <2>2. first = IF free_list = x THEN next_free[x] ELSE free_list
      BY <1>3, <1>8
    <2> HIDE DEF r
    <2>3. /\ IsRing(Omit(q, k), IF free_list = x THEN next_free[x] ELSE free_list, nx, pv, Null)
          /\ nx[Omit(q, k)[Len(Omit(q, k))]] = Omit(q, k)[1]
      BY <1>2, <2>1, RingRemove
    <2> QED
      BY <2>2, <2>3 DEF r
  <1>12. r[1] \in Bufs
    <2> HIDE DEF r
    <2>1. Len(r) > 0
      BY <1>11 DEF IsRing
    <2> QED
      BY <1>10, <2>1
  <1>13. first \in Bufs /\ nx[x] = Null /\ pv[x] = Null
    BY <1>1, <1>4, <1>7, <1>8
  <1>14. \A y \in Taken \cap Bufs : nx[y] = next_free[y] /\ pv[y] = prev_free[y]
    BY <1>2, <1>3, <1>4, <1>7
  <1> HIDE DEF r
  <1>15. nx[r[Len(r)]] # Null
    BY <1>11, <1>12, <1>n
  <1>16. x \in Bufs \ Taken
    BY <1>2, <1>4
  <1> QED
    BY <1>7, <1>9, <1>10, <1>11, <1>13, <1>14, <1>15, <1>16 DEF r

(* ... and one that is not on it changes nothing: a buffer of a read that  *)
(* failed is not.                                                          *)
LEMMA FreeUntouched ==
  ASSUME BufShapes, NEW x \in Bufs, next_free[x] = Null, prev_free[x] = Null, free_list # x
  PROVE  RemoveFree(x) =
           [next_free |-> next_free, prev_free |-> prev_free, free_list |-> free_list]
  <1>1. /\ next_free \in [Bufs -> Bufs \cup {Null}] /\ prev_free \in [Bufs -> Bufs \cup {Null}]
    BY DEF BufShapes
  <1>2. [next_free EXCEPT ![x] = Null] = next_free /\ [prev_free EXCEPT ![x] = Null] = prev_free
    BY <1>1
  <1>3. Set(prev_free, next_free[x], prev_free[x]) = prev_free
    BY DEF Set
  <1>4. Set(next_free, prev_free[x], next_free[x]) = next_free
    BY DEF Set
  <1> QED
    BY <1>2, <1>3, <1>4 DEF RemoveFree

(* buf_insert_free(): a buffer is given back at the end of the free list.  *)
LEMMA FreeGiven ==
  ASSUME BufShapes, NEW q, FreeIs(q), NEW x \in Taken, x \in Bufs
  PROVE  LET f == InsertFree(x)  r == Append(q, x) IN
         /\ f.next_free \in [Bufs -> Bufs \cup {Null}]
         /\ f.prev_free \in [Bufs -> Bufs \cup {Null}] /\ f.free_list = free_list
         /\ r \in Seq(Bufs) /\ Members(r) = (Bufs \ Taken) \cup {x}
         /\ IsRing(r, f.free_list, f.next_free, f.prev_free, Null)
         /\ f.next_free[r[Len(r)]] # Null
         /\ \A y \in (Taken \cap Bufs) \ {x} : /\ f.next_free[y] = next_free[y]
                                               /\ f.prev_free[y] = prev_free[y]
  <1> DEFINE r == Append(q, x)
  <1>n. Null \notin Bufs
    BY BufFacts
  <1>1. /\ next_free \in [Bufs -> Bufs \cup {Null}] /\ prev_free \in [Bufs -> Bufs \cup {Null}]
        /\ free_list \in Bufs
    BY DEF BufShapes
  <1>2. /\ q \in Seq(Bufs) /\ IsRing(q, free_list, next_free, prev_free, Null)
        /\ Members(q) = Bufs \ Taken /\ free_list = q[1] /\ Len(q) > 0
        /\ prev_free[q[1]] = q[Len(q)]
    BY DEF FreeIs, IsRing
  <1>3. PICK last \in Bufs : last = prev_free[free_list] /\ last \in Members(q)
                             /\ free_list \in Members(q)
    <2>1. Len(q) \in DOMAIN q /\ 1 \in DOMAIN q
      BY <1>2
    <2> QED
      BY <1>2, <2>1 DEF Members
  <1>4. last # x /\ free_list # x /\ x \notin Members(q)
    BY <1>2, <1>3
  <1>5. PICK nx : nx = [[next_free EXCEPT ![x] = free_list] EXCEPT ![last] = x]
    OBVIOUS
  <1>6. PICK pv : pv = [prev_free EXCEPT ![x] = last, ![free_list] = x]
    OBVIOUS
  <1>7. /\ pv \in [Bufs -> Bufs \cup {Null}] /\ nx \in [Bufs -> Bufs \cup {Null}]
        /\ \A y \in Bufs : pv[y] = IF y = free_list THEN x ELSE IF y = x THEN last ELSE prev_free[y]
        /\ \A y \in Bufs : nx[y] = IF y = last THEN x ELSE IF y = x THEN free_list ELSE next_free[y]
    BY <1>1, <1>3, <1>4, <1>5, <1>6
  <1>8. InsertFree(x) = [next_free |-> nx, prev_free |-> pv, free_list |-> free_list]
    BY <1>3, <1>5, <1>6, <1>n DEF InsertFree, Set
  <1>9. /\ IsRing(r, free_list, nx, pv, Null) /\ r \in Seq(Bufs)
        /\ Members(r) = Members(q) \cup {x} /\ r[Len(r)] = x
    <2>1. LinkedLast(x, q, free_list, next_free, prev_free, nx, pv)
      BY <1>1, <1>2, <1>3, <1>4, <1>7 DEF LinkedLast
    <2>2. PICK a : a = r
      OBVIOUS
    <2>3. /\ IsRing(a, free_list, nx, pv, Null) /\ a \in Seq(Bufs)
          /\ Members(a) = Members(q) \cup {x}
          /\ Len(a) = Len(q) + 1 /\ a[Len(q) + 1] = x
      <3>1. /\ q \in Seq(Bufs) /\ x \in Bufs /\ x \notin Members(q) /\ a = Append(q, x)
            /\ IsRing(q, free_list, next_free, prev_free, Null)
        BY <1>2, <1>4, <2>2
      <3>2. IsRing(a, free_list, nx, pv, Null)
        BY ONLY ZenonT(60), <2>1, <3>1, RingAppend
      <3>3. a \in Seq(Bufs)
        BY ONLY <2>1, <3>1, RingAppend
      <3>4. Members(a) = Members(q) \cup {x}
        <4>1. Distinct(q)
          BY <3>1 DEF IsRing
        <4> QED
          BY ONLY <3>1, <4>1, AppendDistinct
      <3>5. Len(a) = Len(q) + 1 /\ a[Len(q) + 1] = x
        BY ONLY <3>1
      <3> QED
        BY <3>2, <3>3, <3>4, <3>5
    <2> HIDE DEF r
    <2> QED
      BY <2>2, <2>3
  <1>10. nx[x] # Null
    BY <1>1, <1>4, <1>7, <1>n
  <1>11. \A y \in (Taken \cap Bufs) \ {x} : nx[y] = next_free[y] /\ pv[y] = prev_free[y]
    BY <1>2, <1>3, <1>7
  <1> HIDE DEF r
  <1> QED
    BY <1>2, <1>7, <1>8, <1>9, <1>10, <1>11 DEF r

-----------------------------------------------------------------------------
(* buf_init(): the free list has every buffer, in the order of the page.   *)
LEMMA FreshRing ==
  /\ [i \in 1 .. NBuf |-> i - 1] \in Seq(Bufs)
  /\ IsRing([i \in 1 .. NBuf |-> i - 1], 0, FreshNext, FreshPrev, Null)
  /\ Members([i \in 1 .. NBuf |-> i - 1]) = Bufs
  /\ FreshNext \in [Bufs -> Bufs \cup {Null}] /\ FreshPrev \in [Bufs -> Bufs \cup {Null}]
  /\ 0 \in Bufs
  <1>0. NBuf \in Nat /\ NBuf > 0 /\ NBuf - 1 \in Nat
    BY BufFacts
  <1>1. \A x : x \in Bufs <=> x \in Nat /\ x <= NBuf - 1
    BY <1>0 DEF Bufs
  <1>2. PICK q : q = [i \in 1 .. NBuf |-> i - 1]
    OBVIOUS
  <1>3. \A i \in 1 .. NBuf : i - 1 \in Bufs /\ q[i] = i - 1
    BY <1>0, <1>1, <1>2
  <1>4. q \in Seq(Bufs) /\ Len(q) = NBuf /\ DOMAIN q = 1 .. NBuf
    <2>1. q \in [1 .. NBuf -> Bufs]
      BY <1>2, <1>3
    <2> QED
      BY <1>0, <2>1
  <1>5. /\ \A x \in Bufs : FreshNext[x] = IF x = NBuf - 1 THEN Null ELSE x + 1
        /\ \A x \in Bufs : FreshPrev[x] = IF x = 0 THEN NBuf - 1 ELSE x - 1
    BY DEF FreshNext, FreshPrev
  <1>6. FreshNext \in [Bufs -> Bufs \cup {Null}]
    <2>1. \A x \in Bufs : (IF x = NBuf - 1 THEN Null ELSE x + 1) \in Bufs \cup {Null}
      <3> SUFFICES ASSUME NEW x \in Bufs, x # NBuf - 1 PROVE x + 1 \in Bufs
        OBVIOUS
      <3>1. x \in Nat /\ x <= NBuf - 1
        BY <1>1
      <3>2. x + 1 \in Nat /\ x + 1 <= NBuf - 1
        BY <1>0, <3>1
      <3> QED
        BY <1>1, <3>2
    <2> QED
      BY <2>1 DEF FreshNext
  <1>7. FreshPrev \in [Bufs -> Bufs \cup {Null}]
    <2>1. \A x \in Bufs : (IF x = 0 THEN NBuf - 1 ELSE x - 1) \in Bufs \cup {Null}
      <3> SUFFICES ASSUME NEW x \in Bufs
                   PROVE  (IF x = 0 THEN NBuf - 1 ELSE x - 1) \in Bufs
        OBVIOUS
      <3>1. x \in Nat /\ x <= NBuf - 1
        BY <1>1
      <3>2. CASE x = 0
        BY <1>0, <1>1, <3>2
      <3>3. CASE x # 0
        <4>1. x - 1 \in Nat /\ x - 1 <= NBuf - 1
          BY <1>0, <3>1, <3>3
        <4> QED
          BY <1>1, <3>3, <4>1
      <3> QED
        BY <3>2, <3>3
    <2> QED
      BY <2>1 DEF FreshPrev
  <1>8. Distinct(q)
    <2> SUFFICES ASSUME NEW i \in 1 .. NBuf, NEW j \in 1 .. NBuf, i - 1 = j - 1 PROVE i = j
      BY <1>3, <1>4 DEF Distinct
    <2> QED
      BY <1>0
  <1>9. Members(q) = Bufs
    <2>1. ASSUME NEW x \in Bufs PROVE x \in Members(q)
      <3>0. x \in Nat /\ x <= NBuf - 1
        BY <1>1
      <3>1. x + 1 \in 1 .. NBuf /\ x + 1 - 1 = x
        BY <1>0, <3>0
      <3>2. PICK j \in 1 .. NBuf : j = x + 1
        BY <3>1
      <3>3. q[j] = x
        <4>1. j - 1 = x
          BY <3>0, <3>2
        <4> QED
          BY <1>3, <4>1
      <3> QED
        BY <1>4, <3>3 DEF Members
    <2> QED
      BY <1>3, <1>4, <2>1 DEF Members
  <1>10. ASSUME NEW i \in 1 .. NBuf - 1
         PROVE  FreshNext[q[i]] = q[i + 1] /\ FreshPrev[q[i + 1]] = q[i]
    <2>1. /\ i \in 1 .. NBuf /\ i + 1 \in 1 .. NBuf /\ i + 1 - 1 = i /\ i # 0
          /\ i - 1 # NBuf - 1 /\ i - 1 + 1 = i
      BY <1>0
    <2>2. q[i] = i - 1 /\ q[i + 1] = i /\ i - 1 \in Bufs /\ i \in Bufs
      BY <1>3, <2>1
    <2> QED
      BY <1>5, <2>1, <2>2
  <1>11. q[1] = 0 /\ q[NBuf] = NBuf - 1 /\ 0 \in Bufs /\ NBuf - 1 \in Bufs
    <2>1. 1 \in 1 .. NBuf /\ NBuf \in 1 .. NBuf /\ 1 - 1 = 0
      BY <1>0
    <2> QED
      BY <1>3, <2>1
  <1>12. IsRing(q, 0, FreshNext, FreshPrev, Null)
    <2>1. FreshPrev[0] = NBuf - 1 /\ FreshNext[NBuf - 1] = Null
      BY <1>5, <1>11
    <2> QED
      BY <1>0, <1>4, <1>8, <1>10, <1>11, <2>1 DEF IsRing
  <1> QED
    BY <1>2, <1>4, <1>6, <1>7, <1>9, <1>11, <1>12

(* While a reader may read another block, two buffers at least are free.   *)
LEMMA FreeLeft ==
  ASSUME IoInv, BufInv, pc[Console] = "idle", Cardinality(held) < MaxHold,
         NEW q, FreeIs(q)
  PROVE  Len(q) > 1 /\ bh = Null /\ Taken = held \cup lost
  <1>1. /\ IsFiniteSet(Bufs) /\ Cardinality(Bufs) = NBuf /\ NBuf \in Nat
        /\ MaxHold \in Nat /\ MaxLost \in Nat /\ MaxHold + MaxLost < NBuf
    BY BufFacts, BufAssumption
  <1>2. bh = Null
    BY DEF BufInv, Users, IoInv, IoLocks
  <1>3. Taken = held \cup lost /\ lost = lost \cup ({bh} \ {Null})
    BY <1>2 DEF Taken
  <1>4. held \subseteq Bufs /\ lost \subseteq Bufs /\ held \cap lost = {}
    BY DEF BufInv, BufShapes, Users
  <1>5. IsFiniteSet(held) /\ IsFiniteSet(lost)
    BY <1>1, <1>4, FS_Subset
  <1>6. Cardinality(lost) <= MaxLost
    BY <1>3 DEF BufInv, Users
  <1>7. PICK a \in Nat, b \in Nat : a = Cardinality(held) /\ b = Cardinality(lost)
    BY <1>5, FS_CardinalityType
  <1>8. IsFiniteSet(held \cup lost) /\ Cardinality(held \cup lost) = a + b
    <2>1. /\ IsFiniteSet(held \cup lost)
          /\ Cardinality(held \cup lost) = a + b - Cardinality(held \cap lost)
      BY <1>5, <1>7, FS_Union
    <2>2. Cardinality(held \cap lost) = 0
      BY <1>4, FS_EmptySet
    <2> QED
      BY <2>1, <2>2
  <1>9. Cardinality(Bufs \ Taken) = NBuf - (a + b)
    <2>1. Bufs \cap Taken = held \cup lost
      BY <1>3, <1>4
    <2>2. Cardinality(Bufs \ Taken) = Cardinality(Bufs) - Cardinality(Bufs \cap Taken)
      BY <1>1, FS_Difference
    <2> QED
      BY <1>1, <1>8, <2>1, <2>2
  <1>10. Len(q) = Cardinality(Bufs \ Taken)
    <2>1. q \in Seq(Bufs) /\ Distinct(q) /\ Members(q) = Bufs \ Taken
      BY DEF FreeIs, IsRing
    <2> QED
      BY <2>1, DistinctLen
  <1> QED
    BY <1>1, <1>2, <1>3, <1>6, <1>7, <1>9, <1>10

(* Steps of the driver, and of the console in it, do not touch the cache.  *)
LEMMA OthersKeepBuf ==
  ASSUME BufInv, UNCHANGED cache,
         ret'[Console] = "fill" <=> ret[Console] = "fill",
         ret[Console] = "fill" => ask'[Console] = ask[Console]
  PROVE  BufInv' /\ \A q : FreeIs(q) <=> FreeIs(q)'
  <1>1. /\ dev' = dev /\ blk' = blk /\ flags' = flags /\ data' = data /\ next' = next
        /\ prev' = prev /\ hash_table' = hash_table /\ next_free' = next_free
        /\ prev_free' = prev_free /\ free_list' = free_list
        /\ bh' = bh /\ held' = held /\ lost' = lost /\ tidy' = tidy /\ astray' = astray
    BY DEF cache, heads, chains, free, users, page
  <1>2. Taken' = Taken
    BY <1>1 DEF Taken
  <1>3. BufShapes'
    BY <1>1 DEF BufInv, BufShapes
  <1>4. HashLists'
    BY <1>1 DEF BufInv, HashLists, Chained, Sits, Odd
  <1>5. \A q : FreeIs(q) <=> FreeIs(q)'
    BY <1>1, <1>2 DEF FreeIs
  <1>6. FreeLists'
    BY <1>1, <1>2, <1>5 DEF BufInv, FreeLists
  <1>7. Users' /\ DataFresh'
    BY <1>1, <1>2 DEF BufInv, Users, DataFresh, Odd
  <1> QED
    BY <1>3, <1>4, <1>5, <1>6, <1>7 DEF BufInv

(* bread() returns the buffer it got, or has it read: in both cases it is  *)
(* taken, and is its reader's.                                             *)
LEMMA GotKeeps ==
  ASSUME IoInv, BufInv, NEW b \in Blks, NEW x \in Bufs, Got(x, b, flags'[x] # 0),
         pc[Console] = "idle", Cardinality(held) < MaxHold, x \notin held,
         dev'[x] = Dev, blk'[x] = b, \A y \in Bufs \ {x} : dev'[y] = dev[y],
         flags'[x] # 0 \/ x \in lost \/ Cardinality(lost) < MaxLost
  PROVE  /\ Users' /\ Taken' = Taken \cup {x}
         /\ bh' \in Bufs \cup {Null} /\ held' \subseteq Bufs /\ lost' \subseteq Bufs
  <1>1. /\ BufShapes /\ Users /\ Null \notin Bufs /\ Console \in Threads
    BY BufFacts DEF BufInv
  <1>2. bh = Null /\ ret[Console] # "fill"
    BY <1>1 DEF Users, IoInv, IoLocks
  <1>3. Taken = held \cup lost /\ lost \cup ({bh} \ {Null}) = lost
    BY <1>2 DEF Taken
  <1>4. /\ held \subseteq Bufs /\ lost \subseteq Bufs /\ held \cap lost = {}
        /\ \A y \in Taken : dev[y] = Dev
    BY <1>1 DEF BufShapes, Users
  <1>5. /\ IsFiniteSet(held) /\ IsFiniteSet(lost) /\ Cardinality(held) \in Nat
        /\ Cardinality(lost) \in Nat /\ Cardinality(lost) <= MaxLost
        /\ MaxHold \in Nat /\ MaxLost \in Nat
    <2>1. IsFiniteSet(held) /\ IsFiniteSet(lost)
      BY <1>4, BufFacts, FS_Subset
    <2>2. Cardinality(lost) <= MaxLost
      BY <1>1, <1>3 DEF Users
    <2> QED
      BY <2>1, <2>2, BufAssumption, FS_CardinalityType
  <1>6. ASSUME Taken' = Taken \cup {x} PROVE \A y \in Taken' : dev'[y] = Dev
    BY <1>3, <1>4, <1>6
  <1>7. CASE flags'[x] # 0
    <2>1. held' = held \cup {x} /\ lost' = lost \ {x} /\ bh' = Null /\ ret' = ret
      BY <1>2, <1>7 DEF Got, vars, iolocal
    <2>2. Cardinality(held \cup {x}) = Cardinality(held) + 1
      BY <1>5, FS_AddElement
    <2>3. Cardinality(held') <= MaxHold
      BY <1>5, <2>1, <2>2
    <2>4. Cardinality(lost \ {x}) <= MaxLost
      <3>1. Cardinality(lost \ {x}) = IF x \in lost THEN Cardinality(lost) - 1 ELSE Cardinality(lost)
        BY <1>5, FS_RemoveElement
      <3> QED
        BY <1>5, <3>1
    <2>5. lost' \cup ({bh'} \ {Null}) = lost \ {x}
      BY <2>1
    <2>6. Cardinality(lost' \cup ({bh'} \ {Null})) <= MaxLost
      BY <2>4, <2>5
    <2>7. Taken' = Taken \cup {x}
      BY <1>3, <2>1 DEF Taken
    <2>8. held' \cap lost' = {} /\ bh' \notin held'
      BY <1>1, <1>4, <2>1
    <2> QED
      BY <1>2, <1>4, <1>6, <2>1, <2>3, <2>6, <2>7, <2>8 DEF Users
  <1>8. CASE flags'[x] = 0
    <2>1. /\ bh' = x /\ held' = held /\ lost' = lost
          /\ ask' = [ask EXCEPT ![Console] = <<Start + b * BlkSectors, BlkSectors>>]
          /\ ret' = [ret EXCEPT ![Console] = "fill"]
      BY <1>8 DEF Got
    <2>2. /\ ask'[Console] = <<Start + b * BlkSectors, BlkSectors>> /\ ret'[Console] = "fill"
      BY <1>1, <2>1 DEF IoInv, IoShapes
    <2>3. lost' \cup ({bh'} \ {Null}) = lost \cup {x} /\ bh' # Null
      BY <1>1, <2>1
    <2>4. Cardinality(lost \cup {x}) <= MaxLost
      <3>1. CASE x \in lost
        <4>1. lost \cup {x} = lost
          BY <3>1
        <4> QED
          BY <1>5, <4>1
      <3>2. CASE x \notin lost
        <4>1. Cardinality(lost \cup {x}) = Cardinality(lost) + 1 /\ Cardinality(lost) < MaxLost
          BY <1>5, <1>8, <3>2, FS_AddElement
        <4> QED
          BY <1>5, <4>1
      <3> QED
        BY <3>1, <3>2
    <2>5. Cardinality(lost' \cup ({bh'} \ {Null})) <= MaxLost
      BY <2>3, <2>4
    <2>6. Taken' = Taken \cup {x}
      BY <1>1, <1>3, <2>1 DEF Taken
    <2>7. Cardinality(held') < MaxHold /\ Cardinality(held') <= MaxHold
      BY <1>5, <2>1
    <2> QED
      BY <1>4, <1>6, <1>8, <2>1, <2>2, <2>3, <2>5, <2>6, <2>7 DEF Users
  <1> QED
    BY <1>7, <1>8

(* bread() and buf_getblk() with the block in the hash table: its buffer   *)
(* leaves the free list, if it is on it, wherever it is on it.             *)
LEMMA BreadFoundKeeps ==
  ASSUME Threads = {Console}, IoInv, BufInv, NEW b \in Blks, BreadFound(b)
  PROVE  /\ BufInv' /\ UNCHANGED <<dev, blk, tidy>>
         /\ \E x, q :
              /\ x \in Bufs /\ dev[x] = Dev /\ blk[x] = b /\ FreeIs(q)
              /\ \/ FreeIs(q)'
                 \/ \E k \in 1 .. Len(q) : q[k] = x /\ FreeIs(Omit(q, k))'
  <1>1. PICK x \in Found(b) : UseFree(RemoveFree(x)) /\ Got(x, b, flags[x] # 0)
    BY DEF BreadFound
  <1>2. /\ x \in Bufs /\ dev[x] = Dev /\ blk[x] = b /\ Found(b) = {x}
        /\ \E h \in Slots : hash_table[h] # Null
    BY FoundNames
  <1>3. /\ pc[Console] = "idle" /\ Cardinality(held) < MaxHold /\ x \notin held
        /\ Cardinality(lost) < MaxLost \/ flags[x] # 0 \/ x \in lost
    BY <1>2 DEF BreadFound, MayRead
  <1>4. /\ dev' = dev /\ blk' = blk /\ flags' = flags /\ data' = data /\ next' = next
        /\ prev' = prev /\ hash_table' = hash_table /\ tidy' = tidy /\ astray' = astray
    BY DEF BreadFound, heads, chains, page
  <1>5. PICK q : FreeIs(q)
    BY DEF BufInv, FreeLists
  <1>6. Len(q) > 1 /\ bh = Null /\ Taken = held \cup lost
    BY <1>3, <1>5, FreeLeft
  <1>7. /\ BufShapes /\ HashLists /\ FreeLists /\ DataFresh
        /\ \A y \in Taken : next_free[y] = Null /\ prev_free[y] = Null
        /\ held \subseteq Bufs /\ lost \subseteq Bufs
    BY DEF BufInv, FreeLists, BufShapes
  <1>8. HashLists' /\ DataFresh'
    BY <1>4, <1>7 DEF HashLists, Chained, Sits, Odd, DataFresh
  <1>9. /\ Users' /\ Taken' = Taken \cup {x}
        /\ bh' \in Bufs \cup {Null} /\ held' \subseteq Bufs /\ lost' \subseteq Bufs
    BY <1>1, <1>2, <1>3, <1>4, GotKeeps
  <1>10. CASE x \notin lost
    <2>1. PICK k \in 1 .. Len(q) : q[k] = x
      <3>1. Members(q) = Bufs \ Taken /\ q \in Seq(Bufs)
        BY <1>5 DEF FreeIs
      <3>2. x \in Members(q)
        BY <1>2, <1>3, <1>6, <1>10, <3>1
      <3> QED
        BY <3>1, <3>2 DEF Members
    <2>2. PICK f : f = RemoveFree(x)
      OBVIOUS
    <2>3. PICK r : r = Omit(q, k)
      OBVIOUS
    <2>4. /\ f.next_free \in [Bufs -> Bufs \cup {Null}]
          /\ f.prev_free \in [Bufs -> Bufs \cup {Null}] /\ f.free_list \in Bufs
          /\ r \in Seq(Bufs) /\ Members(r) = (Bufs \ Taken) \ {x} /\ x \in Bufs \ Taken
          /\ IsRing(r, f.free_list, f.next_free, f.prev_free, Null)
          /\ f.next_free[r[Len(r)]] # Null
          /\ f.next_free[x] = Null /\ f.prev_free[x] = Null
          /\ \A y \in Taken \cap Bufs : /\ f.next_free[y] = next_free[y]
                                        /\ f.prev_free[y] = prev_free[y]
      BY <1>2, <1>5, <1>6, <1>7, <2>1, <2>2, <2>3, FreeTaken
    <2>5. next_free' = f.next_free /\ prev_free' = f.prev_free /\ free_list' = f.free_list
      BY <1>1, <2>2 DEF UseFree
    <2>6. FreeIs(r)'
      BY <1>9, <2>4, <2>5 DEF FreeIs
    <2>7. \A y \in Taken' : next_free'[y] = Null /\ prev_free'[y] = Null
      BY <1>6, <1>7, <1>9, <2>4, <2>5
    <2>8. FreeLists'
      BY <2>6, <2>7 DEF FreeLists
    <2>9. BufShapes'
      BY <1>4, <1>7, <1>9, <2>4, <2>5 DEF BufShapes
    <2>10. FreeIs(Omit(q, k))'
      BY <2>3, <2>6
    <2> QED
      BY <1>2, <1>4, <1>5, <1>8, <1>9, <2>1, <2>8, <2>9, <2>10 DEF BufInv
  <1>11. CASE x \in lost
    <2>1. x \in Taken /\ next_free[x] = Null /\ prev_free[x] = Null
      BY <1>6, <1>7, <1>11
    <2>2. free_list # x
      <3>1. /\ q \in Seq(Bufs) /\ Members(q) = Bufs \ Taken /\ free_list = q[1] /\ Len(q) > 0
        BY <1>5 DEF FreeIs, IsRing
      <3>2. q[1] \in Members(q)
        BY <3>1 DEF Members
      <3> QED
        BY <2>1, <3>1, <3>2
    <2>3. next_free' = next_free /\ prev_free' = prev_free /\ free_list' = free_list
      <3>1. RemoveFree(x) =
              [next_free |-> next_free, prev_free |-> prev_free, free_list |-> free_list]
        BY <1>2, <1>7, <2>1, <2>2, FreeUntouched
      <3> QED
        BY <1>1, <3>1 DEF UseFree
    <2>4. Taken' = Taken
      BY <1>9, <2>1
    <2>5. FreeIs(q)'
      BY <1>4, <1>5, <2>3, <2>4 DEF FreeIs
    <2>6. FreeLists'
      BY <1>7, <2>3, <2>4, <2>5 DEF FreeLists
    <2>7. BufShapes'
      BY <1>4, <1>7, <1>9, <2>3 DEF BufShapes
    <2> QED
      BY <1>2, <1>4, <1>5, <1>8, <1>9, <2>5, <2>6, <2>7 DEF BufInv
  <1> QED
    BY <1>10, <1>11

(* bread() and buf_getblk() with the block not found: the head of the free *)
(* list leaves it, leaves its chain, and goes on the one of its new block, *)
(* unless it names the block already.  On links in order no buffer stood   *)
(* for the block, but for the block that is not kept track of.             *)
LEMMA BreadFreeKeeps ==
  ASSUME Threads = {Console}, IoInv, BufInv, NEW b \in Blks, BreadFree(b)
  PROVE  /\ BufInv' /\ tidy' = tidy
         /\ tidy => \A y \in Bufs : Names(y, b) => Odd(y)
         /\ \E x, q :
              /\ x \in Bufs /\ FreeIs(q) /\ Len(q) > 1 /\ x = q[1] /\ FreeIs(Omit(q, 1))'
              /\ dev' = [dev EXCEPT ![x] = Dev] /\ blk' = [blk EXCEPT ![x] = b]
  <1>1. PICK x : x = free_list
    OBVIOUS
  <1>2. /\ pc[Console] = "idle" /\ Cardinality(held) < MaxHold /\ Cardinality(lost) < MaxLost
        /\ UseFree(RemoveFree(x)) /\ ~Stale(x, b)
        /\ data' = data /\ tidy' = tidy /\ astray' = astray
        /\ Got(x, b, flags'[x] # 0) /\ Found(b) = {}
    BY <1>1 DEF BreadFree, MayRead, Missed, page
  <1>3. \/ /\ Names(x, b) /\ dev' = dev /\ blk' = blk /\ flags' = flags
           /\ next' = next /\ prev' = prev /\ hash_table' = hash_table
        \/ /\ ~Names(x, b)
           /\ UseChains(InsertHash(RemoveHash(x), x, Hash[<<Dev, b>>]))
           /\ dev' = [dev EXCEPT ![x] = Dev] /\ blk' = [blk EXCEPT ![x] = b]
           /\ flags' = [flags EXCEPT ![x] = 0]
    BY <1>1 DEF BreadFree, NewFlags, chains
  <1>4. /\ BufShapes /\ HashLists /\ FreeLists /\ DataFresh
        /\ Null \notin Bufs /\ Console \in Threads
    BY BufFacts DEF BufInv
  <1>5. tidy => \A y \in Bufs : Names(y, b) => Odd(y)
    BY <1>2, <1>4, LookedUp
  <1>6. PICK q : FreeIs(q)
    BY <1>4 DEF FreeLists
  <1>7. Len(q) > 1 /\ bh = Null /\ Taken = held \cup lost
    BY <1>2, <1>6, FreeLeft
  <1>8. /\ dev \in [Bufs -> {0, Dev}] /\ blk \in [Bufs -> {0} \cup Blks]
        /\ flags \in [Bufs -> 0 .. 1] /\ DOMAIN data = Bufs /\ x \in Bufs
        /\ held \subseteq Bufs /\ lost \subseteq Bufs
    BY <1>1, <1>4 DEF BufShapes
  <1>9. dev' = [dev EXCEPT ![x] = Dev] /\ blk' = [blk EXCEPT ![x] = b]
    BY <1>3, <1>8 DEF Names
  <1>10. /\ \A y \in Bufs : dev'[y] = IF y = x THEN Dev ELSE dev[y]
         /\ \A y \in Bufs : blk'[y] = IF y = x THEN b ELSE blk[y]
         /\ dev' \in [Bufs -> {0, Dev}] /\ blk' \in [Bufs -> {0} \cup Blks]
         /\ flags' \in [Bufs -> 0 .. 1]
    BY <1>3, <1>8, <1>9
  <1>11. PICK f : f = RemoveFree(x)
    OBVIOUS
  <1>12. PICK r : r = Omit(q, 1)
    OBVIOUS
  <1>13. q[1] = x /\ 1 \in 1 .. Len(q)
    BY <1>1, <1>6, <1>7 DEF FreeIs, IsRing
  <1>14. /\ f.next_free \in [Bufs -> Bufs \cup {Null}]
         /\ f.prev_free \in [Bufs -> Bufs \cup {Null}] /\ f.free_list \in Bufs
         /\ r \in Seq(Bufs) /\ Members(r) = (Bufs \ Taken) \ {x} /\ x \in Bufs \ Taken
         /\ IsRing(r, f.free_list, f.next_free, f.prev_free, Null)
         /\ f.next_free[r[Len(r)]] # Null
         /\ f.next_free[x] = Null /\ f.prev_free[x] = Null
         /\ \A y \in Taken \cap Bufs : /\ f.next_free[y] = next_free[y]
                                       /\ f.prev_free[y] = prev_free[y]
    BY <1>4, <1>6, <1>7, <1>11, <1>12, <1>13, FreeTaken
  <1>15. next_free' = f.next_free /\ prev_free' = f.prev_free /\ free_list' = f.free_list
    BY <1>2, <1>11 DEF UseFree
  <1>16. /\ Users' /\ Taken' = Taken \cup {x}
         /\ bh' \in Bufs \cup {Null} /\ held' \subseteq Bufs /\ lost' \subseteq Bufs
    <2>1. x \notin held /\ dev'[x] = Dev /\ blk'[x] = b /\ \A y \in Bufs \ {x} : dev'[y] = dev[y]
      BY <1>7, <1>8, <1>10, <1>14
    <2> QED
      BY <1>2, <1>8, <2>1, GotKeeps
  <1>17. FreeIs(r)'
    BY <1>14, <1>15, <1>16 DEF FreeIs
  <1>18. FreeLists'
    <2>1. \A y \in Taken : next_free[y] = Null /\ prev_free[y] = Null /\ y \in Bufs
      BY <1>4, <1>7, <1>8 DEF FreeLists
    <2>2. \A y \in Taken' : next_free'[y] = Null /\ prev_free'[y] = Null
      BY <1>14, <1>15, <1>16, <2>1
    <2> QED
      BY <1>17, <2>2 DEF FreeLists
  <1>19. PICK k \in Slots : k = Hash[<<Dev, b>>]
    BY BufFacts
  <1>20. PICK c : c = RemoveHash(x)
    OBVIOUS
  <1>21. PICK d : d = InsertHash(c, x, k)
    OBVIOUS
  <1>22. ~Names(x, b) => next' = d.next /\ prev' = d.prev /\ hash_table' = d.hash_table
    BY <1>3, <1>19, <1>20, <1>21 DEF UseChains
  <1>23. BufShapes'
    <2>1. next' \in Links /\ prev' \in Links /\ hash_table' \in [Slots -> Bufs \cup {Null}]
      <3>1. CASE Names(x, b)
        BY <1>3, <1>4, <3>1 DEF BufShapes
      <3>2. CASE ~Names(x, b)
        <4>1. ~(Wild \in {next[x], prev[x]})
          BY <1>2, <3>2 DEF Stale
        <4>2. /\ d.next \in Links /\ d.prev \in Links
              /\ d.hash_table \in [Slots -> Bufs \cup {Null}]
          BY <1>4, <1>8, <1>20, <1>21, <4>1, HashShapes
        <4> QED
          BY <1>22, <3>2, <4>2
      <3> QED
        BY <3>1, <3>2
    <2> QED
      BY <1>2, <1>4, <1>8, <1>10, <1>14, <1>15, <1>16, <2>1 DEF BufShapes
  <1>24. HashLists'
    <2>1. CASE Names(x, b)
      BY <1>2, <1>3, <1>4, <2>1 DEF HashLists, Chained, Sits, Odd
    <2>2. CASE ~Names(x, b)
      <3> SUFFICES ASSUME tidy PROVE HashLists'
        BY <1>2 DEF HashLists
      <3>1. PICK on : Sits(on) /\ Chained(next, prev, hash_table, on)
        BY <1>4 DEF HashLists
      <3>2. PICK on_1 : on_1 = [h \in Slots |-> on[h] \ {x}]
        OBVIOUS
      <3>3. Chained(c.next, c.prev, c.hash_table, on_1) /\ c.next[x] = Null /\ c.prev[x] = Null
        BY <1>4, <1>8, <1>20, <3>1, <3>2, HashRemoved
      <3>4. c = [next |-> c.next, prev |-> c.prev, hash_table |-> c.hash_table]
        BY <1>20 DEF RemoveHash
      <3>5. /\ DOMAIN on_1 = Slots /\ \A h \in Slots : x \notin on_1[h] /\ on_1[h] \subseteq Bufs
            /\ \A h, i \in Slots : h # i => on_1[h] \cap on_1[i] = {}
        <4>1. /\ on \in [Slots -> SUBSET Bufs]
              /\ \A h \in Slots, y \in Bufs : y \in on[h] => Hash[<<dev[y], blk[y]>>] = h
          BY <3>1 DEF Sits
        <4>2. \A h \in Slots : on_1[h] = on[h] \ {x} /\ on[h] \subseteq Bufs
          BY <3>2, <4>1
        <4>3. ASSUME NEW h \in Slots, NEW i \in Slots, NEW y, y \in on_1[h], y \in on_1[i]
              PROVE  h = i
          <5>1. y \in on[h] /\ y \in on[i] /\ y \in Bufs
            BY <4>2, <4>3
          <5>2. Hash[<<dev[y], blk[y]>>] = h /\ Hash[<<dev[y], blk[y]>>] = i
            BY <4>1, <5>1
          <5> QED
            BY <5>2
        <4>4. DOMAIN on_1 = Slots
          BY <3>2
        <4> QED
          BY <4>2, <4>3, <4>4
      <3>6. PICK on_2 : on_2 = [on_1 EXCEPT ![k] = @ \cup {x}]
        OBVIOUS
      <3>7. Chained(d.next, d.prev, d.hash_table, on_2)
        BY <1>8, <1>21, <3>3, <3>4, <3>5, <3>6, HashInserted
      <3>8. Sits(on_2)'
        <4>1. on_2 \in [Slots -> SUBSET Bufs]
          BY <1>8, <3>5, <3>6
        <4>2. ASSUME NEW h \in Slots, NEW y \in Bufs
              PROVE  /\ y \in on_2[h] => dev'[y] = Dev /\ Hash[<<dev'[y], blk'[y]>>] = h
                     /\ (dev'[y] = Dev /\ Hash[<<dev'[y], blk'[y]>>] = h /\ ~(Dev = 0 /\ blk'[y] = 0))
                           => y \in on_2[h]
          <5>1. CASE y = x
            <6>1. x \in on_2[h] <=> h = k
              BY <3>5, <3>6
            <6> QED
              BY <1>10, <1>19, <5>1, <6>1
          <5>2. CASE y # x
            <6>1. y \in on_2[h] <=> y \in on[h]
              BY <3>2, <3>5, <3>6, <5>2
            <6>2. dev'[y] = dev[y] /\ blk'[y] = blk[y]
              BY <1>10, <5>2
            <6> QED
              BY <3>1, <6>1, <6>2 DEF Sits, Odd
          <5> QED
            BY <5>1, <5>2
        <4> QED
          BY <4>1, <4>2 DEF Sits, Odd
      <3>9. ASSUME NEW y \in Bufs, NEW z \in Bufs, dev'[y] = Dev, dev'[z] = Dev,
                   blk'[y] = blk'[z], ~(Dev = 0 /\ blk'[y] = 0)
            PROVE  y = z
        <4>1. \A w \in Bufs : dev[w] = Dev /\ blk[w] = b => Dev = 0 /\ b = 0
          BY <1>5 DEF Names, Odd
        <4>2. CASE y = x \/ z = x
          BY <1>10, <3>9, <4>1, <4>2
        <4>3. CASE y # x /\ z # x
          <5>1. dev[y] = Dev /\ dev[z] = Dev /\ blk[y] = blk[z] /\ ~Odd(y)
            BY <1>10, <3>9, <4>3 DEF Odd
          <5> QED
            BY <1>4, <5>1 DEF HashLists
        <4> QED
          BY <4>2, <4>3
      <3>10. Chained(next', prev', hash_table', on_2)
        BY <1>22, <2>2, <3>7
      <3>11. ~astray'
        BY <1>2, <1>4 DEF HashLists
      <3>12. \E o : Sits(o)' /\ Chained(next', prev', hash_table', o)
        BY <3>8, <3>10
      <3>13. \A y, z \in Bufs :
               dev'[y] = Dev /\ dev'[z] = Dev /\ blk'[y] = blk'[z] /\ ~Odd(y)' => y = z
        BY <3>9 DEF Odd
      <3> QED
        BY <3>11, <3>12, <3>13 DEF HashLists, Chained
    <2> QED
      BY <2>1, <2>2
  <1>25. DataFresh'
    <2> SUFFICES ASSUME NEW y \in Bufs, dev'[y] = Dev, flags'[y] # 0
                 PROVE  data[y] = Image(blk'[y]) \/ (Dev = 0 /\ blk'[y] = 0 /\ data[y] = Empty)
      BY <1>2 DEF DataFresh, Odd
    <2>1. dev[y] = Dev /\ flags[y] # 0 /\ blk'[y] = blk[y]
      BY <1>3, <1>8
    <2> QED
      BY <1>4, <2>1 DEF DataFresh, Odd
  <1>26. FreeIs(Omit(q, 1))'
    BY <1>12, <1>17
  <1> QED
    BY <1>2, <1>5, <1>6, <1>7, <1>8, <1>9, <1>13, <1>16, <1>18, <1>23, <1>24, <1>25, <1>26 DEF BufInv

(* On links in order, a look-up ends and meets no link that leads nowhere. *)
LEMMA AstrayKeeps ==
  ASSUME BufInv, NEW b \in Blks, Astray(b)
  PROVE  BufInv' /\ (\A q : FreeIs(q) => FreeIs(q)') /\ UNCHANGED <<dev, blk, tidy>>
  <1>1. /\ dev' = dev /\ blk' = blk /\ flags' = flags /\ data' = data /\ next' = next
        /\ prev' = prev /\ hash_table' = hash_table /\ next_free' = next_free
        /\ prev_free' = prev_free /\ free_list' = free_list
        /\ bh' = bh /\ held' = held /\ lost' = lost /\ tidy' = tidy /\ astray' = TRUE
        /\ ret' = ret /\ ask' = ask
    BY DEF Astray, vars, iolocal, heads, chains, free, users
  <1>2. BufShapes /\ HashLists /\ FreeLists /\ Users /\ DataFresh
    BY DEF BufInv
  <1>3. ASSUME tidy PROVE FALSE
    <2>1. ChainAt(Hash[<<Dev, b>>])[NBuf] = Null
      BY <1>2, <1>3, LookedUp
    <2>2. Stale(free_list, b)
      BY <2>1 DEF Astray, Missed
    <2>3. next \in [Bufs -> Bufs \cup {Null}] /\ prev \in [Bufs -> Bufs \cup {Null}]
      BY <1>2, <1>3 DEF HashLists, Chained
    <2>4. free_list \in Bufs /\ Wild \notin Bufs \cup {Null}
      BY <1>2, BufFacts DEF BufShapes
    <2> QED
      BY <2>2, <2>3, <2>4 DEF Stale
  <1>4. Taken' = Taken
    BY <1>1 DEF Taken
  <1>5. \A q : FreeIs(q) => FreeIs(q)'
    BY <1>1, <1>4 DEF FreeIs
  <1>6. FreeLists'
    BY <1>1, <1>2, <1>4, <1>5 DEF FreeLists
  <1>7. BufShapes' /\ HashLists'
    BY <1>1, <1>2, <1>3 DEF BufShapes, HashLists
  <1>8. Users' /\ DataFresh'
    BY <1>1, <1>2, <1>4 DEF Users, DataFresh, Odd
  <1> QED
    BY <1>1, <1>5, <1>6, <1>7, <1>8 DEF BufInv

(* ext2fs_ls() keeps the buffer it has: nobody will give it back.          *)
LEMMA LsReturnsKeeps ==
  ASSUME IoInv, BufInv, NEW x \in Bufs, LsReturns(x)
  PROVE  BufInv' /\ (\A q : FreeIs(q) => FreeIs(q)') /\ UNCHANGED <<dev, blk, tidy>>
  <1>1. /\ pc[Console] = "idle" /\ x \in held /\ Cardinality(lost) < MaxLost
        /\ held' = held \ {x} /\ lost' = lost \cup {x}
        /\ dev' = dev /\ blk' = blk /\ flags' = flags /\ data' = data /\ next' = next
        /\ prev' = prev /\ hash_table' = hash_table /\ next_free' = next_free
        /\ prev_free' = prev_free /\ free_list' = free_list
        /\ bh' = bh /\ tidy' = tidy /\ astray' = astray /\ ret' = ret /\ ask' = ask
    BY DEF LsReturns, vars, iolocal, heads, chains, free, page
  <1>2. BufShapes /\ HashLists /\ FreeLists /\ Users /\ DataFresh
    BY DEF BufInv
  <1>3. /\ bh = Null /\ held \subseteq Bufs /\ lost \subseteq Bufs /\ held \cap lost = {}
        /\ ret[Console] # "fill"
    BY <1>1, <1>2 DEF Users, BufShapes, IoInv, IoLocks
  <1>4. Taken' = Taken
    BY <1>1, <1>3 DEF Taken
  <1>5. \A q : FreeIs(q) => FreeIs(q)'
    BY <1>1, <1>4 DEF FreeIs
  <1>6. FreeLists'
    BY <1>1, <1>2, <1>4, <1>5 DEF FreeLists
  <1>7. HashLists' /\ DataFresh'
    BY <1>1, <1>2 DEF HashLists, Chained, Sits, Odd, DataFresh
  <1>8. BufShapes'
    <2>1. held' \subseteq Bufs /\ lost' \subseteq Bufs
      BY <1>1, <1>3
    <2> QED
      BY <1>1, <1>2, <2>1 DEF BufShapes
  <1>9. Users'
    <2>1. /\ IsFiniteSet(held) /\ IsFiniteSet(lost) /\ MaxHold \in Nat /\ MaxLost \in Nat
      BY <1>3, BufFacts, BufAssumption, FS_Subset
    <2>2. Cardinality(held) \in Nat /\ Cardinality(lost) \in Nat /\ Cardinality(held) <= MaxHold
      BY <1>2, <2>1, FS_CardinalityType DEF Users
    <2>3. Cardinality(held \ {x}) = Cardinality(held) - 1
      BY <1>1, <2>1, FS_RemoveElement
    <2>4. Cardinality(held') <= MaxHold
      BY <1>1, <2>1, <2>2, <2>3
    <2>5. x \notin lost
      BY <1>1, <1>3
    <2>6. Cardinality(lost \cup {x}) = Cardinality(lost) + 1
      BY <2>1, <2>5, FS_AddElement
    <2>7. lost' \cup ({bh'} \ {Null}) = lost \cup {x}
      BY <1>1, <1>3
    <2>8. Cardinality(lost' \cup ({bh'} \ {Null})) <= MaxLost
      <3>1. Cardinality(lost \cup {x}) <= MaxLost
        BY <1>1, <2>1, <2>2, <2>6
      <3> QED
        BY <2>7, <3>1
    <2>9. held' \cap lost' = {} /\ bh' \notin held'
      BY <1>1, <1>2, <1>3 DEF Users
    <2> QED
      BY <1>1, <1>2, <1>3, <1>4, <2>4, <2>8, <2>9 DEF Users
  <1> QED
    BY <1>1, <1>5, <1>6, <1>7, <1>8, <1>9 DEF BufInv

(* bread() when the read is over: the buffer has its block, or is lost.    *)
LEMMA BreadFilledKeeps ==
  ASSUME Threads = {Console}, IoInv, BufInv, BreadFilled
  PROVE  BufInv' /\ (\A q : FreeIs(q) => FreeIs(q)') /\ UNCHANGED <<dev, blk, tidy>>
  <1>1. PICK x : x = bh
    OBVIOUS
  <1>2. /\ pc[Console] = "fill"
        /\ \/ /\ ok[Console]
              /\ flags' = [flags EXCEPT ![x] = 1]
              /\ held' = held \cup {x} /\ lost' = lost \ {x}
           \/ /\ ~ok[Console]
              /\ lost' = lost \cup {x}
              /\ flags' = flags /\ held' = held
        /\ data' = [data EXCEPT ![x] = mem[Console]] /\ bh' = Null
        /\ ret' = [ret EXCEPT ![Console] = "idle"]
        /\ dev' = dev /\ blk' = blk /\ next' = next /\ prev' = prev /\ hash_table' = hash_table
        /\ next_free' = next_free /\ prev_free' = prev_free /\ free_list' = free_list
        /\ tidy' = tidy /\ astray' = astray
    BY <1>1 DEF BreadFilled, chains, free, page
  <1>3. /\ BufShapes /\ HashLists /\ FreeLists /\ Users /\ DataFresh
        /\ Null \notin Bufs /\ Console \in Threads
    BY BufFacts DEF BufInv
  <1>4. ret[Console] = "fill" /\ ret'[Console] = "idle"
    BY <1>2, <1>3 DEF IoInv, IoLocks, IoShapes
  <1>5. /\ x # Null /\ x \in Bufs /\ held \subseteq Bufs /\ lost \subseteq Bufs
        /\ flags \in [Bufs -> 0 .. 1] /\ DOMAIN data = Bufs
    BY <1>1, <1>3, <1>4 DEF Users, BufShapes
  <1>6. /\ held \cap lost = {} /\ x \notin held /\ Cardinality(held) < MaxHold
        /\ Cardinality(lost \cup {x}) <= MaxLost /\ flags[x] = 0
        /\ \A y \in Taken : dev[y] = Dev
        /\ ask[Console] = <<Start + blk[x] * BlkSectors, BlkSectors>>
    <2>1. lost \cup ({bh} \ {Null}) = lost \cup {x}
      BY <1>1, <1>5
    <2> QED
      BY <1>1, <1>3, <1>5, <2>1 DEF Users
  <1>7. Taken = held \cup lost \cup {x} /\ dev[x] = Dev
    <2>1. Taken = held \cup lost \cup {x}
      BY <1>1, <1>5 DEF Taken
    <2> QED
      BY <1>6, <2>1
  <1>8. Taken' = Taken
    BY <1>2, <1>7 DEF Taken
  <1>9. \A q : FreeIs(q) => FreeIs(q)'
    BY <1>2, <1>8 DEF FreeIs
  <1>10. FreeLists'
    BY <1>2, <1>3, <1>8, <1>9 DEF FreeLists
  <1>11. HashLists'
    BY <1>2, <1>3 DEF HashLists, Chained, Sits, Odd
  <1>12. BufShapes'
    <2>1. /\ flags' \in [Bufs -> 0 .. 1] /\ DOMAIN data' = Bufs /\ bh' \in Bufs \cup {Null}
          /\ held' \subseteq Bufs /\ lost' \subseteq Bufs
      BY <1>2, <1>5
    <2> QED
      BY <1>2, <1>3, <2>1 DEF BufShapes
  <1>13. ok[Console] => mem[Console] = Image(blk[x])
    <2>1. ask[Console][1] = Start + blk[x] * BlkSectors /\ ask[Console][2] = BlkSectors
      BY <1>6
    <2>2. ok[Console] => mem[Console] = Filled(Start + blk[x] * BlkSectors, BlkSectors)
      BY <1>2, <2>1 DEF IoInv, IoResult
    <2> QED
      BY <2>2 DEF Filled, Image
  <1>14. DataFresh'
    <2> SUFFICES ASSUME NEW y \in Bufs, dev[y] = Dev, flags'[y] # 0
                 PROVE  data'[y] = Image(blk[y]) \/ (Odd(y) /\ data'[y] = Empty)
      BY <1>2 DEF DataFresh, Odd
    <2>1. CASE y = x
      <3>1. ok[Console]
        BY <1>2, <1>6, <2>1
      <3> QED
        BY <1>2, <1>5, <1>13, <2>1, <3>1
    <2>2. CASE y # x
      <3>1. flags'[y] = flags[y] /\ data'[y] = data[y]
        BY <1>2, <1>5, <2>2
      <3> QED
        BY <1>3, <3>1 DEF DataFresh
    <2> QED
      BY <2>1, <2>2
  <1>15. Users'
    <2>1. /\ IsFiniteSet(held) /\ IsFiniteSet(lost) /\ IsFiniteSet(lost \cup {x})
          /\ MaxHold \in Nat /\ MaxLost \in Nat
      <3>1. lost \cup {x} \subseteq Bufs
        BY <1>5
      <3> QED
        BY <1>5, <3>1, BufFacts, BufAssumption, FS_Subset
    <2>2. /\ Cardinality(held) \in Nat /\ Cardinality(lost \cup {x}) \in Nat
          /\ Cardinality(held \cup {x}) = Cardinality(held) + 1
      BY <1>6, <2>1, FS_CardinalityType, FS_AddElement
    <2>3. Cardinality(held') <= MaxHold
      <3>1. CASE held' = held \cup {x}
        BY <1>6, <2>1, <2>2, <3>1
      <3>2. CASE held' = held
        BY <1>6, <2>1, <2>2, <3>2
      <3> QED
        BY <1>2, <3>1, <3>2
    <2>4. lost' \subseteq lost \cup {x} /\ lost' \cup ({bh'} \ {Null}) = lost'
      BY <1>2
    <2>5. Cardinality(lost' \cup ({bh'} \ {Null})) <= MaxLost
      <3>1. IsFiniteSet(lost') /\ Cardinality(lost') <= Cardinality(lost \cup {x})
        BY <2>1, <2>4, FS_Subset
      <3>2. Cardinality(lost') \in Nat
        BY <3>1, FS_CardinalityType
      <3>3. Cardinality(lost \cup {x}) <= MaxLost
        BY <1>6
      <3>4. Cardinality(lost') <= MaxLost
        BY ONLY <2>1, <2>2, <3>1, <3>2, <3>3
      <3>5. Cardinality(lost' \cup ({bh'} \ {Null})) = Cardinality(lost')
        BY <2>4
      <3> QED
        BY ONLY <3>4, <3>5
    <2>6. held' \cap lost' = {} /\ bh' \notin held'
      BY <1>2, <1>3, <1>5, <1>6
    <2>7. \A y \in Taken' : dev'[y] = Dev
      BY <1>2, <1>6, <1>8
    <2> QED
      BY <1>2, <1>4, <2>3, <2>5, <2>6, <2>7 DEF Users
  <1> QED
    BY <1>2, <1>9, <1>10, <1>11, <1>12, <1>14, <1>15 DEF BufInv

(* brelse(): the buffer goes to the end of the free list, as it is.        *)
LEMMA BrelseKeeps ==
  ASSUME Threads = {Console}, IoInv, BufInv, NEW x \in Bufs, Brelse(x)
  PROVE  /\ BufInv' /\ UNCHANGED <<dev, blk, tidy>>
         /\ \E q : FreeIs(q) /\ x \notin Members(q) /\ FreeIs(Append(q, x))'
  <1>1. /\ pc[Console] = "idle" /\ x \in held /\ held' = held \ {x}
        /\ UseFree(InsertFree(x))
        /\ dev' = dev /\ blk' = blk /\ flags' = flags /\ data' = data
        /\ next' = next /\ prev' = prev /\ hash_table' = hash_table
        /\ ret' = ret /\ ask' = ask /\ bh' = bh /\ lost' = lost
        /\ tidy' = tidy /\ astray' = astray
    BY DEF Brelse, vars, iolocal, heads, chains, page
  <1>2. /\ BufShapes /\ HashLists /\ FreeLists /\ Users /\ DataFresh
        /\ Null \notin Bufs /\ Console \in Threads
    BY BufFacts DEF BufInv
  <1>3. bh = Null /\ held \subseteq Bufs /\ held \cap lost = {} /\ lost \subseteq Bufs
    BY <1>1, <1>2 DEF Users, BufShapes, IoInv, IoLocks
  <1>4. Taken = held \cup lost /\ Taken' = Taken \ {x} /\ x \in Taken
    BY <1>1, <1>3 DEF Taken
  <1>5. PICK q : FreeIs(q)
    BY <1>2 DEF FreeLists
  <1>6. PICK f : f = InsertFree(x)
    OBVIOUS
  <1>7. PICK r : r = Append(q, x)
    OBVIOUS
  <1>8. /\ f.next_free \in [Bufs -> Bufs \cup {Null}]
        /\ f.prev_free \in [Bufs -> Bufs \cup {Null}] /\ f.free_list = free_list
        /\ r \in Seq(Bufs) /\ Members(r) = (Bufs \ Taken) \cup {x}
        /\ IsRing(r, f.free_list, f.next_free, f.prev_free, Null)
        /\ f.next_free[r[Len(r)]] # Null
        /\ \A y \in (Taken \cap Bufs) \ {x} : /\ f.next_free[y] = next_free[y]
                                              /\ f.prev_free[y] = prev_free[y]
    BY <1>2, <1>4, <1>5, <1>6, <1>7, FreeGiven
  <1>9. next_free' = f.next_free /\ prev_free' = f.prev_free /\ free_list' = f.free_list
    BY <1>1, <1>6 DEF UseFree
  <1>10. FreeIs(r)'
    <2>1. (Bufs \ Taken) \cup {x} = Bufs \ Taken'
      BY <1>4
    <2> QED
      BY <1>8, <1>9, <2>1 DEF FreeIs
  <1>11. FreeLists'
    <2>1. \A y \in Taken : next_free[y] = Null /\ prev_free[y] = Null /\ y \in Bufs
      BY <1>2, <1>3, <1>4 DEF FreeLists
    <2>2. \A y \in Taken' : next_free'[y] = Null /\ prev_free'[y] = Null
      BY <1>4, <1>8, <1>9, <2>1
    <2> QED
      BY <1>10, <2>2 DEF FreeLists
  <1>12. BufShapes'
    <2>1. free_list' \in Bufs /\ held' \subseteq Bufs
      BY <1>1, <1>2, <1>3, <1>8, <1>9 DEF BufShapes
    <2> QED
      BY <1>1, <1>2, <1>8, <1>9, <2>1 DEF BufShapes
  <1>13. HashLists' /\ DataFresh'
    BY <1>1, <1>2 DEF HashLists, Chained, Sits, Odd, DataFresh
  <1>14. Users'
    <2>1. Cardinality(held') <= MaxHold
      <3>1. IsFiniteSet(held) /\ MaxHold \in Nat
        BY <1>3, BufFacts, BufAssumption, FS_Subset
      <3>2. IsFiniteSet(held') /\ Cardinality(held') <= Cardinality(held)
        BY <1>1, <3>1, FS_Subset
      <3>3. Cardinality(held) \in Nat /\ Cardinality(held') \in Nat /\ Cardinality(held) <= MaxHold
        BY <1>2, <3>1, <3>2, FS_CardinalityType DEF Users
      <3> QED
        BY <3>1, <3>2, <3>3
    <2> QED
      BY <1>1, <1>2, <1>3, <1>4, <2>1 DEF Users
  <1>15. x \notin Members(q)
    BY <1>4, <1>5 DEF FreeIs
  <1>16. FreeIs(Append(q, x))'
    BY <1>7, <1>10
  <1> QED
    BY <1>1, <1>5, <1>11, <1>12, <1>13, <1>14, <1>15, <1>16 DEF BufInv

(* buf_init() with the heads in a page of any content: the chains are      *)
(* empty.  What the heads were linked with may be in order, or not.        *)
LEMMA FreshLists ==
  ASSUME NEW p \in HeadPages
  PROVE  /\ p.flags \in [Bufs -> 0 .. 1] /\ p.next \in Links /\ p.prev \in Links
         /\ Untangled(p.next, p.prev) =>
              Chained(p.next, p.prev, [h \in Slots |-> Null], [h \in Slots |-> {}])
  <1>1. p.flags \in [Bufs -> 0 .. 1] /\ p.next \in Links /\ p.prev \in Links
    BY BufAssumption
  <1>2. ASSUME Untangled(p.next, p.prev)
        PROVE  Chained(p.next, p.prev, [h \in Slots |-> Null], [h \in Slots |-> {}])
    <2>1. PICK nx, pv : nx = p.next /\ pv = p.prev
      OBVIOUS
    <2>2. /\ nx \in [Bufs -> Bufs \cup {Null}] /\ pv \in [Bufs -> Bufs \cup {Null}]
          /\ \A x, y \in Bufs : nx[x] = y <=> pv[y] = x
          /\ \E rank \in [Bufs -> Bufs] : \A x \in Bufs : nx[x] # Null => rank[nx[x]] < rank[x]
      BY <1>2, <2>1 DEF Untangled
    <2>3. PICK rank \in [Bufs -> Bufs] : Linked(nx, pv, rank)
      BY <2>2 DEF Linked
    <2>4. rank \in [Bufs -> Nat]
      BY BufFacts
    <2>5. IsChain(Null, nx, Null, Bufs, {})
      BY BufFacts, ChainEmpty
    <2> QED
      BY <2>1, <2>2, <2>3, <2>4, <2>5 DEF Chained
  <1> QED
    BY <1>1, <1>2

(* buf_init() at the first mount ...                                       *)
LEMMA InitBufInv ==
  ASSUME Threads = {Console}, BInit
  PROVE  BufInv /\ FreeIs([i \in 1 .. NBuf |-> i - 1])
  <1>1. /\ dev = [x \in Bufs |-> 0] /\ blk = [x \in Bufs |-> 0]
        /\ data = [x \in Bufs |-> Empty]
        /\ hash_table = [h \in Slots |-> Null]
        /\ next_free = FreshNext /\ prev_free = FreshPrev /\ free_list = 0
        /\ bh = Null /\ held = {} /\ lost = {} /\ astray = FALSE
    BY DEF BInit
  <1>2. Null \notin Bufs /\ Console \in Threads
    BY BufFacts
  <1>3. ret[Console] # "fill"
    BY <1>2 DEF BInit, Init
  <1>4. Taken = {}
    BY <1>1, <1>2 DEF Taken
  <1>5. PICK q : q = [i \in 1 .. NBuf |-> i - 1]
    OBVIOUS
  <1>6. /\ q \in Seq(Bufs) /\ IsRing(q, 0, FreshNext, FreshPrev, Null) /\ Members(q) = Bufs
        /\ FreshNext \in [Bufs -> Bufs \cup {Null}] /\ FreshPrev \in [Bufs -> Bufs \cup {Null}]
        /\ 0 \in Bufs
    BY <1>5, FreshRing
  <1>7. FreeIs(q) /\ FreeLists
    <2>1. FreeIs(q)
      BY <1>1, <1>4, <1>6 DEF FreeIs
    <2> QED
      BY <1>4, <2>1 DEF FreeLists
  <1>8. /\ flags \in [Bufs -> 0 .. 1] /\ next \in Links /\ prev \in Links /\ tidy \in BOOLEAN
        /\ tidy => Chained(next, prev, hash_table, [h \in Slots |-> {}])
    <2>1. PICK p \in HeadPages : /\ flags = p.flags /\ next = p.next /\ prev = p.prev
                                 /\ tidy = Untangled(p.next, p.prev)
      BY DEF BInit
    <2>2. tidy \in BOOLEAN
      BY <2>1 DEF Untangled
    <2> QED
      BY <1>1, <2>1, <2>2, FreshLists
  <1>9. BufShapes
    BY <1>1, <1>2, <1>6, <1>8 DEF BufShapes
  <1>10. HashLists
    <2>1. Sits([h \in Slots |-> {}]) /\ \A x \in Bufs : dev[x] = Dev => Odd(x)
      BY <1>1 DEF Sits, Odd
    <2> QED
      BY <1>1, <1>8, <2>1 DEF HashLists
  <1>11. Users
    <2>1. Cardinality({}) = 0 /\ MaxHold \in Nat /\ MaxLost \in Nat
      BY FS_EmptySet, BufAssumption
    <2>2. lost \cup ({bh} \ {Null}) = {}
      BY <1>1
    <2> QED
      BY <1>1, <1>2, <1>3, <1>4, <2>1, <2>2 DEF Users
  <1>12. DataFresh
    BY <1>1 DEF DataFresh, Odd
  <1> QED
    BY <1>5, <1>7, <1>9, <1>10, <1>11, <1>12 DEF BufInv

(* ... and at the next.                                                    *)
LEMMA RemountKeeps ==
  ASSUME Threads = {Console}, IoInv, BufInv, ~astray, Remount
  PROVE  BufInv' /\ FreeIs([i \in 1 .. NBuf |-> i - 1])'
  <1>1. /\ pc[Console] = "idle" /\ held = {}
        /\ dev' = [x \in Bufs |-> 0] /\ blk' = [x \in Bufs |-> 0]
        /\ data' = [x \in Bufs |-> Empty]
        /\ next_free' = FreshNext /\ prev_free' = FreshPrev /\ free_list' = 0
        /\ hash_table' = [h \in Slots |-> Null] /\ lost' = {}
        /\ ret' = ret /\ bh' = bh /\ held' = held /\ astray' = astray
    BY DEF Remount, vars, iolocal
  <1>2. Users /\ Null \notin Bufs /\ Console \in Threads
    BY BufFacts DEF BufInv
  <1>3. ret'[Console] # "fill" /\ bh' = Null
    BY <1>1, <1>2 DEF Users, IoInv, IoLocks
  <1>4. Taken' = {}
    BY <1>1, <1>2, <1>3 DEF Taken
  <1>5. PICK q : q = [i \in 1 .. NBuf |-> i - 1]
    OBVIOUS
  <1>6. /\ q \in Seq(Bufs) /\ IsRing(q, 0, FreshNext, FreshPrev, Null) /\ Members(q) = Bufs
        /\ FreshNext \in [Bufs -> Bufs \cup {Null}] /\ FreshPrev \in [Bufs -> Bufs \cup {Null}]
        /\ 0 \in Bufs
    BY <1>5, FreshRing
  <1>7. FreeIs(q)' /\ FreeLists'
    <2>1. FreeIs(q)'
      BY <1>1, <1>4, <1>6 DEF FreeIs
    <2> QED
      BY <1>4, <2>1 DEF FreeLists
  <1>8. /\ flags' \in [Bufs -> 0 .. 1] /\ next' \in Links /\ prev' \in Links
        /\ tidy' \in BOOLEAN
        /\ tidy' => Chained(next', prev', hash_table', [h \in Slots |-> {}])
    <2>1. PICK p \in HeadPages : /\ flags' = p.flags /\ next' = p.next /\ prev' = p.prev
                                 /\ tidy' = Untangled(p.next, p.prev)
      BY DEF Remount
    <2>2. tidy' \in BOOLEAN
      BY <2>1 DEF Untangled
    <2> QED
      BY <1>1, <2>1, <2>2, FreshLists
  <1>9. BufShapes'
    <2>1. astray' \in BOOLEAN
      BY <1>1 DEF BufInv, BufShapes
    <2> QED
      BY <1>1, <1>2, <1>3, <1>6, <1>8, <2>1 DEF BufShapes
  <1>10. HashLists'
    <2>1. PICK on : on = [h \in Slots |-> {}]
      OBVIOUS
    <2>2. Sits(on)' /\ \A x \in Bufs : dev'[x] = Dev => (Dev = 0 /\ blk'[x] = 0)
      BY <1>1, <2>1 DEF Sits, Odd
    <2>3. tidy' => Chained(next', prev', hash_table', on)
      BY <1>8, <2>1
    <2> QED
      BY <1>1, <2>2, <2>3 DEF HashLists, Chained, Odd
  <1>11. Users'
    <2>1. Cardinality({}) = 0 /\ MaxHold \in Nat /\ MaxLost \in Nat
      BY FS_EmptySet, BufAssumption
    <2>2. lost' \cup ({bh'} \ {Null}) = {} /\ held' = {}
      BY <1>1, <1>3
    <2> QED
      BY SMTT(60), <1>1, <1>2, <1>3, <1>4, <2>1, <2>2 DEF Users
  <1>12. DataFresh'
    BY <1>1 DEF DataFresh, Odd
  <1>13. FreeIs([i \in 1 .. NBuf |-> i - 1])'
    BY <1>5, <1>7
  <1> QED
    BY <1>7, <1>9, <1>10, <1>11, <1>12, <1>13 DEF BufInv

(* Every step of the driver and of the other commands leaves the cache.    *)
LEMMA DriverKeepsBuf ==
  ASSUME Threads = {Console}, IoInv, BufInv,
         Handler \/ \E t \in Threads : IoStep(t) \/ Call(t) \/ Done(t),
         UNCHANGED cache
  PROVE  BufInv' /\ \A q : FreeIs(q) <=> FreeIs(q)'
  <1>1. /\ ret'[Console] = "fill" <=> ret[Console] = "fill"
        /\ ret[Console] = "fill" => ask'[Console] = ask[Console]
    <2>0. /\ Console \in Threads /\ ret \in [Threads -> {"idle", "done", "fill"}]
          /\ (pc[Console] = "idle" <=> ret[Console] = "idle")
          /\ pc[Console] = "done" => ret[Console] = "done"
      BY DEF IoInv, IoShapes, IoLocks
    <2>1. ASSUME NEW t \in Threads, IoStep(t) PROVE ret' = ret /\ ask' = ask
      BY <2>1 DEF IoStep, IdeIoRefuse, IdeIo, IdeIoStart, IdeIoWait, IoReturn
    <2>2. CASE Handler
      BY <2>2 DEF Handler, IdeInterrupt, IdeError, IdeIoDone, iolocal, IoReturn
    <2>3. ASSUME NEW t \in Threads, Call(t) \/ Done(t)
          PROVE  ret'[Console] # "fill" /\ ret[Console] # "fill"
      BY <2>0, <2>3 DEF Call, Done
    <2> QED
      BY <2>1, <2>2, <2>3
  <1> QED
    BY <1>1, OthersKeepBuf

(* Every step keeps the invariant of the cache.                            *)
LEMMA NextKeepsBuf ==
  ASSUME Threads = {Console}, IoInv, BufInv, [BNext]_bvars
  PROVE  BufInv'
  <1>1. CASE \E b \in Blks : BreadFound(b)
    BY <1>1, BreadFoundKeeps
  <1>2. CASE \E b \in Blks : BreadFree(b)
    BY <1>2, BreadFreeKeeps
  <1>3. CASE \E b \in Blks : Astray(b)
    BY <1>3, AstrayKeeps
  <1>4. CASE BreadFilled
    BY <1>4, BreadFilledKeeps
  <1>5. CASE \E x \in Bufs : Brelse(x)
    BY <1>5, BrelseKeeps
  <1>6. CASE \E x \in Bufs : LsReturns(x)
    BY <1>6, LsReturnsKeeps
  <1>7. CASE ~astray /\ Remount
    BY <1>7, RemountKeeps
  <1>8. CASE /\ Handler \/ \E t \in Threads : IoStep(t) \/ Call(t) \/ Done(t)
             /\ UNCHANGED cache
    BY <1>8, DriverKeepsBuf
  <1>9. CASE UNCHANGED bvars
    <2>1. UNCHANGED cache /\ ret' = ret /\ ask' = ask
      BY <1>9 DEF bvars, vars, iolocal
    <2> QED
      BY <2>1, OthersKeepBuf
  <1> QED
    BY <1>1, <1>2, <1>3, <1>4, <1>5, <1>6, <1>7, <1>8, <1>9 DEF BNext

(* What the driver and the cache keep true between them.                   *)
THEOREM BufInvariant ==
  ASSUME Threads = {Console}
  PROVE  BSpec => [](IoInv /\ BufInv)
  <1>1. BInit => IoInv /\ BufInv
    BY InitIoInv, InitBufInv DEF BInit
  <1>2. IoInv /\ BufInv /\ [BNext]_bvars => (IoInv /\ BufInv)'
    BY NextKeepsIo, NextKeepsBuf
  <1> QED
    BY <1>1, <1>2, PTL DEF BSpec

(* Whatever the number of buffers and hash slots, however the blocks hash  *)
(* and whatever the page of the heads holds: through hits, evictions,      *)
(* failed reads, releases in any order and mounts anew, every buffer is on *)
(* the free list or with one user.  If the links in the page were in       *)
(* order, a buffer is on the chain of its block's slot once and on no      *)
(* other (block 0 of device 0 maybe on none), and no look-up goes astray   *)
(* (buf.c:50-306).                                                         *)
THEOREM BuffersStaySound ==
  ASSUME Threads = {Console}
  PROVE  BSpec => []BuffersSound
  <1>1. IoInv /\ BufInv => BuffersSound
    BY BufInvIsSound
  <1> QED
    BY <1>1, BufInvariant, PTL

(* A buffer that claims to have been read holds its block, to the last     *)
(* sector, whatever the page of the heads holds: bread() returns no stale  *)
(* data.  The exception is block 0 of device 0, for which a head that has  *)
(* only been set up may pass, with its data zeroed (buf.c:80-89, 273-332). *)
THEOREM DataStaysFresh ==
  ASSUME Threads = {Console}
  PROVE  BSpec => []DataFresh
  <1>1. IoInv /\ BufInv => DataFresh
    BY BufInvIsSound
  <1> QED
    BY <1>1, BufInvariant, PTL

-----------------------------------------------------------------------------
(* To take the k-th element out is to leave the parts around it.           *)
LEMMA RemoveAtIs ==
  ASSUME NEW q \in Seq(Bufs), NEW k \in 1 .. Len(q)
  PROVE  Lru!RemoveAt(q, k) = Omit(q, k)
  <1>1. PICK N \in Nat \ {0} : N = Len(q)
    OBVIOUS
  <1>2. k \in 1 .. N /\ k - 1 \in 0 .. N /\ k + 1 \in 1 .. N + 1
    BY <1>1
  <1>3. PICK a : a = SubSeq(q, 1, k - 1)
    OBVIOUS
  <1>4. a \in Seq(Bufs) /\ Len(a) = k - 1 /\ \A i \in 1 .. k - 1 : a[i] = q[i]
    BY <1>1, <1>2, <1>3
  <1>5. PICK b : b = SubSeq(q, k + 1, N)
    OBVIOUS
  <1>6. b \in Seq(Bufs) /\ Len(b) = N - k /\ \A i \in 1 .. N - k : b[i] = q[k + i]
    BY SMTT(40), <1>1, <1>2, <1>5
  <1>7. PICK c : c = a \o b
    OBVIOUS
  <1>8. /\ c \in Seq(Bufs) /\ Len(c) = N - 1 /\ DOMAIN c = 1 .. N - 1
        /\ \A i \in 1 .. N - 1 : c[i] = IF i < k THEN a[i] ELSE b[i - (k - 1)]
    <2>1. (k - 1) + (N - k) = N - 1 /\ N - 1 \in Nat
      BY <1>2
    <2>2. c \in Seq(Bufs) /\ Len(c) = Len(a) + Len(b)
      <3>1. a \in Seq(Bufs) /\ b \in Seq(Bufs)
        BY <1>4, <1>6
      <3> QED
        BY ONLY <1>7, <3>1
    <2>3. Len(c) = N - 1 /\ DOMAIN c = 1 .. N - 1
      BY <1>4, <1>6, <2>1, <2>2
    <2>4. ASSUME NEW i \in 1 .. Len(a) + Len(b)
          PROVE  c[i] = IF i <= Len(a) THEN a[i] ELSE b[i - Len(a)]
      <3>1. a \in Seq(Bufs) /\ b \in Seq(Bufs)
        BY <1>4, <1>6
      <3> QED
        BY ONLY <1>7, <2>4, <3>1
    <2>5. ASSUME NEW i \in 1 .. N - 1
          PROVE  c[i] = IF i < k THEN a[i] ELSE b[i - (k - 1)]
      <3>1. i \in 1 .. Len(a) + Len(b) /\ (i < k <=> i <= k - 1)
        BY <1>2, <1>4, <1>6, <2>1
      <3> QED
        BY <1>4, <2>4, <3>1
    <2> QED
      BY <2>2, <2>3, <2>5
  <1>9. ASSUME NEW i \in 1 .. N - 1 PROVE c[i] = IF i < k THEN q[i] ELSE q[i + 1]
    <2>1. CASE i < k
      BY SMTT(60), <1>2, <1>4, <1>8, <2>1
    <2>2. CASE ~(i < k)
      <3>1. i - (k - 1) \in 1 .. N - k /\ k + (i - (k - 1)) = i + 1
        BY <1>2, <2>2
      <3>2. b[i - (k - 1)] = q[i + 1]
        BY <1>6, <3>1
      <3> QED
        BY <1>8, <2>2, <3>2
    <2> QED
      BY <2>1, <2>2
  <1>10. c = [i \in 1 .. N - 1 |-> IF i < k THEN q[i] ELSE q[i + 1]]
    <2>1. c = [i \in 1 .. N - 1 |-> c[i]]
      BY <1>8
    <2> QED
      BY <1>9, <2>1
  <1> QED
    BY <1>1, <1>3, <1>5, <1>7, <1>10 DEF Omit, Lru!RemoveAt

(* A cache set up anew has the buffers in an order, and no block.          *)
LEMMA FreshOrder ==
  Lru!Whole([i \in 1 .. NBuf |-> i - 1])
  <1>1. PICK q : q = [i \in 1 .. NBuf |-> i - 1]
    OBVIOUS
  <1>2. q \in Seq(Bufs) /\ Distinct(q) /\ Members(q) = Bufs
    BY <1>1, FreshRing DEF IsRing
  <1>3. Lru!Range(q) = Bufs
    BY <1>2 DEF Lru!Range, Members
  <1>4. Lru!IsInjective(q)
    BY <1>2 DEF Lru!IsInjective, Distinct
  <1> QED
    BY <1>1, <1>2, <1>3, <1>4 DEF Lru!Whole

(* Each operation of the cache is one of the abstract cache, or changes    *)
(* nothing of it.                                                          *)
LEMMA StepsMap ==
  ASSUME Threads = {Console}, IoInv, BufInv, [BNext]_bvars
  PROVE  [Lru!LNext]_<<FreeSeq, [x \in Bufs |-> IF dev[x] = Dev /\ ~Odd(x) THEN blk[x] ELSE Null],
                       tidy>>
  <1>0. /\ dev \in [Bufs -> {0, Dev}] /\ blk \in [Bufs -> {0} \cup Blks]
        /\ Null \notin Blks /\ Null \notin Bufs
    BY BufFacts DEF BufInv, BufShapes
  <1>1. PICK C : C = [x \in Bufs |-> IF dev[x] = Dev /\ ~Odd(x) THEN blk[x] ELSE Null]
    OBVIOUS
  <1>2. PICK D : D = [x \in Bufs |-> IF dev'[x] = Dev /\ ~Odd(x)' THEN blk'[x] ELSE Null]
    OBVIOUS
  <1>c. ASSUME dev' = dev, blk' = blk PROVE D = C
    BY <1>1, <1>2, <1>c DEF Odd
  <1>d. ASSUME NEW q, FreeIs(q), FreeIs(q)' PROVE FreeSeq' = FreeSeq
    BY <1>d, FreeSeqIs, FreeSeqNext
  <1>3. ASSUME NEW b \in Blks, BreadFound(b)
        PROVE  Lru!Take \/ (FreeSeq' = FreeSeq /\ D = C /\ tidy' = tidy)
    <2>1. PICK x, q :
            /\ x \in Bufs /\ dev[x] = Dev /\ blk[x] = b /\ FreeIs(q)
            /\ \/ FreeIs(q)'
               \/ \E k \in 1 .. Len(q) : q[k] = x /\ FreeIs(Omit(q, k))'
      BY <1>3, BreadFoundKeeps
    <2>2. D = C /\ tidy' = tidy
      BY <1>3, <1>c, BreadFoundKeeps
    <2>3. CASE FreeIs(q)'
      BY <1>d, <2>1, <2>2, <2>3
    <2>4. ASSUME NEW k \in 1 .. Len(q), q[k] = x, FreeIs(Omit(q, k))' PROVE Lru!Take
      <3>1. FreeSeq = q /\ q \in Seq(Bufs)
        BY <2>1, FreeSeqIs DEF FreeIs
      <3>2. FreeSeq' = Lru!RemoveAt(q, k) /\ k \in DOMAIN q
        BY <2>4, <3>1, FreeSeqNext, RemoveAtIs
      <3>3. CASE ~Odd(x)
        <4>1. C[q[k]] \in Blks
          BY <1>1, <2>1, <2>4, <3>3
        <4>2. Lru!Hit(k)
          BY <1>1, <1>2, <2>2, <3>1, <4>1 DEF Lru!Hit
        <4> QED
          BY <2>2, <3>1, <3>2, <4>2 DEF Lru!Take
      <3>4. CASE Odd(x)
        <4>1. C[q[k]] = Null /\ Dev = 0 /\ 0 \in Blks /\ C = [C EXCEPT ![q[k]] = Null]
          BY <1>1, <2>1, <2>4, <3>4 DEF Odd
        <4>2. Lru!Aside(k)
          BY <1>1, <1>2, <2>2, <3>1, <4>1 DEF Lru!Aside
        <4> QED
          BY <2>2, <3>1, <3>2, <4>2 DEF Lru!Take
      <3> QED
        BY <3>3, <3>4
    <2> QED
      BY <2>1, <2>3, <2>4
  <1>4. ASSUME NEW b \in Blks, BreadFree(b) PROVE Lru!Take
    <2>1. PICK x, q :
            /\ x \in Bufs /\ FreeIs(q) /\ Len(q) > 1 /\ x = q[1] /\ FreeIs(Omit(q, 1))'
            /\ dev' = [dev EXCEPT ![x] = Dev] /\ blk' = [blk EXCEPT ![x] = b]
      BY <1>4, BreadFreeKeeps
    <2>2. tidy' = tidy /\ (tidy => \A y \in Bufs : Names(y, b) => Odd(y))
      BY <1>4, BreadFreeKeeps
    <2>3. FreeSeq = q /\ q \in Seq(Bufs) /\ 1 \in 1 .. Len(q)
      BY <2>1, FreeSeqIs DEF FreeIs
    <2>4. FreeSeq' = Lru!RemoveAt(q, 1) /\ 1 \in DOMAIN q
      BY <2>1, <2>3, FreeSeqNext, RemoveAtIs
    <2>5. D = [C EXCEPT ![x] = IF Dev = 0 /\ b = 0 THEN Null ELSE b]
      BY <1>0, <1>1, <1>2, <2>1 DEF Odd
    <2>6. CASE ~(Dev = 0 /\ b = 0)
      <3>1. tidy => \A y \in Bufs : C[y] # b
        <4> SUFFICES ASSUME tidy, NEW y \in Bufs, C[y] = b PROVE FALSE
          OBVIOUS
        <4>1. dev[y] = Dev /\ ~Odd(y) /\ blk[y] = b
          BY <1>0, <1>1
        <4> QED
          BY <2>2, <4>1 DEF Names
      <3>2. D = [C EXCEPT ![q[1]] = b]
        BY <2>1, <2>5, <2>6
      <3>3. Lru!Miss(1)
        BY <1>1, <1>2, <2>3, <3>1, <3>2 DEF Lru!Miss
      <3> QED
        BY <2>2, <2>3, <2>4, <3>3 DEF Lru!Take
    <2>7. CASE Dev = 0 /\ b = 0
      <3>1. D = [C EXCEPT ![q[1]] = Null] /\ Dev = 0 /\ 0 \in Blks
        BY <2>1, <2>5, <2>7
      <3>2. Lru!Aside(1)
        BY <1>1, <1>2, <2>3, <3>1 DEF Lru!Aside
      <3> QED
        BY <2>2, <2>3, <2>4, <3>2 DEF Lru!Take
    <2> QED
      BY <2>6, <2>7
  <1>5. ASSUME NEW x \in Bufs, Brelse(x) PROVE Lru!Give
    <2>1. PICK q : FreeIs(q) /\ x \notin Members(q) /\ FreeIs(Append(q, x))'
      BY <1>5, BrelseKeeps
    <2>2. FreeSeq = q /\ FreeSeq' = Append(q, x)
      BY <2>1, FreeSeqIs, FreeSeqNext
    <2>3. D = C /\ tidy' = tidy
      BY <1>5, <1>c, BrelseKeeps
    <2>4. q \in Seq(Bufs) /\ x \notin Lru!Range(q)
      BY <2>1 DEF FreeIs, Members, Lru!Range
    <2> QED
      BY <1>1, <1>2, <2>2, <2>3, <2>4 DEF Lru!Give
  <1>6. ASSUME ~astray, Remount PROVE Lru!Reset
    <2>1. FreeSeq' = [i \in 1 .. NBuf |-> i - 1]
      BY <1>6, RemountKeeps, FreeSeqNext
    <2>2. D = [x \in Bufs |-> Null]
      BY <1>2, <1>6 DEF Remount, Odd
    <2>3. tidy' \in BOOLEAN
      BY <1>6, RemountKeeps DEF BufInv, BufShapes
    <2> QED
      BY <1>2, <2>1, <2>2, <2>3, FreshOrder DEF Lru!Reset
  <1>7. ASSUME \A q : FreeIs(q) => FreeIs(q)', UNCHANGED <<dev, blk, tidy>>
        PROVE  FreeSeq' = FreeSeq /\ D = C /\ tidy' = tidy
    <2>1. PICK q : FreeIs(q)
      BY DEF BufInv, FreeLists
    <2> QED
      BY <1>7, <1>c, <1>d, <2>1
  <1>8. CASE BreadFilled
    BY <1>1, <1>2, <1>7, <1>8, BreadFilledKeeps
  <1>9. ASSUME NEW b \in Blks, Astray(b) PROVE FreeSeq' = FreeSeq /\ D = C /\ tidy' = tidy
    BY <1>7, <1>9, AstrayKeeps
  <1>10. ASSUME NEW x \in Bufs, LsReturns(x) PROVE FreeSeq' = FreeSeq /\ D = C /\ tidy' = tidy
    BY <1>7, <1>10, LsReturnsKeeps
  <1>11. CASE /\ Handler \/ \E t \in Threads : IoStep(t) \/ Call(t) \/ Done(t)
              /\ UNCHANGED cache
    <2>1. \A q : FreeIs(q) => FreeIs(q)'
      BY <1>11, DriverKeepsBuf
    <2> QED
      BY <1>1, <1>2, <1>7, <1>11, <2>1 DEF cache, heads, page
  <1>12. CASE UNCHANGED bvars
    <2>1. UNCHANGED cache /\ ret' = ret /\ ask' = ask
      BY <1>12 DEF bvars, vars, iolocal
    <2>2. \A q : FreeIs(q) => FreeIs(q)'
      BY <2>1, OthersKeepBuf
    <2> QED
      BY <1>1, <1>2, <1>7, <2>1, <2>2 DEF cache, heads, page
  <1> QED
    BY <1>1, <1>2, <1>3, <1>4, <1>5, <1>6, <1>8, <1>9, <1>10, <1>11, <1>12 DEF BNext, Lru!LNext

(* The buffer cache, with all its pointers, is a least-recently-used cache *)
(* of as many buffers: what is in no buffer takes the place of what was    *)
(* given back longest ago, and on links in order a block that is in one is *)
(* found there; block 0 of device 0 is not kept track of (buf.c:50-346).   *)
THEOREM CacheImplementsLru ==
  ASSUME Threads = {Console}
  PROVE  BSpec => ImplementsLru
  <1>1. BInit => Lru!LInit
    <2> SUFFICES ASSUME BInit PROVE Lru!LInit
      OBVIOUS
    <2>1. FreeSeq = [i \in 1 .. NBuf |-> i - 1] /\ tidy \in BOOLEAN
      BY InitBufInv, FreeSeqIs DEF BufInv, BufShapes
    <2>2. [x \in Bufs |-> IF dev[x] = Dev /\ ~Odd(x) THEN blk[x] ELSE Null] = [x \in Bufs |-> Null]
      BY DEF BInit, Odd
    <2> QED
      BY <2>1, <2>2, FreshOrder DEF Lru!LInit
  <1>2. IoInv /\ BufInv /\ [BNext]_bvars
          => [Lru!LNext]_<<FreeSeq,
                           [x \in Bufs |-> IF dev[x] = Dev /\ ~Odd(x) THEN blk[x] ELSE Null], tidy>>
    BY StepsMap
  <1> QED
    BY <1>1, <1>2, BufInvariant, PTL DEF BSpec, ImplementsLru, Lru!LSpec

-----------------------------------------------------------------------------
(* What is known of the sizes.                                             *)
LEMMA Ext2Sizes ==
  /\ BlockSize \in Nat \ {0} /\ NDirect \in Nat \ {0} /\ BlockSectors \in Nat \ {0}
  /\ Word \in Nat \ {0} /\ K \in Nat \ {0, 1} /\ K * K \in Nat /\ K * K > K
  /\ K * K * K \in Nat /\ K * K * K > K * K
  /\ IndMax \in Nat /\ DindMax \in Nat /\ NDirect < IndMax /\ IndMax < DindMax
  <1>1. /\ BlockSize \in Nat \ {0} /\ NDirect \in Nat \ {0} /\ BlockSectors \in Nat \ {0}
        /\ Word \in Nat \ {0} /\ K \in Nat \ {0, 1}
    BY Ext2Assumption
  <1>2. K * K \in Nat /\ K * K > K
    BY <1>1
  <1>3. K * K * K \in Nat /\ K * K * K > K * K
    BY <1>1, <1>2
  <1> QED
    BY <1>1, <1>2, <1>3 DEF IndMax, DindMax

(* The quotient and the remainder are what they are checked to be.         *)
LEMMA DivIs ==
  ASSUME NEW q \in Nat, NEW d \in Nat, NEW r \in 0 .. d - 1, NEW a \in Nat, a = q * d + r
  PROVE  a \div d = q /\ a % d = r
  <1>1. PICK p \in Nat, s \in 0 .. d - 1 : a \div d = p /\ a % d = s /\ p * d + s = a
    BY DivMod
  <1>2. p = q
    <2>1. CASE p < q
      <3>1. PICK k \in Nat \ {0} : q = p + k
        <4> q - p \in Nat \ {0}
          BY <2>1
        <4> QED
          BY <2>1
      <3>2. q * d = p * d + k * d /\ k * d >= d
        BY <3>1
      <3> QED
        BY <1>1, <3>2
    <2>2. CASE q < p
      <3>1. PICK k \in Nat \ {0} : p = q + k
        <4> p - q \in Nat \ {0}
          BY <2>2
        <4> QED
          BY <2>2
      <3>2. p * d = q * d + k * d /\ k * d >= d
        BY <3>1
      <3> QED
        BY <1>1, <3>2
    <2> QED
      BY <2>1, <2>2
  <1> QED
    BY <1>1, <1>2

(* A direct block is there or is a hole.                                   *)
LEMMA NodeOne ==
  ASSUME NEW f, NEW i \in Nat
  PROVE  Node(f, i, 1) = IF i \in f.has THEN <<"data", i>> ELSE Hole
  <1>1. i .. i + 1 - 1 = {i}
    OBVIOUS
  <1> QED
    BY <1>1 DEF Node

(* A table is there if one of its blocks is.                               *)
LEMMA NodeMap ==
  ASSUME NEW f, NEW i \in Nat, NEW n \in Nat \ {0, 1}
  PROVE  Node(f, i, n) = IF f.has \cap (i .. i + n - 1) = {} THEN Hole ELSE <<"map", i, n>>
  BY DEF Node

(* Nothing is found by way of what is no table.                            *)
LEMMA EntryStray ==
  ASSUME NEW f, NEW j
  PROVE  /\ Entry(f, Hole, j) = Stray /\ Entry(f, Stray, j) = Stray
         /\ \A i : Entry(f, <<"data", i>>, j) = Stray
  BY DEF Entry, Hole, Stray

(* A word of a table is a table of a Kth of its blocks.                    *)
LEMMA EntryMap ==
  ASSUME NEW f, NEW i \in Nat, NEW m \in Nat, NEW j \in Nat
  PROVE  Entry(f, <<"map", i, m * K>>, j) = IF j < K THEN Node(f, i + j * m, m) ELSE Stray
  <1>1. (m * K) \div K = m
    <2>1. 0 \in 0 .. K - 1 /\ m * K \in Nat /\ m * K = m * K + 0
      BY Ext2Sizes
    <2> QED
      BY <2>1, Ext2Sizes, DivIs
  <1> QED
    BY <1>1 DEF Entry

(* A word of a table that may be missing.                                  *)
LEMMA TableWord ==
  ASSUME NEW f, NEW i \in Nat, NEW m \in Nat \ {0}, NEW j \in Nat
  PROVE  Entry(f, Node(f, i, m * K), j)
           = IF j < K /\ Node(f, i, m * K) # Hole THEN Node(f, i + j * m, m) ELSE Stray
  <1>1. m * K \in Nat \ {0, 1}
    BY Ext2Sizes
  <1>2. Hole # <<"map", i, m * K>>
    BY DEF Hole
  <1>3. CASE Node(f, i, m * K) = Hole
    BY <1>3, EntryStray
  <1>4. CASE Node(f, i, m * K) = <<"map", i, m * K>>
    BY <1>2, <1>4, EntryMap
  <1> QED
    BY <1>1, <1>3, <1>4, NodeMap

(* A word of a table whose words are blocks.                               *)
LEMMA LastWord ==
  ASSUME NEW f, NEW i \in Nat, NEW j \in 0 .. K - 1
  PROVE  Entry(f, Node(f, i, K), j)
           = IF Node(f, i, K) = Hole THEN Stray
             ELSE IF i + j \in f.has THEN <<"data", i + j>> ELSE Hole
  <1>1. 1 * K = K /\ i + j * 1 = i + j /\ j \in Nat /\ j < K /\ i + j \in Nat
    BY Ext2Sizes
  <1>2. Entry(f, Node(f, i, K), j)
          = IF Node(f, i, K) # Hole THEN Node(f, i + j, 1) ELSE Stray
    BY <1>1, TableWord
  <1> QED
    BY <1>1, <1>2, NodeOne

(* A table is missing only if those it points to are.                      *)
LEMMA PartMissing ==
  ASSUME NEW f, NEW i \in Nat, NEW n \in Nat \ {0, 1}, NEW j \in Nat, NEW m \in Nat \ {0, 1},
         i <= j, j + m <= i + n, Node(f, i, n) = Hole
  PROVE  Node(f, j, m) = Hole /\ \A b \in j .. j + m - 1 : b \notin f.has
  <1>1. f.has \cap (i .. i + n - 1) = {}
    <2>1. Hole # <<"map", i, n>>
      BY DEF Hole
    <2> QED
      BY <2>1, NodeMap
  <1>2. j .. j + m - 1 \subseteq i .. i + n - 1
    OBVIOUS
  <1>3. f.has \cap (j .. j + m - 1) = {}
    BY <1>1, <1>2
  <1> QED
    BY <1>3, NodeMap

(* The last table on the way to a block.                                   *)
TableOf(f, i) == Node(f, IndMax + ((i - IndMax) \div K) * K, K)

(* What is to be had of block i by way of tables, if the first exists.     *)
ByTables(f, i) ==
  IF TableOf(f, i) = Hole THEN Stray ELSE IF i \in f.has THEN <<"data", i>> ELSE Hole

(* ext2fs_get_block(): the double tables find what is there.               *)
LEMMA DindFinds ==
  ASSUME NEW f, NEW i \in IndMax .. DindMax - 1
  PROVE  /\ Dind(f) # Hole => DindBlock(f, i) = ByTables(f, i)
         /\ Dind(f) = Hole => TableOf(f, i) = Hole /\ i \notin f.has
  <1>1. PICK q \in Nat, r \in 0 .. K - 1 :
          (i - IndMax) \div K = q /\ (i - IndMax) % K = r /\ q * K + r = i - IndMax
    <2>1. i - IndMax \in Nat /\ K \in Nat /\ K > 0
      BY Ext2Sizes
    <2> QED
      BY <2>1, DivMod
  <1>2. q < K /\ q * K \in Nat /\ q * K + K <= K * K
    <2>1. q * K + r < K * K
      BY <1>1, Ext2Sizes DEF DindMax
    <2>2. q < K
      <3> SUFFICES ASSUME q >= K PROVE FALSE
        BY Ext2Sizes
      <3> q * K >= K * K
        BY Ext2Sizes
      <3> QED
        BY <2>1, Ext2Sizes
    <2>3. (q + 1) * K <= K * K
      BY <2>2, Ext2Sizes
    <2> QED
      BY <2>2, <2>3, Ext2Sizes
  <1>3. TableOf(f, i) = Node(f, IndMax + q * K, K) /\ IndMax + q * K + r = i
        /\ IndMax + q * K \in Nat
    BY <1>1, <1>2, Ext2Sizes DEF TableOf
  <1>4. CASE Dind(f) # Hole
    <2>1. Entry(f, Dind(f), q) = Node(f, IndMax + q * K, K)
      BY <1>2, <1>4, TableWord, Ext2Sizes DEF Dind
    <2> QED
      BY <1>1, <1>3, <1>4, <2>1, LastWord DEF DindBlock, ByTables
  <1>5. CASE Dind(f) = Hole
    <2>1. Node(f, IndMax + q * K, K) = Hole
          /\ \A b \in IndMax + q * K .. IndMax + q * K + K - 1 : b \notin f.has
      <3>1. K \in Nat \ {0, 1} /\ K * K \in Nat \ {0, 1} /\ IndMax \in Nat
            /\ IndMax <= IndMax + q * K /\ IndMax + q * K + K <= IndMax + K * K
        BY <1>2, Ext2Sizes
      <3>2. Node(f, IndMax, K * K) = Hole
        BY <1>5 DEF Dind
      <3> QED
        BY <1>3, <3>1, <3>2, PartMissing
    <2>2. i \in IndMax + q * K .. IndMax + q * K + K - 1
      BY <1>2, <1>3, Ext2Sizes
    <2> QED
      BY <1>3, <1>5, <2>1, <2>2
  <1> QED
    BY <1>4, <1>5

(* The blocks that ext2fs_get_block() can find.                            *)
Reach == DindMax + K * K

(* The triple table leads to the blocks of its first double table ...      *)
LEMMA TindFinds ==
  ASSUME NEW f, NEW i \in DindMax .. Reach - 1
  PROVE  /\ Tind(f) # Hole => TindBlock(f, i) = ByTables(f, i)
         /\ Tind(f) = Hole => TableOf(f, i) = Hole /\ i \notin f.has
  <1>0. i \in Nat /\ i - DindMax \in Nat /\ i - DindMax < K * K /\ i - IndMax = i - DindMax + K * K
        /\ DindMax = IndMax + K * K
    BY Ext2Sizes DEF Reach, DindMax
  <1>1. PICK q \in Nat, r \in 0 .. K - 1 :
          (i - DindMax) \div K = q /\ (i - DindMax) % K = r /\ q * K + r = i - DindMax
    <2>1. i - DindMax \in Nat /\ K \in Nat /\ K > 0
      BY <1>0, Ext2Sizes
    <2> QED
      BY <2>1, DivMod
  <1>2. q < K /\ q * K \in Nat /\ q * K + K <= K * K
    <2>1. q * K + r < K * K
      BY <1>0, <1>1
    <2>2. q < K
      <3> SUFFICES ASSUME q >= K PROVE FALSE
        BY Ext2Sizes
      <3> q * K >= K * K
        BY Ext2Sizes
      <3> QED
        BY <2>1, Ext2Sizes
    <2>3. (q + 1) * K <= K * K
      BY <2>2, Ext2Sizes
    <2> QED
      BY <2>2, <2>3, Ext2Sizes
  <1>3. (i - DindMax) \div (K * K) = 0
    <2>1. K * K \in Nat /\ i - DindMax \in 0 .. K * K - 1 /\ i - DindMax = 0 * (K * K) + (i - DindMax)
      BY <1>0, Ext2Sizes
    <2> QED
      BY <2>1, DivIs
  <1>4. (i - IndMax) \div K = q + K
    <2>1. i - IndMax = (q + K) * K + r /\ i - IndMax \in Nat /\ q + K \in Nat
      BY <1>0, <1>1, Ext2Sizes
    <2> QED
      BY <2>1, DivIs, Ext2Sizes
  <1>5. TableOf(f, i) = Node(f, DindMax + q * K, K) /\ DindMax + q * K + r = i
        /\ DindMax + q * K \in Nat
    <2>1. IndMax + (q + K) * K = DindMax + q * K
      BY <1>0, <1>2, Ext2Sizes
    <2> QED
      BY <1>0, <1>1, <1>2, <1>4, <2>1, Ext2Sizes DEF TableOf
  <1>6. ASSUME NEW n \in {K * K, K * K * K}, Node(f, DindMax, n) = Hole
        PROVE  TableOf(f, i) = Hole /\ i \notin f.has
    <2>1. /\ K \in Nat \ {0, 1} /\ n \in Nat \ {0, 1} /\ DindMax \in Nat
          /\ DindMax <= DindMax + q * K /\ DindMax + q * K + K <= DindMax + n
      BY <1>2, Ext2Sizes
    <2>2. Node(f, DindMax + q * K, K) = Hole
          /\ \A b \in DindMax + q * K .. DindMax + q * K + K - 1 : b \notin f.has
      BY <1>5, <1>6, <2>1, PartMissing
    <2>3. i \in DindMax + q * K .. DindMax + q * K + K - 1
      BY <1>2, <1>5, Ext2Sizes
    <2> QED
      BY <1>5, <2>2, <2>3
  <1>7. CASE Tind(f) # Hole
    <2>1. Entry(f, Tind(f), 0) = Node(f, DindMax, K * K)
      <3>1. K * K \in Nat \ {0} /\ DindMax + 0 * (K * K) = DindMax /\ 0 < K /\ (K * K) * K = K * K * K
        BY Ext2Sizes
      <3> QED
        BY <1>7, <3>1, TableWord, Ext2Sizes DEF Tind
    <2>2. CASE Node(f, DindMax, K * K) # Hole
      <3>1. Entry(f, Node(f, DindMax, K * K), q) = Node(f, DindMax + q * K, K)
        BY <1>2, <2>2, TableWord, Ext2Sizes
      <3> QED
        BY <1>1, <1>3, <1>5, <1>7, <2>1, <3>1, LastWord DEF TindBlock, ByTables
    <2>3. CASE Node(f, DindMax, K * K) = Hole
      <3>1. TindBlock(f, i) = Stray
        BY <1>3, <2>1, <2>3, EntryStray DEF TindBlock
      <3> QED
        BY <1>6, <1>7, <2>3, <3>1 DEF ByTables
    <2> QED
      BY <2>2, <2>3
  <1>8. CASE Tind(f) = Hole
    <2>1. TableOf(f, i) = Hole /\ i \notin f.has
      BY <1>6, <1>8 DEF Tind
    <2> QED
      BY <1>8, <2>1
  <1> QED
    BY <1>7, <1>8

(* ... and nowhere else, since the middle index is not reduced.            *)
LEMMA TindStrays ==
  ASSUME NEW f, NEW i \in Nat, i >= Reach
  PROVE  TindBlock(f, i) = Stray
  <1>0. i - DindMax \in Nat /\ i - DindMax >= K * K /\ K \in Nat /\ K > 0
    BY Ext2Sizes DEF Reach
  <1>1. PICK q \in Nat, r \in 0 .. K - 1 :
          (i - DindMax) \div K = q /\ (i - DindMax) % K = r /\ q * K + r = i - DindMax
    BY <1>0, DivMod
  <1>2. q >= K
    <2> SUFFICES ASSUME q + 1 <= K PROVE FALSE
      BY <1>0
    <2>1. (q + 1) * K <= K * K
      BY <1>0
    <2>2. q * K + r < (q + 1) * K
      BY <1>0
    <2> QED
      BY <1>0, <1>1, <2>1, <2>2
  <1>3. \A b : Entry(f, b, q) = Stray
    BY <1>0, <1>2 DEF Entry
  <1> QED
    BY <1>1, <1>3, EntryStray DEF TindBlock

(* inode->i_blocks counts at least the blocks, and the tables if any.      *)
LEMMA IBlocksCount ==
  ASSUME NEW f, IsFiniteSet(f.has)
  PROVE  /\ IBlocks(f) \in Nat /\ IBlocks(f) >= Cardinality(f.has)
         /\ Ind(f) # Hole => IBlocks(f) > Cardinality(f.has)
  <1> DEFINE maps(n, first, many) == {m \in 0 .. many - 1 : Node(f, first + m * n, n) # Hole}
             a == Cardinality(f.has)
             b == Cardinality(maps(K, NDirect, 1 + K + K * K))
             c == Cardinality(maps(K * K, IndMax, 1 + K))
             d == Cardinality(maps(K * K * K, DindMax, 1))
  <1>1. ASSUME NEW n, NEW first, NEW many \in Nat
        PROVE  IsFiniteSet(maps(n, first, many))
    <2>1. maps(n, first, many) \subseteq 0 .. many - 1
      OBVIOUS
    <2>2. IsFiniteSet(0 .. many - 1)
      BY FS_Interval
    <2> HIDE DEF maps
    <2> QED
      BY <2>1, <2>2, FS_Subset
  <1>2. 1 + K + K * K \in Nat /\ 1 + K \in Nat /\ 1 \in Nat
    BY Ext2Sizes
  <1>3. Ind(f) # Hole => maps(K, NDirect, 1 + K + K * K) # {}
    <2>1. 0 \in 0 .. (1 + K + K * K) - 1 /\ NDirect + 0 * K = NDirect
      BY Ext2Sizes
    <2>2. Node(f, NDirect + 0 * K, K) = Ind(f)
      BY <2>1 DEF Ind
    <2>3. ASSUME Ind(f) # Hole
          PROVE  0 \in {m \in 0 .. (1 + K + K * K) - 1 : Node(f, NDirect + m * K, K) # Hole}
      BY <2>1, <2>2, <2>3
    <2>4. ASSUME Ind(f) # Hole
          PROVE  {m \in 0 .. (1 + K + K * K) - 1 : Node(f, NDirect + m * K, K) # Hole} # {}
      BY Zenon, <2>3, <2>4
    <2> QED
      BY Zenon, <2>4
  <1>4. IsFiniteSet(maps(K, NDirect, 1 + K + K * K)) /\ IsFiniteSet(maps(K * K, IndMax, 1 + K))
        /\ IsFiniteSet(maps(K * K * K, DindMax, 1))
    <2> HIDE DEF maps
    <2> QED
      BY <1>1, <1>2
  <1>5. IBlocks(f) = BlockSectors * (a + b + c + d)
    BY DEF IBlocks
  <1> HIDE DEF maps
  <1>6. a \in Nat /\ b \in Nat /\ c \in Nat /\ d \in Nat
    BY <1>4, FS_CardinalityType
  <1>7. Ind(f) # Hole => b > 0
    BY <1>3, <1>4, <1>6, FS_EmptySet
  <1> HIDE DEF a, b, c, d
  <1>8. PICK n \in Nat : n = a + b + c + d
    BY <1>6
  <1>9. BlockSectors * n \in Nat /\ BlockSectors * n >= n
    BY Ext2Sizes
  <1> QED
    BY <1>5, <1>6, <1>7, <1>8, <1>9 DEF a

(* ext2fs_get_block(): what it returns for any block of any file.          *)
LEMMA GetBlockIs ==
  ASSUME NEW f, IsFiniteSet(f.has), NEW i \in Nat
  PROVE  /\ i >= IBlocks(f) => GetBlock(f, i) = Hole
         /\ i < IBlocks(f) /\ i < IndMax =>
              GetBlock(f, i) = IF i \in f.has THEN <<"data", i>> ELSE Hole
         /\ i < IBlocks(f) /\ i \in IndMax .. DindMax - 1 =>
              GetBlock(f, i) = IF Dind(f) = Hole THEN Hole ELSE ByTables(f, i)
         /\ i < IBlocks(f) /\ i \in DindMax .. Reach - 1 =>
              GetBlock(f, i) = IF Tind(f) = Hole THEN Hole ELSE ByTables(f, i)
         /\ i < IBlocks(f) /\ i >= Reach =>
              GetBlock(f, i) = IF Tind(f) = Hole THEN Hole ELSE Stray
  <1>0. /\ NDirect \in Nat /\ IndMax \in Nat /\ DindMax \in Nat /\ Reach \in Nat
        /\ NDirect < IndMax /\ IndMax < DindMax /\ DindMax < Reach /\ IndMax = NDirect + K
        /\ K \in Nat
    BY Ext2Sizes DEF Reach, IndMax
  <1>3. IBlocks(f) \in Nat
    BY IBlocksCount
  <1>1. CASE i >= IBlocks(f)
    BY <1>0, <1>1, <1>3 DEF GetBlock
  <1>2. CASE ~(i >= IBlocks(f)) /\ i < IBlocks(f)
    <2>1. CASE i < NDirect
      BY <1>0, <1>2, <2>1, NodeOne DEF GetBlock, Direct
    <2>2. CASE i \in NDirect .. IndMax - 1
      <3>1. GetBlock(f, i) = IF Ind(f) = Hole THEN Hole ELSE Entry(f, Ind(f), i - NDirect)
        BY <1>0, <1>2, <2>2 DEF GetBlock
      <3>2. i - NDirect \in 0 .. K - 1 /\ NDirect + (i - NDirect) = i
        BY <1>0, <2>2
      <3>3. Ind(f) = Hole => i \notin f.has
        <4>1. NDirect <= NDirect /\ NDirect + K <= NDirect + K /\ i \in NDirect .. NDirect + K - 1
          BY <1>0, <2>2
        <4> QED
          BY <1>0, <4>1, PartMissing, Ext2Sizes DEF Ind
      <3> QED
        BY <1>0, <1>2, <2>2, <3>1, <3>2, <3>3, LastWord DEF Ind
    <2>3. CASE i \in IndMax .. DindMax - 1
      BY <1>0, <1>2, <2>3, DindFinds DEF GetBlock
    <2>4. CASE i \in DindMax .. Reach - 1
      <3>1. GetBlock(f, i) = IF Tind(f) = Hole THEN Hole ELSE TindBlock(f, i)
        BY <1>0, <1>2, <2>4 DEF GetBlock
      <3> QED
        BY <1>0, <1>2, <2>4, <3>1, TindFinds
    <2>5. CASE i >= Reach
      <3>1. GetBlock(f, i) = IF Tind(f) = Hole THEN Hole ELSE TindBlock(f, i)
        BY <1>0, <1>2, <2>5 DEF GetBlock
      <3> QED
        BY <1>0, <1>2, <2>5, <3>1, TindStrays
    <2> QED
      BY <1>0, <2>1, <2>2, <2>3, <2>4, <2>5
  <1> QED
    BY <1>1, <1>2, <1>3

(* A table is there if a block of it is.                                   *)
LEMMA NodeThere ==
  ASSUME NEW f, NEW i \in Nat, NEW n \in Nat \ {0, 1}, NEW b \in i .. i + n - 1, b \in f.has
  PROVE  Node(f, i, n) # Hole
  <1>1. f.has \cap (i .. i + n - 1) # {} /\ Hole # <<"map", i, n>>
    BY DEF Hole
  <1> QED
    BY <1>1, NodeMap

(* The last table on the way to a block holds it.                          *)
LEMMA TableOfIs ==
  ASSUME NEW f, NEW i \in Nat, i >= IndMax
  PROVE  \E b \in Nat : /\ TableOf(f, i) = Node(f, b, K) /\ b >= IndMax
                        /\ i \in b .. b + K - 1 /\ b = i - ((i - IndMax) % K)
                        /\ (i - IndMax) % K \in 0 .. K - 1
  <1>1. PICK q \in Nat, r \in 0 .. K - 1 :
          (i - IndMax) \div K = q /\ (i - IndMax) % K = r /\ q * K + r = i - IndMax
    <2>1. i - IndMax \in Nat /\ K \in Nat /\ K > 0
      BY Ext2Sizes
    <2> QED
      BY <2>1, DivMod
  <1>2. q * K \in Nat
    BY Ext2Sizes
  <1>3. PICK b \in Nat : b = IndMax + q * K
    BY <1>2, Ext2Sizes
  <1>4. TableOf(f, i) = Node(f, b, K)
    BY <1>1, <1>3 DEF TableOf
  <1>5. b >= IndMax /\ i \in b .. b + K - 1 /\ b = i - r
    BY <1>1, <1>2, <1>3, Ext2Sizes
  <1>6. b = i - ((i - IndMax) % K) /\ (i - IndMax) % K \in 0 .. K - 1
    BY <1>1, <1>5
  <1> QED
    BY <1>4, <1>5, <1>6

(* ext2fs_get_block(): a block that exists is found, if it is within       *)
(* reach; one that does not is a hole, or what block 0 holds at its place. *)
LEMMA BlockIs ==
  ASSUME NEW f, IsFiniteSet(f.has), NEW i \in Nat, i < Reach
  PROVE  /\ i < IBlocks(f) /\ i \in f.has => GetBlock(f, i) = <<"data", i>>
         /\ i \notin f.has =>
              \/ GetBlock(f, i) = Hole
              \/ GetBlock(f, i) = Stray /\ i >= IndMax /\ TableOf(f, i) = Hole
         /\ i >= IBlocks(f) => GetBlock(f, i) = Hole
  <1>0. IBlocks(f) \in Nat /\ IndMax \in Nat /\ DindMax \in Nat /\ Reach \in Nat
    BY IBlocksCount, Ext2Sizes DEF Reach
  <1>1. CASE i < IndMax
    BY <1>0, <1>1, GetBlockIs
  <1>2. CASE i >= IndMax
    <2>1. i \in f.has => TableOf(f, i) # Hole
      <3>1. PICK b \in Nat : TableOf(f, i) = Node(f, b, K) /\ i \in b .. b + K - 1
        BY <1>2, TableOfIs
      <3> QED
        BY <3>1, NodeThere, Ext2Sizes
    <2>2. CASE i < DindMax
      <3>1. i \in IndMax .. DindMax - 1
        BY <1>0, <1>2, <2>2
      <3>2. Dind(f) = Hole => i \notin f.has
        BY <3>1, DindFinds
      <3> QED
        BY <1>0, <1>2, <2>1, <3>1, <3>2, GetBlockIs DEF ByTables
    <2>3. CASE i >= DindMax
      <3>1. i \in DindMax .. Reach - 1
        BY <1>0, <2>3
      <3>2. Tind(f) = Hole => i \notin f.has
        BY <3>1, TindFinds
      <3> QED
        BY <1>0, <1>2, <2>1, <3>1, <3>2, GetBlockIs DEF ByTables
    <2> QED
      BY <1>0, <2>2, <2>3
  <1> QED
    BY <1>0, <1>1, <1>2

(* The last table of a file without holes is missing at its end exactly if *)
(* the end is where a table would begin.                                   *)
LEMMA TableAtEnd ==
  ASSUME NEW f, NEW n \in Nat, f.has = 0 .. n - 1, n >= IndMax
  PROVE  TableOf(f, n) = Hole <=> (n - IndMax) % K = 0
  <1>1. PICK b \in Nat : /\ TableOf(f, n) = Node(f, b, K) /\ b >= IndMax
                         /\ n \in b .. b + K - 1 /\ b = n - ((n - IndMax) % K)
                         /\ (n - IndMax) % K \in 0 .. K - 1
    BY TableOfIs
  <1>2. PICK r \in 0 .. K - 1 : r = (n - IndMax) % K
    BY <1>1
  <1>3. CASE r = 0
    <2>1. f.has \cap (b .. b + K - 1) = {}
      BY SMTT(40), <1>1, <1>2, <1>3, Ext2Sizes
    <2> QED
      BY <1>1, <1>2, <1>3, <2>1, NodeMap, Ext2Sizes
  <1>4. CASE r # 0
    <2>2. b = n - r
      BY Zenon, <1>1, <1>2
    <2>3. K > 1 /\ K \in Nat
      BY Ext2Sizes
    <2>0. b = n - r /\ r >= 1 /\ K > 1 /\ K \in Nat
      BY <1>4, <2>2, <2>3
    <2>1. b \in b .. b + K - 1 /\ b \in f.has
      BY <2>0
    <2> QED
      BY <1>1, <1>2, <1>4, <2>1, NodeThere, Ext2Sizes
  <1> QED
    BY <1>3, <1>4

(* ext2fs_get_block(), for files without holes of any length: their blocks *)
(* are found as far as the first double table of the triple one reaches,   *)
(* and nothing past the end, except for a table that is missing there.     *)
THEOREM FileBlocksFound == \A n \in Nat : BlocksFound(n)
  <1> SUFFICES ASSUME NEW n \in Nat PROVE BlocksFound(n)
    OBVIOUS
  <1> DEFINE f == DenseFile(n, n * BlockSize)
             newTable == n > IndMax /\ n # DindMax /\ (n - IndMax) % K = 0
  <1>1. f.has = 0 .. n - 1
    BY DEF DenseFile
  <1>2. IsFiniteSet(f.has) /\ Cardinality(f.has) = n
    <2>1. IsFiniteSet(0 .. n - 1) /\ Cardinality(0 .. n - 1) = n
      BY FS_Interval
    <2> QED
      BY <1>1, <2>1
  <1> HIDE DEF f
  <1>3. IBlocks(f) \in Nat /\ IBlocks(f) >= n /\ (Ind(f) # Hole => IBlocks(f) > n)
    BY <1>2, IBlocksCount
  <1>4. /\ NDirect \in Nat /\ IndMax \in Nat /\ DindMax \in Nat /\ Reach \in Nat /\ K \in Nat \ {0, 1}
        /\ NDirect < IndMax /\ IndMax < DindMax /\ DindMax < Reach /\ IndMax = NDirect + K
        /\ DindMax = IndMax + K * K /\ K * K \in Nat \ {0, 1} /\ K * K * K \in Nat \ {0, 1}
        /\ Reach = DindMax + K * K
    BY Ext2Sizes DEF Reach, IndMax, DindMax
  <1>5. n > NDirect => Ind(f) # Hole
    <2>1. NDirect \in NDirect .. NDirect + K - 1 /\ (n > NDirect => NDirect \in f.has)
      BY <1>1, <1>4
    <2> QED
      BY <1>4, <2>1, NodeThere DEF Ind
  <1>6. n > IndMax => Dind(f) # Hole
    BY <1>1, <1>4, NodeThere DEF Dind
  <1>7. n > DindMax => Tind(f) # Hole
    BY <1>1, <1>4, NodeThere DEF Tind
  <1>8. ASSUME NEW i \in 0 .. n - 1
        PROVE  GetBlock(f, i) = IF i < Reach THEN <<"data", i>> ELSE Stray
    <2>1. i \in Nat /\ i < IBlocks(f) /\ i \in f.has
      BY <1>1, <1>3
    <2>2. CASE i < Reach
      BY <1>2, <2>1, <2>2, BlockIs
    <2>3. CASE i >= Reach
      <3>1. Tind(f) # Hole
        BY <1>4, <1>7, <2>3
      <3> QED
        BY <1>2, <1>4, <2>1, <2>3, <3>1, GetBlockIs
    <2> QED
      BY <1>4, <2>2, <2>3
  <1>9. ASSUME n < Reach
        PROVE  GetBlock(f, n) = IF newTable THEN Stray ELSE Hole
    <2>0. n \notin f.has
      BY <1>1
    <2>1. CASE n <= IndMax
      <3>1. CASE n < IndMax
        BY <1>2, <1>3, <1>4, <2>0, <3>1, GetBlockIs
      <3>2. CASE n = IndMax
        <4>1. f.has \cap (IndMax .. IndMax + K * K - 1) = {}
          BY <1>1, <1>4, <3>2
        <4>2. Dind(f) = Hole
          BY <1>4, <4>1, NodeMap DEF Dind
        <4> QED
          BY <1>2, <1>3, <1>4, <3>2, <4>2, GetBlockIs
      <3> QED
        BY <1>4, <2>1, <3>1, <3>2
    <2>2. CASE n = DindMax
      <3>1. f.has \cap (DindMax .. DindMax + K * K * K - 1) = {}
        BY <1>1, <1>4, <2>2
      <3>2. Tind(f) = Hole
        BY <1>4, <3>1, NodeMap DEF Tind
      <3> QED
        BY <1>2, <1>3, <1>4, <2>2, <3>2, GetBlockIs
    <2>3. CASE n > IndMax /\ n # DindMax
      <3>1. n < IBlocks(f)
        BY <1>3, <1>4, <1>5, <2>3
      <3>2. TableOf(f, n) = Hole <=> (n - IndMax) % K = 0
        BY <1>1, <1>4, <2>3, TableAtEnd
      <3>3. GetBlock(f, n) = ByTables(f, n)
        <4>1. CASE n < DindMax
          BY <1>2, <1>4, <1>6, <2>3, <3>1, <4>1, GetBlockIs
        <4>2. CASE n > DindMax
          BY <1>2, <1>4, <1>7, <1>9, <3>1, <4>2, GetBlockIs
        <4> QED
          BY <1>4, <2>3, <4>1, <4>2
      <3> QED
        BY <2>0, <2>3, <3>2, <3>3 DEF ByTables
    <2> QED
      BY <1>4, <2>1, <2>2, <2>3
  <1> QED
    BY <1>8, <1>9 DEF BlocksFound, f, Reach

-----------------------------------------------------------------------------
(* A byte of a file where ext2fs_read() looks for it, and a piece of bytes.*)
ByteAt(f, p) == <<GetBlock(f, p \div BlockSize), p % BlockSize>>
Piece(f, from, n) == [j \in 1 .. n |-> ByteAt(f, from + j - 1)]
HoleAt(f, p) == GetBlock(f, p \div BlockSize) = Hole

(* A piece is a sequence, and what follows it makes a longer one.          *)
LEMMA PieceIs ==
  ASSUME NEW f, NEW from \in Nat, NEW n \in Nat
  PROVE  /\ Piece(f, from, n) \in Seq({ByteAt(f, p) : p \in Nat})
         /\ Len(Piece(f, from, n)) = n
         /\ \A j \in 1 .. n : Piece(f, from, n)[j] = ByteAt(f, from + j - 1)
  <1> DEFINE S == {ByteAt(f, p) : p \in Nat}
  <1>1. ASSUME NEW j \in 1 .. n PROVE ByteAt(f, from + j - 1) \in S
    <2>1. from + j - 1 \in Nat
      OBVIOUS
    <2> QED
      BY <2>1
  <1> HIDE DEF S
  <1>2. Piece(f, from, n) \in [1 .. n -> S]
    BY <1>1 DEF Piece
  <1>3. Piece(f, from, n) \in Seq(S) /\ Len(Piece(f, from, n)) = n
    BY <1>2
  <1> QED
    BY <1>3 DEF Piece, S

(* Two pieces, the second from where the first ends, are one.             *)
LEMMA PieceJoin ==
  ASSUME NEW f, NEW from \in Nat, NEW m \in Nat, NEW n \in Nat
  PROVE  Piece(f, from, m) \o Piece(f, from + m, n) = Piece(f, from, m + n)
  <1> DEFINE a == Piece(f, from, m)
             b == Piece(f, from + m, n)
             c == Piece(f, from, m + n)
             S == {ByteAt(f, p) : p \in Nat}
  <1>0. from + m \in Nat /\ m + n \in Nat
    OBVIOUS
  <1>1. a \in Seq(S) /\ Len(a) = m /\ b \in Seq(S) /\ Len(b) = n /\ c \in Seq(S) /\ Len(c) = m + n
    BY <1>0, PieceIs
  <1>2. /\ \A j \in 1 .. m : a[j] = ByteAt(f, from + j - 1)
        /\ \A j \in 1 .. n : b[j] = ByteAt(f, from + m + j - 1)
        /\ \A j \in 1 .. m + n : c[j] = ByteAt(f, from + j - 1)
    BY <1>0, PieceIs
  <1> HIDE DEF a, b, c, S
  <1>3. a \o b \in Seq(S) /\ Len(a \o b) = m + n
    BY <1>1
  <1>4. ASSUME NEW j \in 1 .. m + n PROVE (a \o b)[j] = c[j]
    <2>1. CASE j <= m
      <3>1. (a \o b)[j] = a[j]
        BY <1>1, <2>1
      <3> QED
        BY <1>2, <2>1, <3>1
    <2>2. CASE j > m
      <3>1. (a \o b)[j] = b[j - m]
        <4>1. j \in 1 .. Len(a) + Len(b) /\ ~(j <= Len(a))
          BY <1>1, <2>2
        <4>2. (a \o b)[j] = IF j <= Len(a) THEN a[j] ELSE b[j - Len(a)]
          BY <1>1, <4>1, ConcatProperties
        <4> QED
          BY <1>1, <4>1, <4>2
      <3>2. j - m \in 1 .. n /\ from + m + (j - m) - 1 = from + j - 1
        BY <2>2
      <3> QED
        BY <1>2, <3>1, <3>2
    <2>3. j <= m \/ j > m
      OBVIOUS
    <2> QED
      BY Zenon, <2>1, <2>2, <2>3
  <1>5. a \o b = c
    <2>1. \A j \in 1 .. Len(a \o b) : (a \o b)[j] = c[j]
      BY <1>3, <1>4
    <2> QED
      BY <1>1, <1>3, <2>1, SeqEqual
  <1> QED
    BY <1>5 DEF a, b, c

(* The bytes of a block.                                                   *)
LEMMA ByteOf ==
  ASSUME NEW f, NEW b \in Nat, NEW o \in 0 .. BlockSize - 1
  PROVE  /\ b * BlockSize + o \in Nat
         /\ ByteAt(f, b * BlockSize + o) = <<GetBlock(f, b), o>>
         /\ HoleAt(f, b * BlockSize + o) <=> GetBlock(f, b) = Hole
  <1>1. BlockSize \in Nat /\ b * BlockSize \in Nat /\ b * BlockSize + o \in Nat
    BY Ext2Sizes
  <1>2. (b * BlockSize + o) \div BlockSize = b /\ (b * BlockSize + o) % BlockSize = o
    BY <1>1, DivIs
  <1> QED
    BY <1>1, <1>2 DEF ByteAt, HoleAt

(* What is copied from one block is a piece of the file.                   *)
LEMMA BytesArePiece ==
  ASSUME NEW f, NEW b \in Nat, NEW o \in 0 .. BlockSize - 1, NEW n \in Nat, o + n <= BlockSize
  PROVE  Bytes(GetBlock(f, b), o, n) = Piece(f, b * BlockSize + o, n)
  <1>1. ASSUME NEW j \in 1 .. n
        PROVE  <<GetBlock(f, b), o + j - 1>> = ByteAt(f, b * BlockSize + o + j - 1)
    <2>1. o + j - 1 \in 0 .. BlockSize - 1
      BY Ext2Sizes
    <2>2. b * BlockSize + (o + j - 1) = b * BlockSize + o + j - 1
      BY Ext2Sizes
    <2>3. ByteAt(f, b * BlockSize + (o + j - 1)) = <<GetBlock(f, b), o + j - 1>>
      BY <2>1, ByteOf
    <2> QED
      BY <2>2, <2>3
  <1> QED
    BY <1>1 DEF Bytes, Piece

(* What is copied from whole blocks is a piece of the file.                *)
LEMMA BlocksArePiece ==
  ASSUME NEW f, NEW b \in Nat, NEW n \in Nat
  PROVE  LET whole == [j \in 1 .. n |-> GetBlock(f, b + j - 1)]
         IN  /\ [j \in 1 .. n * BlockSize |->
                  <<whole[((j - 1) \div BlockSize) + 1], (j - 1) % BlockSize>>]
                  = Piece(f, b * BlockSize, n * BlockSize)
             /\ (\E j \in 1 .. n : whole[j] = Hole)
                  <=> \E p \in b * BlockSize .. b * BlockSize + n * BlockSize - 1 : HoleAt(f, p)
  <1> DEFINE whole == [j \in 1 .. n |-> GetBlock(f, b + j - 1)]
  <1>0. BlockSize \in Nat /\ BlockSize > 0 /\ b * BlockSize \in Nat /\ n * BlockSize \in Nat
    BY Ext2Sizes
  <1>1. ASSUME NEW k \in Nat, k < n * BlockSize
        PROVE  \E q \in 0 .. n - 1, r \in 0 .. BlockSize - 1 :
                 /\ k \div BlockSize = q /\ k % BlockSize = r
                 /\ b * BlockSize + k = (b + q) * BlockSize + r
    <2>1. PICK q \in Nat, r \in 0 .. BlockSize - 1 :
            k \div BlockSize = q /\ k % BlockSize = r /\ q * BlockSize + r = k
      BY <1>0, DivMod
    <2>2. q < n
      <3> SUFFICES ASSUME q >= n PROVE FALSE
        OBVIOUS
      <3> q * BlockSize >= n * BlockSize
        BY <1>0
      <3> QED
        BY <1>0, <1>1, <2>1
    <2>3. b * BlockSize + k = (b + q) * BlockSize + r
      BY <1>0, <2>1
    <2> QED
      BY <2>1, <2>2, <2>3
  <1>2. ASSUME NEW j \in 1 .. n * BlockSize
        PROVE  <<whole[((j - 1) \div BlockSize) + 1], (j - 1) % BlockSize>>
                 = ByteAt(f, b * BlockSize + j - 1)
    <2>1. j - 1 \in Nat /\ j - 1 < n * BlockSize
      BY <1>0
    <2>2. PICK q \in 0 .. n - 1, r \in 0 .. BlockSize - 1 :
            /\ (j - 1) \div BlockSize = q /\ (j - 1) % BlockSize = r
            /\ b * BlockSize + (j - 1) = (b + q) * BlockSize + r
      BY <1>1, <2>1
    <2>3. whole[q + 1] = GetBlock(f, b + q)
      <3>1. q + 1 \in 1 .. n /\ b + (q + 1) - 1 = b + q
        OBVIOUS
      <3> QED
        BY <3>1
    <2>4. ByteAt(f, (b + q) * BlockSize + r) = <<GetBlock(f, b + q), r>>
      <3>1. b + q \in Nat
        OBVIOUS
      <3> QED
        BY <3>1, ByteOf
    <2>5. b * BlockSize + j - 1 = (b + q) * BlockSize + r
      BY <1>0, <2>2
    <2> HIDE DEF whole
    <2> QED
      BY <2>2, <2>3, <2>4, <2>5
  <1>3. ASSUME NEW j \in 1 .. n, whole[j] = Hole
        PROVE  \E p \in b * BlockSize .. b * BlockSize + n * BlockSize - 1 : HoleAt(f, p)
    <2>1. HoleAt(f, (b + j - 1) * BlockSize + 0)
      <3>1. b + j - 1 \in Nat /\ 0 \in 0 .. BlockSize - 1
        BY <1>0
      <3> QED
        BY <1>3, <3>1, ByteOf
    <2>2. (b + j - 1) * BlockSize + 0 = b * BlockSize + (j - 1) * BlockSize
      BY <1>0
    <2>3. (j - 1) * BlockSize \in Nat /\ (j - 1) * BlockSize < n * BlockSize
      <3>1. PICK i \in Nat : i = j - 1
        OBVIOUS
      <3>2. i * BlockSize \in Nat /\ (i + 1) * BlockSize <= n * BlockSize
        BY <1>0, <3>1
      <3> QED
        BY <1>0, <3>1, <3>2
    <2>4. PICK p \in Nat : p = (j - 1) * BlockSize
      BY <2>3
    <2>5. b * BlockSize + p \in b * BlockSize .. b * BlockSize + n * BlockSize - 1
      BY <1>0, <2>3, <2>4
    <2> QED
      BY <2>1, <2>2, <2>4, <2>5
  <1>4. ASSUME NEW p \in b * BlockSize .. b * BlockSize + n * BlockSize - 1, HoleAt(f, p)
        PROVE  \E j \in 1 .. n : whole[j] = Hole
    <2>1. PICK k \in Nat : k = p - b * BlockSize /\ k < n * BlockSize
      <3>1. p - b * BlockSize \in Nat /\ p - b * BlockSize < n * BlockSize
        BY <1>0
      <3> QED
        BY <3>1
    <2>2. PICK q \in 0 .. n - 1, r \in 0 .. BlockSize - 1 : b * BlockSize + k = (b + q) * BlockSize + r
      BY <1>1, <2>1
    <2>3. p = (b + q) * BlockSize + r
      BY <1>0, <2>1, <2>2
    <2>4. GetBlock(f, b + q) = Hole
      BY <1>4, <2>3, ByteOf
    <2>5. q + 1 \in 1 .. n /\ b + (q + 1) - 1 = b + q
      OBVIOUS
    <2> QED
      BY <2>4, <2>5
  <1> QED
    BY <1>2, <1>3, <1>4 DEF Piece

(* r is what is read of n bytes from a position: all, or a block of them   *)
(* does not exist.                                                         *)
IsRead(f, r, from, n) ==
  \/ r = Returns(Piece(f, from, n)) /\ \A p \in from .. from + n - 1 : ~HoleAt(f, p)
  \/ r.ret \in {-1, 0} /\ \E p \in from .. from + n - 1 : HoleAt(f, p)

(* ext2fs_read(), from the beginning of a block on.                        *)
LEMMA ReadOnIs ==
  ASSUME NEW f, NEW from \in Nat, NEW m \in Nat, NEW b \in Nat, NEW cb \in Nat,
         from + m = b * BlockSize, \A p \in from .. from + m - 1 : ~HoleAt(f, p)
  PROVE  IsRead(f, ReadOn(f, Piece(f, from, m), b, cb), from, m + cb)
  <1>0. BlockSize \in Nat /\ BlockSize > 0
    BY Ext2Sizes
  <1> DEFINE k == cb \div BlockSize
             s == cb % BlockSize
  <1>1. k \in Nat /\ s \in 0 .. BlockSize - 1 /\ k * BlockSize + s = cb
    <2>1. PICK q \in Nat, o \in 0 .. BlockSize - 1 :
            cb \div BlockSize = q /\ cb % BlockSize = o /\ q * BlockSize + o = cb
      BY <1>0, DivMod
    <2> QED
      BY Zenon, <2>1
  <1> DEFINE whole == [j \in 1 .. k |-> GetBlock(f, b + j - 1)]
             last  == GetBlock(f, b + k)
             mid   == [j \in 1 .. k * BlockSize |->
                         <<whole[((j - 1) \div BlockSize) + 1], (j - 1) % BlockSize>>]
             r     == ReadOn(f, Piece(f, from, m), b, cb)
  <1>4. r = CASE \E j \in 1 .. k : whole[j] = Hole -> Failed(-1)
              [] OTHER -> IF s = 0 THEN Returns(Piece(f, from, m) \o mid)
                          ELSE IF last = Hole THEN Failed(0)
                          ELSE Returns(Piece(f, from, m) \o mid \o Bytes(last, 0, s))
    BY DEF ReadOn
  <1> HIDE DEF k, s
  <1>2. PICK u \in Nat : u = k * BlockSize
    BY <1>0, <1>1
  <1>3. /\ (b + k) * BlockSize = from + m + u /\ from + m \in Nat /\ m + u \in Nat
        /\ b + k \in Nat /\ s \in Nat /\ cb = u + s
    BY <1>0, <1>1, <1>2
  <1>5. /\ mid = Piece(f, from + m, u)
        /\ (\E j \in 1 .. k : whole[j] = Hole)
             <=> \E p \in from + m .. from + m + u - 1 : HoleAt(f, p)
    <2>1. /\ mid = Piece(f, b * BlockSize, k * BlockSize)
          /\ (\E j \in 1 .. k : whole[j] = Hole)
               <=> \E p \in b * BlockSize .. b * BlockSize + k * BlockSize - 1 : HoleAt(f, p)
      BY <1>1, BlocksArePiece
    <2> HIDE DEF mid, whole
    <2> QED
      BY Zenon, <1>2, <2>1
  <1>6. 0 + s <= BlockSize /\ 0 \in 0 .. BlockSize - 1 /\ (b + k) * BlockSize + 0 = from + m + u
    BY <1>0, <1>1, <1>3
  <1>7. Bytes(last, 0, s) = Piece(f, from + m + u, s)
    BY <1>3, <1>6, BytesArePiece
  <1>8. ASSUME NEW p \in from + m + u .. from + m + u + s - 1
        PROVE  HoleAt(f, p) <=> last = Hole
    <2>1. PICK o \in 0 .. BlockSize - 1 : p = (b + k) * BlockSize + o
      <3>1. p - (from + m + u) \in 0 .. BlockSize - 1
        <4>1. s <= BlockSize - 1
          BY <1>0, <1>1
        <4> QED
          BY <1>0, <1>3, <4>1
      <3>2. p = (b + k) * BlockSize + (p - (from + m + u))
        BY <1>3
      <3> QED
        BY <3>1, <3>2
    <2> QED
      BY <1>3, <2>1, ByteOf
  <1>9. Piece(f, from, m) \o mid = Piece(f, from, m + u)
    <2>1. Piece(f, from, m) \o Piece(f, from + m, u) = Piece(f, from, m + u)
      BY ZenonT(60), PieceJoin
    <2> HIDE DEF mid
    <2> QED
      BY Zenon, <1>5, <2>1
  <1>10. Piece(f, from, m) \o mid \o Bytes(last, 0, s) = Piece(f, from, m + cb)
    <2>1. PICK v \in Nat : v = m + u /\ from + v = from + m + u /\ v + s = m + cb
      BY <1>3
    <2>2. Piece(f, from, v) \o Piece(f, from + v, s) = Piece(f, from, v + s)
      <3>1. \A t \in Nat : Piece(f, from, v) \o Piece(f, from + v, t) = Piece(f, from, v + t)
        BY ZenonT(60), PieceJoin
      <3>2. s \in Nat
        BY <1>3
      <3> QED
        BY Zenon, <3>1, <3>2
    <2> HIDE DEF mid, last
    <2> QED
      BY Zenon, <1>7, <1>9, <2>1, <2>2
  <1>11. from + (m + cb) - 1 = from + m + u + s - 1
    BY <1>3
  <1>12. Failed(-1).ret \in {-1, 0} /\ Failed(0).ret \in {-1, 0}
    BY DEF Failed
  <1> HIDE DEF whole, last, mid, r
  <1>13. CASE \E p \in from + m .. from + m + u - 1 : HoleAt(f, p)
    <2>1. r = Failed(-1)
      BY <1>4, <1>5, <1>13
    <2>2. \E p \in from .. from + (m + cb) - 1 : HoleAt(f, p)
      BY <1>3, <1>11, <1>13
    <2> QED
      BY <1>12, <2>1, <2>2 DEF IsRead, r
  <1>14. CASE \A p \in from + m .. from + m + u - 1 : ~HoleAt(f, p)
    <2>1. r = IF s = 0 THEN Returns(Piece(f, from, m) \o mid)
              ELSE IF last = Hole THEN Failed(0)
              ELSE Returns(Piece(f, from, m) \o mid \o Bytes(last, 0, s))
      BY <1>4, <1>5, <1>14
    <2>2. CASE s = 0
      <3>1. r = Returns(Piece(f, from, m + cb))
        <4>1. m + u = m + cb
          BY <1>1, <1>2, <2>2
        <4> QED
          BY <1>9, <2>1, <2>2, <4>1
      <3>2. \A p \in from .. from + (m + cb) - 1 : ~HoleAt(f, p)
        BY <1>3, <1>11, <1>14, <2>2
      <3> QED
        BY <3>1, <3>2 DEF IsRead, r
    <2>3. CASE s # 0 /\ last = Hole
      <3>1. from + m + u \in from .. from + (m + cb) - 1 /\ HoleAt(f, from + m + u)
        BY <1>3, <1>8, <1>11, <2>3
      <3> QED
        BY <1>12, <2>1, <2>3, <3>1 DEF IsRead, r
    <2>4. CASE s # 0 /\ last # Hole
      <3>1. r = Returns(Piece(f, from, m + cb))
        BY <1>10, <2>1, <2>4
      <3>2. \A p \in from .. from + (m + cb) - 1 : ~HoleAt(f, p)
        BY <1>3, <1>8, <1>11, <1>14, <2>4
      <3> QED
        BY <3>1, <3>2 DEF IsRead, r
    <2> QED
      BY <2>2, <2>3, <2>4
  <1> QED
    BY <1>13, <1>14

(* ext2fs_read(): so many bytes from any position on.                      *)
LEMMA ReadIs ==
  ASSUME NEW f, NEW pos \in Nat, NEW count \in Nat, NEW n \in Nat \ {0},
         n = IF (pos + count) % Word > f.size THEN AsInt(f.size - pos) ELSE AsInt(count)
  PROVE  IsRead(f, Read(f, pos, count), pos, n)
  <1>0. BlockSize \in Nat /\ BlockSize > 0
    BY Ext2Sizes
  <1>1. PICK b \in Nat, s \in 0 .. BlockSize - 1 :
          pos \div BlockSize = b /\ pos % BlockSize = s /\ b * BlockSize + s = pos
    BY <1>0, DivMod
  <1> DEFINE left  == FirstPart(s, n)
             first == GetBlock(f, b)
             part  == Bytes(first, s, left)
             r     == Read(f, pos, count)
  <1>2. r = CASE n <= 0 -> Failed(0)
              [] n > 0 /\ s = 0 -> ReadOn(f, << >>, b, n)
              [] n > 0 /\ s > 0 /\ first = Hole -> Failed(0)
              [] OTHER -> IF n - left <= 0 THEN Returns(part) ELSE ReadOn(f, part, b + 1, n - left)
    BY <1>1 DEF Read
  <1>3. Failed(0).ret \in {-1, 0}
    BY DEF Failed
  <1>4. HoleAt(f, pos) <=> first = Hole
    BY <1>1, ByteOf
  <1>5. pos \in pos .. pos + n - 1
    OBVIOUS
  <1>6. CASE s = 0
    <2>1. Piece(f, pos, 0) = << >>
      BY DEF Piece
    <2>2. r = ReadOn(f, Piece(f, pos, 0), b, n)
      BY <1>2, <1>6, <2>1
    <2>3. pos + 0 = b * BlockSize /\ 0 + n = n /\ pos .. pos + 0 - 1 = {}
      BY <1>0, <1>1, <1>6
    <2>4. IsRead(f, ReadOn(f, Piece(f, pos, 0), b, n), pos, 0 + n)
      BY <2>3, ReadOnIs
    <2> QED
      BY <2>2, <2>3, <2>4
  <1>7. CASE s > 0 /\ first = Hole
    <2>1. r = Failed(0)
      BY <1>2, <1>7
    <2> QED
      BY <1>3, <1>4, <1>5, <1>7, <2>1 DEF IsRead
  <1>8. CASE s > 0 /\ first # Hole
    <2>1. left \in Nat /\ left <= n /\ left <= BlockSize - s /\ (left = n \/ left = BlockSize - s)
      BY <1>0, <1>1, <1>8 DEF FirstPart, Least
    <2>2. r = IF n - left <= 0 THEN Returns(part) ELSE ReadOn(f, part, b + 1, n - left)
      BY <1>2, <1>8
    <2>3. part = Piece(f, pos, left)
      <3>1. s + left <= BlockSize
        BY <1>0, <2>1
      <3> HIDE DEF left
      <3> QED
        BY <1>1, <2>1, <3>1, BytesArePiece
    <2> HIDE DEF left, part, r, first
    <2>4. ASSUME NEW p \in pos .. pos + left - 1 PROVE ~HoleAt(f, p)
      <3>1. PICK o \in 0 .. BlockSize - 1 : p = b * BlockSize + o
        <4>1. s + (p - pos) \in 0 .. BlockSize - 1 /\ p = b * BlockSize + (s + (p - pos))
          BY <1>0, <1>1, <2>1
        <4> QED
          BY <4>1
      <3> QED
        BY <1>8, <3>1, ByteOf DEF first
    <2>5. CASE left = n
      BY <2>1, <2>2, <2>3, <2>4, <2>5 DEF IsRead, r
    <2>6. CASE left # n
      <3>1. n - left \in Nat /\ n - left > 0 /\ left + (n - left) = n /\ left = BlockSize - s
        BY <2>1, <2>6
      <3>2. pos + left = (b + 1) * BlockSize /\ b + 1 \in Nat
        BY <1>0, <1>1, <3>1
      <3>3. IsRead(f, ReadOn(f, Piece(f, pos, left), b + 1, n - left), pos, left + (n - left))
        BY <2>1, <2>4, <3>1, <3>2, ReadOnIs
      <3> QED
        BY <2>2, <2>3, <3>1, <3>3 DEF r
    <2> QED
      BY <2>5, <2>6
  <1> QED
    BY <1>1, <1>6, <1>7, <1>8

(* A number whose quotient is below zero.                                  *)
LEMMA ModBelow ==
  ASSUME NEW w \in Nat, NEW x \in 1 .. w
  PROVE  (0 - x) % w = w - x
  <1>1. w \in Int /\ w > 0 /\ 0 - x \in Int
    OBVIOUS
  <1>2. PICK q \in Int : q = (0 - x) \div w
    BY <1>1
  <1>3. PICK r \in 0 .. w - 1 : (0 - x) % w = r /\ 0 - x = w * q + r
    <2>1. (0 - x) % w \in 0 .. w - 1
      BY <1>1
    <2>2. PICK r \in 0 .. w - 1 : r = (0 - x) % w
      BY <2>1
    <2>3. (0 - x) % w = 0 - x - w * ((0 - x) \div w)
      BY <1>1
    <2>4. 0 - x = w * q + r
      BY <1>1, <1>2, <2>2, <2>3
    <2> QED
      BY <2>2, <2>4
  <1>4. q = -1
    <2>1. CASE q >= 0
      <3>1. w * q >= 0
        BY <1>1, <2>1
      <3> QED
        BY <1>3, <3>1
    <2>2. CASE q <= -2
      <3>1. w * (q + 2) <= 0
        BY <1>1, <2>2
      <3>2. w * q <= 0 - (w + w)
        BY <1>1, <3>1
      <3> QED
        BY <1>3, <3>2
    <2> QED
      BY <2>1, <2>2
  <1> QED
    BY <1>3, <1>4

(* ext2fs_read(): what is wanted of a file, when nothing wraps around.     *)
LEMMA WantedIs ==
  ASSUME NEW size \in Nat, NEW pos \in 0 .. (Word \div 2) - 1, NEW count \in 0 .. (Word \div 2) - 1
  PROVE  (IF (pos + count) % Word > size THEN AsInt(size - pos) ELSE AsInt(count))
           = IF pos + count > size THEN size - pos ELSE count
  <1>1. PICK h \in Nat : Word \div 2 = h /\ 2 * h <= Word
    BY Ext2Sizes
  <1>0. Word \in Nat /\ Word > 0 /\ h > 0
    BY <1>1, Ext2Sizes
  <1>2. (pos + count) % Word = pos + count
    <2>1. pos + count \in 0 .. Word - 1 /\ pos + count = 0 * Word + (pos + count)
      BY <1>0, <1>1
    <2> QED
      BY <1>0, <2>1, DivIs
  <1>3. ASSUME NEW x \in 0 .. h - 1 PROVE AsInt(x) = x
    <2>1. x \in 0 .. Word - 1 /\ x = 0 * Word + x
      BY <1>0, <1>1
    <2>2. x % Word = x
      BY <1>0, <2>1, DivIs
    <2> QED
      BY <1>1, <2>2 DEF AsInt
  <1>4. ASSUME NEW x \in 1 .. h - 1 PROVE AsInt(0 - x) = 0 - x
    <2>1. (0 - x) % Word = Word - x
      BY <1>0, <1>1, ModBelow
    <2> QED
      BY <1>0, <1>1, <2>1 DEF AsInt
  <1>5. AsInt(count) = count
    BY <1>1, <1>3
  <1>6. pos + count > size => AsInt(size - pos) = size - pos
    <2>1. CASE size >= pos /\ pos + count > size
      <3>1. size - pos \in 0 .. h - 1
        BY <1>1, <2>1
      <3> QED
        BY <1>3, <3>1
    <2>2. CASE size < pos
      <3>1. pos - size \in 1 .. h - 1 /\ size - pos = 0 - (pos - size)
        BY <1>1, <2>2
      <3> QED
        BY <1>4, <3>1
    <2> QED
      BY <2>1, <2>2
  <1> QED
    BY <1>2, <1>5, <1>6

(* What ext2fs_read() can be asked, and what of: positions and counts that *)
(* are not negative as int, files no longer than their blocks are found.   *)
Askable(f) ==
  /\ f.has \in SUBSET Nat /\ IsFiniteSet(f.has)
  /\ f.size \in Nat /\ f.size <= Reach * BlockSize
IntRange == 0 .. (Word \div 2) - 1

(* What there is of the bytes asked for.                                   *)
Left(f, pos, count) == IF pos >= f.size THEN 0 ELSE Least(count, f.size - pos)

(* A call returns the bytes asked for that the file has, no more and no    *)
(* fewer, and 0 where there are none.                                      *)
LEMMA ReadLeft ==
  ASSUME NEW f, Askable(f), NEW pos \in IntRange, NEW count \in IntRange
  PROVE  /\ Left(f, pos, count) \in Nat
         /\ Left(f, pos, count) > 0 =>
              /\ pos + Left(f, pos, count) <= f.size
              /\ IsRead(f, Read(f, pos, count), pos, Left(f, pos, count))
         /\ Left(f, pos, count) = 0 => Read(f, pos, count) = Failed(0)
  <1> DEFINE cb == IF (pos + count) % Word > f.size THEN AsInt(f.size - pos) ELSE AsInt(count)
             n  == Left(f, pos, count)
  <1>0. f.size \in Nat /\ pos \in Nat /\ count \in Nat
    BY Ext2Sizes DEF Askable, IntRange
  <1>1. cb = IF pos + count > f.size THEN f.size - pos ELSE count
    BY <1>0, WantedIs DEF IntRange
  <1>2. n \in Nat /\ (n > 0 => n = cb /\ pos + n <= f.size) /\ (n = 0 => cb <= 0)
    BY <1>0, <1>1 DEF Left, Least
  <1>3. cb \in Int
    BY <1>0, <1>1
  <1>4. n = 0 => Read(f, pos, count) = Failed(0)
    <2> HIDE DEF n
    <2>1. ASSUME n = 0 PROVE Read(f, pos, count) = Failed(0)
      <3>1. cb <= 0 /\ ~(cb > 0)
        BY <1>2, <1>3, <2>1
      <3> QED
        BY <3>1 DEF Read
    <2> QED
      BY <2>1
  <1>5. n > 0 => IsRead(f, Read(f, pos, count), pos, n)
    <2>1. ASSUME n > 0 PROVE IsRead(f, Read(f, pos, count), pos, n)
      <3> HIDE DEF n
      <3>1. n \in Nat \ {0} /\ n = cb
        BY <1>2, <2>1
      <3> QED
        BY <1>0, <3>1, ReadIs
    <2> QED
      BY <2>1
  <1> QED
    BY <1>2, <1>4, <1>5

(* The block of a byte of the file.                                        *)
LEMMA BlockOfByte ==
  ASSUME NEW f, Askable(f), NEW p \in Nat, p < f.size
  PROVE  \E b \in Nat, o \in 0 .. BlockSize - 1 :
           /\ p \div BlockSize = b /\ p % BlockSize = o /\ b < Reach
           /\ b < (f.size + BlockSize - 1) \div BlockSize
  <1>0. BlockSize \in Nat /\ BlockSize > 0 /\ f.size \in Nat /\ Reach \in Nat
    BY Ext2Sizes DEF Askable, Reach
  <1>1. PICK b \in Nat, o \in 0 .. BlockSize - 1 :
          p \div BlockSize = b /\ p % BlockSize = o /\ b * BlockSize + o = p
    BY <1>0, DivMod
  <1>2. b < Reach
    <2> SUFFICES ASSUME b >= Reach PROVE FALSE
      BY <1>0
    <2>1. b * BlockSize >= Reach * BlockSize
      BY <1>0
    <2> QED
      BY <1>0, <1>1, <2>1 DEF Askable
  <1>3. PICK t \in Nat, s \in 0 .. BlockSize - 1 :
          /\ (f.size + BlockSize - 1) \div BlockSize = t
          /\ t * BlockSize + s = f.size + BlockSize - 1
    <2>1. PICK a \in Nat : a = f.size + BlockSize - 1
      BY <1>0
    <2>2. PICK t \in Nat, s \in 0 .. BlockSize - 1 :
            a \div BlockSize = t /\ a % BlockSize = s /\ t * BlockSize + s = a
      BY <1>0, DivMod
    <2> QED
      BY Zenon, <2>1, <2>2
  <1>4. b < t
    <2> SUFFICES ASSUME t <= b PROVE FALSE
      OBVIOUS
    <2>1. PICK x \in Nat, y \in Nat : x = t * BlockSize /\ y = b * BlockSize /\ x <= y
      BY <1>0
    <2>2. y + o = p /\ x + s = f.size + BlockSize - 1
      BY Zenon, <1>1, <1>3, <2>1
    <2> QED
      BY <1>0, <2>1, <2>2
  <1> QED
    BY <1>1, <1>2, <1>3, <1>4

(* A byte of a file without holes is in no hole.                           *)
LEMMA DenseByte ==
  ASSUME NEW f, Askable(f), Dense(f), NEW p \in Nat, p < f.size
  PROVE  ~HoleAt(f, p)
  <1>1. PICK b \in Nat : /\ p \div BlockSize = b /\ b < Reach
                         /\ b < (f.size + BlockSize - 1) \div BlockSize
    BY BlockOfByte
  <1>2. PICK t \in Nat : t = (f.size + BlockSize - 1) \div BlockSize
    BY Ext2Sizes DEF Askable
  <1>3. f.has = 0 .. t - 1 /\ b \in f.has
    BY <1>1, <1>2 DEF Dense
  <1>4. IsFiniteSet(f.has) /\ Cardinality(f.has) = t
    <2>1. IsFiniteSet(0 .. t - 1) /\ Cardinality(0 .. t - 1) = t
      BY FS_Interval
    <2> QED
      BY <1>3, <2>1
  <1>5. IBlocks(f) \in Nat /\ IBlocks(f) >= t
    BY <1>4, IBlocksCount
  <1>6. b < IBlocks(f)
    BY <1>1, <1>2, <1>5
  <1>7. GetBlock(f, b) = <<"data", b>>
    BY <1>1, <1>3, <1>4, <1>6, BlockIs
  <1> QED
    BY <1>1, <1>7 DEF HoleAt, Hole

(* ext2fs_read(), for every file as long as its blocks are found, holes    *)
(* included, and every position and count: what is returned are the file's *)
(* own bytes from that position on, or those of block 0 where a whole      *)
(* table is missing; and of a file without holes, all of them.             *)
THEOREM FileBytesRead ==
  \A f : Askable(f) => \A pos, count \in IntRange : ReadRight(f, pos, count)
  <1> SUFFICES ASSUME NEW f, Askable(f), NEW pos \in IntRange, NEW count \in IntRange
               PROVE  ReadRight(f, pos, count)
    OBVIOUS
  <1> DEFINE r == Read(f, pos, count)
             n == Left(f, pos, count)
  <1>0. pos \in Nat /\ f.size \in Nat /\ n \in Nat
    BY ReadLeft, Ext2Sizes DEF IntRange, Askable
  <1>1. /\ n > 0 => pos + n <= f.size /\ IsRead(f, r, pos, n)
        /\ n = 0 => r = Failed(0)
    BY ReadLeft
  <1> HIDE DEF r, n
  <1>2. CASE n = 0
    <2>1. r.ret = 0
      BY <1>1, <1>2 DEF Failed
    <2> QED
      BY <1>2, <2>1 DEF ReadRight, r, n, Left
  <1>3. CASE n > 0 /\ r.ret \in {-1, 0} /\ \E p \in pos .. pos + n - 1 : HoleAt(f, p)
    <2>1. PICK p \in pos .. pos + n - 1 : HoleAt(f, p)
      BY <1>3
    <2>2. p \in Nat /\ p < f.size
      BY <1>0, <1>1, <1>3
    <2>3. ~Dense(f)
      BY <2>1, <2>2, DenseByte
    <2>4. r.ret <= n /\ \A j \in 1 .. r.ret : FALSE
      <3>1. \A j \in 1 .. r.ret : FALSE
        BY <1>3
      <3> QED
        BY <1>0, <1>3, <3>1
    <2> QED
      BY <1>3, <2>3, <2>4 DEF ReadRight, r, n, Left
  <1>4. CASE n > 0 /\ r = Returns(Piece(f, pos, n)) /\ \A p \in pos .. pos + n - 1 : ~HoleAt(f, p)
    <2>1. /\ r.ret = n
          /\ \A j \in 1 .. n : r.bytes[j] = ByteAt(f, pos + j - 1)
      BY <1>0, <1>4, PieceIs DEF Returns
    <2>2. ASSUME NEW j \in 1 .. n
          PROVE  \/ r.bytes[j] = Content(f)[pos + j]
                 \/ TableMissing(f, (pos + j - 1) \div BlockSize)
      <3>1. PICK p \in Nat : p = pos + j - 1 /\ p < f.size /\ p \in pos .. pos + n - 1
        <4>1. pos + j - 1 \in Nat
          BY <1>0
        <4> QED
          BY <1>0, <1>1, <1>4, <4>1
      <3>2. PICK b \in Nat, o \in 0 .. BlockSize - 1 :
              p \div BlockSize = b /\ p % BlockSize = o /\ b < Reach
        BY <3>1, BlockOfByte
      <3>3. r.bytes[j] = <<GetBlock(f, b), o>> /\ GetBlock(f, b) # Hole
        BY <1>4, <2>1, <3>1, <3>2 DEF ByteAt, HoleAt
      <3>4. GetBlock(f, b) = <<"data", b>> \/ (b >= IndMax /\ TableOf(f, b) = Hole)
        <4>1. IBlocks(f) \in Nat /\ IsFiniteSet(f.has)
          BY IBlocksCount DEF Askable
        <4> QED
          BY <3>2, <3>3, <4>1, BlockIs
      <3>5. Content(f)[pos + j] = <<<<"data", b>>, o>>
        <4>1. PICK k \in 1 .. f.size : k = pos + j /\ k - 1 = p
          BY <1>0, <3>1
        <4>2. Content(f)[k] = <<<<"data", (k - 1) \div BlockSize>>, (k - 1) % BlockSize>>
          BY DEF Content
        <4> QED
          BY Zenon, <3>2, <4>1, <4>2
      <3>6. TableOf(f, b) = Hole /\ b >= IndMax => TableMissing(f, b)
        BY DEF TableMissing, TableOf
      <3> QED
        BY <3>1, <3>2, <3>3, <3>4, <3>5, <3>6
    <2> QED
      BY <1>0, <2>1, <2>2 DEF ReadRight, r, n, Left
  <1> QED
    BY <1>0, <1>1, <1>2, <1>3, <1>4 DEF IsRead

-----------------------------------------------------------------------------
(* ext2fs_mount() and ext2fs_get_inode(): what a superblock and the        *)
(* descriptors of groups may say, whatever is written there.               *)
Super == [first : Nat, blocks : Nat, bpg : Nat \ {0}, ipg : Nat \ {0}]
Desc  == [bb : Nat, ib : Nat, table : Nat]

(* Whatever the descriptors say, an inode of a file system that was        *)
(* mounted is read from its own group and from a place of its own.         *)
THEOREM InodesApart ==
  \A sb \in Super, gds \in [Nat -> Desc], perBlock, descPer \in Nat \ {0} :
    InodesFound(sb, gds, perBlock, descPer)
  <1> SUFFICES ASSUME NEW sb \in Super, NEW gds \in [Nat -> Desc],
                      NEW perBlock \in Nat \ {0}, NEW descPer \in Nat \ {0},
                      Mounts(sb, gds, perBlock)
               PROVE  LET groups == 0 .. GroupsCount(sb) - 1
                          Inos == 1 .. GroupsCount(sb) * sb.ipg
                          at == [ino \in Inos |-> InodeAt(sb, gds, ino, perBlock)]
                          group(ino) == (ino - 1) \div sb.ipg
                          flat(g) == LET d == DescAt(sb, g, descPer) IN (d[1] - sb.first - 1) * descPer + d[2]
                      IN /\ \A ino \in Inos :
                              LET start == sb.first + group(ino) * sb.bpg
                              IN at[ino][1] \in start .. start + sb.bpg - 1
                         /\ \A x, y \in Inos : at[x] = at[y] => x = y
                         /\ \A g \in groups : flat(g) = g
    BY DEF InodesFound
  <1> DEFINE G    == GroupsCount(sb)
             Inos == 1 .. G * sb.ipg
             at   == [ino \in Inos |-> InodeAt(sb, gds, ino, perBlock)]
  <1>0. /\ sb.first \in Nat /\ sb.blocks \in Nat /\ sb.bpg \in Nat /\ sb.bpg > 0
        /\ sb.ipg \in Nat /\ sb.ipg > 0 /\ perBlock \in Nat /\ perBlock > 0
        /\ descPer \in Nat /\ descPer > 0
    BY DEF Super
  <1>1. G \in Int
    BY <1>0 DEF GroupsCount
  <1>2. PICK itb \in Nat : itb = sb.ipg \div perBlock
    BY <1>0
  <1>3. ASSUME NEW g \in 0 .. G - 1
        PROVE  /\ gds[g].table \in Nat
               /\ gds[g].table >= sb.first + g * sb.bpg
               /\ gds[g].table + itb < sb.first + g * sb.bpg + sb.bpg
    <2>1. CheckDesc(sb, gds[g], g, perBlock)
      BY DEF Mounts
    <2>2. TableInGroup(sb, gds[g], g, itb)
      BY <1>2, <2>1 DEF CheckDesc
    <2>3. g \in Nat /\ gds[g] \in Desc
      BY <1>1
    <2> QED
      BY <2>2, <2>3 DEF TableInGroup, Desc
  <1> HIDE DEF G
  (* An inode is in its group, at some block of the table. *)
  <1>4. ASSUME NEW ino \in Inos
        PROVE  \E g \in 0 .. G - 1, i \in 0 .. sb.ipg - 1, b \in 0 .. itb, o \in 0 .. perBlock - 1 :
                 /\ (ino - 1) \div sb.ipg = g /\ g * sb.ipg + i = ino - 1
                 /\ b * perBlock + o = i /\ at[ino] = <<gds[g].table + b, o>>
    <2>1. PICK k \in Nat : k = ino - 1 /\ k < G * sb.ipg
      <3>1. G * sb.ipg \in Int
        BY <1>0, <1>1
      <3>2. ino - 1 \in Nat /\ ino - 1 < G * sb.ipg
        BY <3>1
      <3> QED
        BY <3>2
    <2>2. PICK g \in Nat, i \in 0 .. sb.ipg - 1 :
            k \div sb.ipg = g /\ k % sb.ipg = i /\ g * sb.ipg + i = k
      BY <1>0, DivMod
    <2>3. PICK b \in Nat, o \in 0 .. perBlock - 1 :
            i \div perBlock = b /\ i % perBlock = o /\ b * perBlock + o = i
      BY <1>0, DivMod
    <2>4. g \in 0 .. G - 1
      <3> SUFFICES ASSUME g >= G PROVE FALSE
        BY <1>1
      <3>1. g * sb.ipg >= G * sb.ipg
        BY <1>0, <1>1
      <3> QED
        BY <1>0, <1>1, <2>1, <2>2, <3>1
    <2>5. b \in 0 .. itb
      <3>1. PICK s \in 0 .. perBlock - 1 : itb * perBlock + s = sb.ipg
        BY <1>0, <1>2, DivMod
      <3> SUFFICES ASSUME b >= itb + 1 PROVE FALSE
        OBVIOUS
      <3>2. b * perBlock >= (itb + 1) * perBlock
        BY <1>0
      <3>3. (itb + 1) * perBlock = itb * perBlock + perBlock
        BY <1>0
      <3> QED
        BY <1>0, <2>3, <3>1, <3>2, <3>3
    <2>6. at[ino] = <<gds[g].table + b, o>>
      <3>1. at[ino] = InodeAt(sb, gds, ino, perBlock)
        OBVIOUS
      <3> HIDE DEF at
      <3> QED
        BY Zenon, <2>1, <2>2, <2>3, <3>1 DEF InodeAt
    <2>7. (ino - 1) \div sb.ipg = g /\ g * sb.ipg + i = ino - 1
      BY Zenon, <2>1, <2>2
    <2> HIDE DEF at
    <2> QED
      BY Zenon, <2>2, <2>3, <2>4, <2>5, <2>6, <2>7
  <1> HIDE DEF at
  <1>5. ASSUME NEW ino \in Inos
        PROVE  at[ino][1] \in sb.first + ((ino - 1) \div sb.ipg) * sb.bpg
                                .. sb.first + ((ino - 1) \div sb.ipg) * sb.bpg + sb.bpg - 1
    <2>1. PICK g \in 0 .. G - 1, b \in 0 .. itb, o \in 0 .. perBlock - 1 :
            (ino - 1) \div sb.ipg = g /\ at[ino] = <<gds[g].table + b, o>>
      BY SMTT(40), <1>4
    <2>2. PICK start \in Nat : start = sb.first + g * sb.bpg
      BY <1>0, <1>1
    <2>3. gds[g].table + b \in start .. start + sb.bpg - 1
      BY <1>0, <1>2, <1>3, <2>2
    <2>4. at[ino][1] \in start .. start + sb.bpg - 1
      BY <2>1, <2>3
    <2> QED
      BY Zenon, <2>1, <2>2, <2>4
  <1>6. ASSUME NEW x \in Inos, NEW y \in Inos, at[x] = at[y] PROVE x = y
    <2>1. PICK g \in 0 .. G - 1, i \in 0 .. sb.ipg - 1, b \in 0 .. itb, o \in 0 .. perBlock - 1 :
            g * sb.ipg + i = x - 1 /\ b * perBlock + o = i /\ at[x] = <<gds[g].table + b, o>>
      BY <1>4
    <2>2. PICK h \in 0 .. G - 1, j \in 0 .. sb.ipg - 1, c \in 0 .. itb, p \in 0 .. perBlock - 1 :
            h * sb.ipg + j = y - 1 /\ c * perBlock + p = j /\ at[y] = <<gds[h].table + c, p>>
      BY <1>4
    <2>3. gds[g].table + b = gds[h].table + c /\ o = p
      <3>1. <<gds[g].table + b, o>> = <<gds[h].table + c, p>>
        BY Zenon, <1>6, <2>1, <2>2
      <3> QED
        BY Zenon, <3>1
    <2>4. g = h
      <3>1. /\ gds[g].table >= sb.first + g * sb.bpg
            /\ gds[g].table + b < sb.first + g * sb.bpg + sb.bpg
            /\ gds[h].table >= sb.first + h * sb.bpg
            /\ gds[h].table + c < sb.first + h * sb.bpg + sb.bpg
            /\ gds[g].table \in Nat /\ gds[h].table \in Nat
        BY <1>0, <1>1, <1>3
      <3>2. ASSUME NEW a \in Nat, NEW d \in Nat, a + 1 <= d
            PROVE  a * sb.bpg + sb.bpg <= d * sb.bpg
        <4>1. (a + 1) * sb.bpg <= d * sb.bpg
          BY <1>0, <3>2
        <4> QED
          BY <1>0, <4>1
      <3>3. PICK u \in Nat, v \in Nat : u = g * sb.bpg /\ v = h * sb.bpg
        BY <1>0, <1>1
      <3>4. ~(u + sb.bpg <= v) /\ ~(v + sb.bpg <= u)
        BY <1>0, <2>3, <3>1, <3>3
      <3>5. ~(g + 1 <= h) /\ ~(h + 1 <= g)
        BY <1>1, <3>2, <3>3, <3>4
      <3> QED
        BY <1>1, <3>5
    <2>5. b = c
      BY <1>1, <1>3, <2>3, <2>4
    <2> QED
      BY <1>0, <1>1, <2>1, <2>2, <2>3, <2>4, <2>5
  <1>7. ASSUME NEW g \in 0 .. G - 1
        PROVE  LET d == DescAt(sb, g, descPer) IN (d[1] - sb.first - 1) * descPer + d[2] = g
    <2>1. g \in Nat
      BY <1>1
    <2>2. PICK q \in Nat, r \in 0 .. descPer - 1 :
            g \div descPer = q /\ g % descPer = r /\ q * descPer + r = g
      BY <1>0, <2>1, DivMod
    <2>3. DescAt(sb, g, descPer) = <<q + sb.first + 1, r>>
      BY Zenon, <2>2 DEF DescAt
    <2>4. DescAt(sb, g, descPer)[1] - sb.first - 1 = q /\ DescAt(sb, g, descPer)[2] = r
      BY <1>0, <2>3
    <2> QED
      BY Zenon, <2>2, <2>4
  <1> QED
    BY <1>5, <1>6, <1>7 DEF at, G

-----------------------------------------------------------------------------
(* ext2fs_read() of a file without holes: as much as there is.             *)
LEMMA ReadDense ==
  ASSUME NEW f, Askable(f), Dense(f), NEW pos \in IntRange, NEW count \in IntRange
  PROVE  Read(f, pos, count).ret = Left(f, pos, count)
  <1> DEFINE r == Read(f, pos, count)
             n == Left(f, pos, count)
  <1>0. pos \in Nat /\ f.size \in Nat /\ n \in Nat
    BY ReadLeft, Ext2Sizes DEF IntRange, Askable
  <1>1. /\ n > 0 => pos + n <= f.size /\ IsRead(f, r, pos, n)
        /\ n = 0 => r = Failed(0)
    BY ReadLeft
  <1> HIDE DEF r, n
  <1>2. CASE n = 0
    BY <1>1, <1>2 DEF Failed, r, n
  <1>3. CASE n > 0
    <2>1. \A p \in pos .. pos + n - 1 : p \in Nat /\ p < f.size
      BY <1>0, <1>1, <1>3
    <2>2. r = Returns(Piece(f, pos, n))
      BY <1>1, <1>3, <2>1, DenseByte DEF IsRead
    <2>3. r.ret = n
      BY <1>0, <2>2, PieceIs DEF Returns
    <2> QED
      BY <2>3 DEF r, n
  <1> QED
    BY <1>0, <1>2, <1>3

(* The loop of the command "get".                                          *)
GetStates(f) == [pos : 0 .. f.size, over : BOOLEAN]
GetStep(f, bufsz, g) ==
  IF g.over \/ Read(f, g.pos, bufsz).ret <= 0 THEN [g EXCEPT !.over = TRUE]
  ELSE [g EXCEPT !.pos = @ + Read(f, g.pos, bufsz).ret]

(* A turn of the loop gets on, or the file is over.                        *)
LEMMA GetGetsOn ==
  ASSUME NEW f, Askable(f), Dense(f), f.size \in IntRange, NEW bufsz \in IntRange \ {0},
         NEW g \in GetStates(f), g.over => g.pos = f.size
  PROVE  LET h == GetStep(f, bufsz, g)
         IN  /\ h \in GetStates(f) /\ (h.over => h.pos = f.size)
             /\ g.pos = f.size => h = [pos |-> f.size, over |-> TRUE]
             /\ g.pos # f.size => h.pos > g.pos
  <1> DEFINE h == GetStep(f, bufsz, g)
             n == Left(f, g.pos, bufsz)
  <1>0. /\ f.size \in Nat /\ g.pos \in 0 .. f.size /\ g.over \in BOOLEAN
        /\ bufsz \in Nat /\ bufsz > 0
    BY Ext2Sizes DEF Askable, GetStates, IntRange
  <1>6. ASSUME NEW x PROVE [g EXCEPT !.pos = x] = [pos |-> x, over |-> g.over]
    BY DEF GetStates
  <1>7. [g EXCEPT !.over = TRUE] = [pos |-> g.pos, over |-> TRUE]
    <2>1. ASSUME NEW x PROVE [g EXCEPT !.over = x] = [pos |-> g.pos, over |-> x]
      BY DEF GetStates
    <2> QED
      BY Zenon, <2>1
  <1>1. Read(f, g.pos, bufsz).ret = n
    <2>1. g.pos \in IntRange
      BY <1>0, Ext2Sizes DEF IntRange
    <2> QED
      BY <2>1, ReadDense
  <1>2. n = IF g.pos = f.size THEN 0 ELSE IF bufsz < f.size - g.pos THEN bufsz ELSE f.size - g.pos
    BY <1>0 DEF Left, Least
  <1>3. h = IF g.over \/ n <= 0 THEN [g EXCEPT !.over = TRUE] ELSE [g EXCEPT !.pos = @ + n]
    BY <1>1 DEF GetStep
  <1> HIDE DEF h, n
  <1>4. CASE g.pos = f.size
    <2>1. n = 0
      BY <1>2, <1>4
    <2>2. h = [pos |-> f.size, over |-> TRUE]
      BY <1>3, <1>4, <1>7, <2>1
    <2> QED
      BY <1>0, <1>4, <2>2 DEF GetStates, h
  <1>5. CASE g.pos # f.size
    <2>1. g.over = FALSE /\ n > 0 /\ n \in Nat /\ g.pos + n \in 0 .. f.size
      BY <1>0, <1>2, <1>5
    <2>2. h = [pos |-> g.pos + n, over |-> FALSE]
      <3>1. h = [g EXCEPT !.pos = g.pos + n]
        BY <1>3, <2>1
      <3> QED
        BY <1>6, <2>1, <3>1
    <2>3. h \in GetStates(f) /\ ~h.over /\ h.pos > g.pos
      BY <1>0, <2>1, <2>2 DEF GetStates
    <2> QED
      BY <1>5, <2>3 DEF h
  <1> QED
    BY <1>4, <1>5

(* get, for every file without holes as long as its blocks are found, and  *)
(* every size of the buffer: the console reads the whole of it, and stops. *)
THEOREM WholeFileGot ==
  \A f : Askable(f) /\ f.size \in IntRange => \A bufsz \in IntRange \ {0} : GetRight(f, bufsz)
  <1> SUFFICES ASSUME NEW f, Askable(f), f.size \in IntRange, NEW bufsz \in IntRange \ {0}, Dense(f)
               PROVE  GetReads(f, bufsz) = [pos |-> f.size, over |-> TRUE]
    BY DEF GetRight
  <1> DEFINE N == f.size + 1
             zero == [pos |-> 0, over |-> FALSE]
             Step(g) == GetStep(f, bufsz, g)
             link == [g \in GetStates(f) |-> Step(g)]
             Loops(w) == w = [n \in 0 .. N |-> IF n = 0 THEN zero ELSE Step(w[n - 1])]
             Sound(g, i) == /\ g \in GetStates(f) /\ (g.over => g.pos = f.size)
                            /\ (g.pos = f.size \/ g.pos >= i)
  <1>0. f.size \in Nat /\ N \in Nat /\ zero \in GetStates(f) /\ Sound(zero, 0)
    BY DEF Askable, GetStates
  <1>1. ASSUME NEW g, NEW i \in Nat, Sound(g, i) PROVE Sound(Step(g), i + 1)
    <2>1. g.pos \in Nat /\ Step(g) \in GetStates(f) /\ (Step(g).over => Step(g).pos = f.size)
          /\ (g.pos = f.size => Step(g).pos = f.size) /\ (g.pos # f.size => Step(g).pos > g.pos)
      <3>1. g \in GetStates(f) /\ (g.over => g.pos = f.size)
        BY <1>1
      <3>2. /\ Step(g) \in GetStates(f) /\ (Step(g).over => Step(g).pos = f.size)
            /\ g.pos = f.size => Step(g) = [pos |-> f.size, over |-> TRUE]
            /\ g.pos # f.size => Step(g).pos > g.pos
        BY <3>1, GetGetsOn
      <3>3. g.pos \in Nat
        BY <1>0, <3>1 DEF GetStates
      <3> HIDE DEF Step
      <3> QED
        BY <3>2, <3>3
    <2>2. Step(g).pos \in Nat
      BY <1>0, <2>1 DEF GetStates
    <2>3. g.pos = f.size \/ g.pos >= i
      BY <1>1
    <2> HIDE DEF Step
    <2> QED
      BY <1>0, <2>1, <2>2, <2>3
  <1> HIDE DEF N, zero, Step
  <1>2. \E w : Loops(w)
    <2>1. PICK w : IsWalk(w, N, zero, link)
      BY <1>0, WalkExists
    <2>2. w = [i \in 0 .. N |-> IF i = 0 THEN zero ELSE link[w[i - 1]]]
      BY <2>1 DEF IsWalk
    <2>3. w[0] = zero /\ \A i \in 1 .. N : w[i] = link[w[i - 1]]
      <3>1. 0 \in 0 .. N /\ \A i \in 1 .. N : i \in 0 .. N /\ i # 0
        BY <1>0
      <3> HIDE DEF link
      <3> QED
        BY <2>2, <3>1
    <2>4. 0 .. N \subseteq {i \in 0 .. N : Sound(w[i], i)}
      <3> DEFINE P == {i \in 0 .. N : Sound(w[i], i)}
      <3>1. 0 \in P
        BY <1>0, <2>3
      <3>2. ASSUME NEW i \in 0 .. N, i < N, i \in P PROVE i + 1 \in P
        <4>1. i + 1 \in 1 .. N /\ i + 1 \in 0 .. N /\ i + 1 - 1 = i /\ i \in Nat
          BY <1>0, <3>2
        <4>2. Sound(w[i], i)
          BY <3>2
        <4>3. w[i + 1] = Step(w[i])
          <5>1. w[i + 1] = link[w[i]]
            <6> HIDE DEF link
            <6> QED
              BY <2>3, <4>1
          <5> QED
            BY <4>2, <5>1
        <4>4. Sound(Step(w[i]), i + 1)
          BY <1>1, <4>1, <4>2
        <4> HIDE DEF Sound
        <4> QED
          BY <4>1, <4>3, <4>4
      <3>3. 0 .. N \subseteq P
        <4> HIDE DEF P
        <4> QED
          BY <1>0, <3>1, <3>2, UpTo
      <3> QED
        BY <3>3
    <2>5. ASSUME NEW i \in 0 .. N
          PROVE  w[i] = IF i = 0 THEN zero ELSE Step(w[i - 1])
      <3>1. CASE i = 0
        BY <2>3, <3>1
      <3>2. CASE i # 0
        <4>1. i \in 1 .. N /\ i - 1 \in 0 .. N
          BY <1>0, <3>2
        <4>2. w[i - 1] \in GetStates(f)
          BY <2>4, <4>1
        <4> QED
          BY <2>3, <3>2, <4>1, <4>2
      <3> QED
        BY <3>1, <3>2
    <2>6. w = [i \in 0 .. N |-> w[i]]
      BY <2>2
    <2>7. w = [i \in 0 .. N |-> IF i = 0 THEN zero ELSE Step(w[i - 1])]
      BY Zenon, <2>5, <2>6
    <2> QED
      BY <2>7
  <1> DEFINE At == CHOOSE w : Loops(w)
  <1>3. At = [n \in 0 .. N |-> IF n = 0 THEN zero ELSE Step(At[n - 1])]
    <2> HIDE DEF Loops
    <2>1. Loops(At)
      BY <1>2
    <2> QED
      BY <2>1 DEF Loops
  <1>4. GetReads(f, bufsz) = At[N]
    BY DEF GetReads, N, zero, Step, GetStep
  <1> HIDE DEF At, Loops, link
  <1>5. At[0] = zero /\ \A i \in 1 .. N : At[i] = Step(At[i - 1])
    <2>1. 0 \in 0 .. N /\ \A i \in 1 .. N : i \in 0 .. N /\ i # 0
      BY <1>0
    <2> QED
      BY <1>3, <2>1
  <1>6. 0 .. N \subseteq {i \in 0 .. N : Sound(At[i], i)}
    <2> DEFINE P == {i \in 0 .. N : Sound(At[i], i)}
    <2>1. 0 \in P
      BY <1>0, <1>5
    <2>2. ASSUME NEW i \in 0 .. N, i < N, i \in P PROVE i + 1 \in P
      <3>1. i + 1 \in 1 .. N /\ i + 1 \in 0 .. N /\ i + 1 - 1 = i /\ i \in Nat
        BY <1>0, <2>2
      <3>2. At[i + 1] = Step(At[i])
        BY <1>5, <3>1
      <3>3. Sound(Step(At[i]), i + 1)
        BY <1>1, <2>2, <3>1
      <3> HIDE DEF Sound
      <3> QED
        BY <3>1, <3>2, <3>3
    <2>3. 0 .. N \subseteq P
      <3> HIDE DEF P
      <3> QED
        BY <1>0, <2>1, <2>2, UpTo
    <2> QED
      BY <2>3
  <1>7. N = f.size + 1
    BY DEF N
  <1>8. Sound(At[f.size], f.size) /\ At[N] = Step(At[f.size])
    <2>1. f.size \in 0 .. N /\ N \in 1 .. N /\ N - 1 = f.size
      BY <1>0, <1>7
    <2> HIDE DEF Sound
    <2> QED
      BY <1>5, <1>6, <2>1
  <1>9. At[f.size].pos = f.size
    BY <1>0, <1>8 DEF GetStates
  <1>10. Step(At[f.size]) = [pos |-> f.size, over |-> TRUE]
    BY <1>8, <1>9, GetGetsOn DEF Step
  <1> QED
    BY <1>4, <1>8, <1>10
=============================================================================
