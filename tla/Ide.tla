-------------------------------- MODULE Ide --------------------------------
(***************************************************************************)
(* Reading sectors with pc/ide.c: ide_io() in a thread, ide_interrupt() in *)
(* the handler, and the one request record between them.                   *)
(*                                                                         *)
(* The handler runs with interrupts off and is one step.  ide_lock is a    *)
(* lock (module Threads); ide_busy starts at 0 and is a count that several *)
(* threads may wait for.  A sector's data is its number.  The drive is     *)
(* external: it takes a command, and for each block of up to Multi sectors *)
(* raises an interrupt with the data ready, or one that reports an error.  *)
(***************************************************************************)
EXTENDS Integers, Sequences, FiniteSets

CONSTANTS
  Threads, None,
  Heads, Sectors,   \* ide_disk.heads, ide_disk.sectors (of a track)
  Size,             \* ide_disk.size, in sectors
  Multi,            \* ide_disk.multi: sectors per interrupt, 0 if unsupported
  Requests,         \* what threads ask for: <<sector, scount>>
  MaxCount          \* the longest request

Junk == 0 - 1       \* what a buffer holds before it is read into
CylSectors == Sectors * Heads

ASSUME IdeAssumption ==
  /\ {Heads, Sectors, Size, Multi, MaxCount} \subseteq Nat
  /\ Sectors > 0 /\ Heads > 1
  /\ Requests \subseteq Nat \X (0 .. MaxCount)
  /\ None \notin Threads

VARIABLES
  ide_lock,         \* the holder of ide_lock
  busy, busy_q,     \* ide_busy: its count, the threads asleep on it
  request,          \* struct ide_request: op, buf (whose and how far), ...
  drive,            \* the drive: the command it carries out
  pc, ret,          \* a thread's next step, and where ide_io() returns to
  ask,              \* the arguments sector and scount of ide_io()
  ok,               \* what ide_io() returned
  mem               \* the buffer a thread has read into

sema   == <<ide_lock, busy, busy_q>>
iolocal == <<pc, ret, ask, ok>>
vars   == <<sema, request, drive, iolocal, mem>>

NoRequest == [op |-> 0, buf |-> None, at |-> 0, sector |-> 0, scount |-> 0, io_scount |-> 0]
Quiet     == [state |-> "off", at |-> 0, left |-> 0]
Empty     == [i \in 0 .. MaxCount - 1 |-> Junk]

(* After ide_init(): ide_lock free, ide_busy 0.                            *)
Init ==
  /\ ide_lock = None /\ busy = 0 /\ busy_q = << >>
  /\ request = NoRequest /\ drive = Quiet
  /\ pc = [t \in Threads |-> "idle"] /\ ret = [t \in Threads |-> "idle"]
  /\ ask = [t \in Threads |-> <<0, 0>>]
  /\ ok = [t \in Threads |-> FALSE]
  /\ mem = [t \in Threads |-> Empty]

IoReturn(t, result) ==
  /\ pc' = [pc EXCEPT ![t] = ret[t]]
  /\ ok' = [ok EXCEPT ![t] = result]
  /\ UNCHANGED <<ret, ask>>

-----------------------------------------------------------------------------
(* Mutant: head from the cylinder's sectors.                               *)
ChsFlat(s) ==
  [cyl |-> s \div CylSectors, head |-> s % Heads, sect |-> (s % Sectors) + 1]

(* ide_io_start(): cylinder, head and sector, the sector counted from 1.   *)
Chs(s) ==
  LET track == s \div Sectors IN
  [cyl |-> track \div Heads, head |-> track % Heads, sect |-> (s % Sectors) + 1]

(* The sector a drive of this geometry finds there.                        *)
Lba(chs) == (chs.cyl * Heads + chs.head) * Sectors + (chs.sect - 1)

(* ide_io_start(): sectors for one command.  What is left of the cylinder  *)
(* is counted from the sector of the track.                                *)
IoCount(r) ==
  LET sleft == CylSectors - Chs(r.sector).sect IN
  IF r.scount > sleft THEN sleft ELSE r.scount

(* ide_io_start() with the drive ready: the command goes out.              *)
Command(r) ==
  /\ request' = [r EXCEPT !.io_scount = IoCount(r)]
  /\ drive' = [state |-> "busy", at |-> Lba(Chs(r.sector)), left |-> IoCount(r)]

(* ide_io(): the checks of its arguments fail.                             *)
IdeIoRefuse(t) ==
  /\ pc[t] = "ide_io"
  /\ \/ ask[t][2] = 0
     \/ ask[t][1] > Size \/ ask[t][1] + ask[t][2] > Size
  /\ IoReturn(t, FALSE)
  /\ UNCHANGED <<sema, request, drive, mem>>

(* ide_io(): sema_p(&ide_lock), then the request is filled in.             *)
IdeIo(t) ==
  /\ pc[t] = "ide_io"
  /\ ask[t][2] > 0 /\ ask[t][1] + ask[t][2] <= Size
  /\ ide_lock = None
  /\ ide_lock' = t
  /\ request' = [NoRequest EXCEPT !.op = 1, !.buf = t, !.sector = ask[t][1],
                                  !.scount = ask[t][2], !.io_scount = request.io_scount]
  /\ pc' = [pc EXCEPT ![t] = "start"]
  /\ UNCHANGED <<busy, busy_q, drive, ret, ask, ok, mem>>

(* Mutant: a drive that is not ready leaves the lock taken.                *)
IdeIoStartKeepsLock(t) ==
  /\ pc[t] = "start"
  /\ \/ /\ Command(request)
        /\ pc' = [pc EXCEPT ![t] = "wait"]
        /\ UNCHANGED <<ide_lock, ret, ask, ok>>
     \/ /\ IoReturn(t, FALSE)
        /\ request' = [request EXCEPT !.io_scount = IoCount(request)]
        /\ UNCHANGED <<drive, ide_lock>>
  /\ UNCHANGED <<busy, busy_q, mem>>

(* ide_io(): ide_io_start(), or, if ide_ready() gives up, return 0.        *)
IdeIoStart(t) ==
  /\ pc[t] = "start"
  /\ \/ /\ Command(request)
        /\ pc' = [pc EXCEPT ![t] = "wait"]
        /\ UNCHANGED <<ide_lock, ret, ask, ok>>
     \/ /\ ide_lock' = None
        /\ IoReturn(t, FALSE)
        /\ request' = [request EXCEPT !.io_scount = IoCount(request)]
        /\ UNCHANGED drive
  /\ UNCHANGED <<busy, busy_q, mem>>

(* ide_io(): sema_p(&ide_busy).  The count may have been raised already by *)
(* an interrupt that came before this step.                                *)
IdeIoWait(t) ==
  /\ pc[t] = "wait"
  /\ \/ /\ busy > 0
        /\ busy' = busy - 1
        /\ IoReturn(t, TRUE)
        /\ UNCHANGED busy_q
     \/ /\ busy = 0
        /\ busy_q' = Append(busy_q, t)
        /\ pc' = [pc EXCEPT ![t] = "asleep"]
        /\ UNCHANGED <<busy, ret, ask, ok>>
  /\ UNCHANGED <<ide_lock, request, drive, mem>>

-----------------------------------------------------------------------------
(* ide_io_done(): sema_v of both semaphores, op cleared.                   *)
IdeIoDone(r) ==
  /\ \/ /\ busy_q = << >>
        /\ busy' = busy + 1
        /\ UNCHANGED <<busy_q, iolocal>>
     \/ /\ busy_q # << >>
        /\ busy_q' = Tail(busy_q)
        /\ IoReturn(Head(busy_q), TRUE)
        /\ UNCHANGED busy
  /\ ide_lock' = None
  /\ request' = [r EXCEPT !.op = 0]

(* ide_interrupt(): how many sectors one repinsw() moves.                  *)
Block(n) == IF Multi = 0 THEN 1 ELSE IF n > Multi THEN Multi ELSE n

(* Mutant: only what is left of the command is counted down.               *)
AdvanceKeepsCount(r, n) ==
  [r EXCEPT !.at = @ + n, !.sector = @ + n, !.io_scount = @ - n]

(* What the request is after n sectors have been moved.                    *)
Advance(r, n) ==
  [r EXCEPT !.at = @ + n, !.sector = @ + n, !.scount = @ - n, !.io_scount = @ - n]

(* repinsw(): n sectors from the drive to the place r->buf has come to.    *)
Moved(r, n) ==
  [mem EXCEPT ![r.buf] =
     [i \in DOMAIN @ |-> IF i \in r.at .. r.at + n - 1
                         THEN IF i - r.at < drive.left THEN drive.at + (i - r.at) ELSE Junk
                         ELSE @[i]]]

(* The drive after a block: the rest of its command, or none.              *)
DriveRest(n) ==
  IF drive.left > n THEN [drive EXCEPT !.at = @ + n, !.left = @ - n] ELSE Quiet

(* Mutant: done when the command is, not when the request is.              *)
FinishedEarly(r) == r.io_scount = 0

(* ide_interrupt(): is the whole request done?                             *)
Finished(r) == r.scount = 0

(* ide_interrupt() with data ready: a block is read.  Then the request is  *)
(* done; or the handler waits for another interrupt, which it does also    *)
(* when its allowance for this one is used up exactly with the command; or *)
(* the command is done, and the next one is started if the drive is ready. *)
IdeInterrupt ==
  LET n == Block(request.io_scount)  r == Advance(request, n)
      multi == IF Multi = 0 THEN 0 ELSE Multi - n
  IN
  /\ drive.state = "busy"
  /\ mem' = Moved(request, n)
  /\ \/ /\ Finished(r)
        /\ IdeIoDone(r) /\ drive' = DriveRest(n)
     \/ /\ ~Finished(r) /\ multi = 0
        /\ request' = r /\ drive' = DriveRest(n)
        /\ UNCHANGED <<sema, iolocal>>
     \/ /\ ~Finished(r) /\ multi > 0
        /\ \/ Command(r)
           \/ request' = [r EXCEPT !.io_scount = IoCount(r)] /\ drive' = DriveRest(n)
        /\ UNCHANGED <<sema, iolocal>>

(* ide_interrupt() with an error or a corrected error in the status: it    *)
(* returns, and neither the request nor the lock is given up.              *)
IdeError ==
  /\ drive.state = "busy"
  /\ drive' = [Quiet EXCEPT !.state = "error"]
  /\ UNCHANGED <<sema, request, iolocal, mem>>

-----------------------------------------------------------------------------
(* A thread asks for sectors, as the console's commands do.                *)
Call(t) ==
  /\ pc[t] = "idle"
  /\ \E r \in Requests : ask' = [ask EXCEPT ![t] = r]
  /\ pc' = [pc EXCEPT ![t] = "ide_io"] /\ ret' = [ret EXCEPT ![t] = "done"]
  /\ ok' = [ok EXCEPT ![t] = FALSE] /\ mem' = [mem EXCEPT ![t] = Empty]
  /\ UNCHANGED <<sema, request, drive>>

(* It has looked at what it got.                                           *)
Done(t) ==
  /\ pc[t] = "done"
  /\ pc' = [pc EXCEPT ![t] = "idle"] /\ ret' = [ret EXCEPT ![t] = "idle"]
  /\ ask' = [ask EXCEPT ![t] = <<0, 0>>]
  /\ ok' = [ok EXCEPT ![t] = FALSE] /\ mem' = [mem EXCEPT ![t] = Empty]
  /\ UNCHANGED <<sema, request, drive>>

IoStep(t) == IdeIoRefuse(t) \/ IdeIo(t) \/ IdeIoStart(t) \/ IdeIoWait(t)
Handler   == IdeInterrupt \/ IdeError

Next == Handler \/ \E t \in Threads : IoStep(t) \/ Call(t) \/ Done(t)

Spec == Init /\ [][Next]_vars
-----------------------------------------------------------------------------
(* Every value is of its kind.                                             *)
TypeOK ==
  /\ ide_lock \in Threads \cup {None}
  /\ busy \in 0 .. Cardinality(Threads) /\ busy_q \in Seq(Threads)
  /\ request \in [op : 0 .. 1, buf : Threads \cup {None}, at : 0 .. MaxCount,
                  sector : 0 .. Size, scount : 0 .. MaxCount, io_scount : 0 .. MaxCount]
  /\ drive \in [state : {"off", "busy", "error"}, at : 0 .. Size, left : 0 .. MaxCount]
  /\ ok \in [Threads -> BOOLEAN]
  /\ mem \in [Threads -> [0 .. MaxCount - 1 -> Junk .. Size]]

Returned(t) == pc[t] \notin {"idle", "ide_io", "start", "wait", "asleep"}

(* What ide_io() reports as read has been read: every sector of the        *)
(* request, in its place, and nothing else (ide.c:444-451), whatever the   *)
(* split into commands and blocks.                                         *)
ReadExact ==
  \A t \in Threads : Returned(t) /\ ok[t] =>
    mem[t] = [i \in 0 .. MaxCount - 1 |->
                IF i < ask[t][2] THEN ask[t][1] + i ELSE Junk]

(* The handler and the drive agree on what comes next: when an interrupt   *)
(* arrives, the request is its caller's, still asked for, and as far as    *)
(* the drive is.                                                           *)
InStep ==
  drive.state = "busy" =>
    /\ request.op = 1 /\ ide_lock = request.buf
    /\ request.sector = drive.at /\ request.io_scount = drive.left
    /\ pc[ide_lock] \in {"wait", "asleep"}

(* What a read delivers, and how the handler gets there: whatever the      *)
(* split into commands, blocks and interrupts, every sector ends in its    *)
(* place (ide.c:202-251, 317-411).                                         *)
ReadsSound == ReadExact /\ InStep

(* A call that one command can serve returns, unless the drive reports an  *)
(* error: no completion is lost between handler and thread, and whoever    *)
(* leaves ide_io(), for whatever reason, leaves ide_lock free.             *)
OneCommand(t) == ask[t][2] <= CylSectors - Chs(ask[t][1]).sect
ReadsReturn ==
  \A t \in Threads :
    pc[t] = "ide_io" /\ OneCommand(t) ~> Returned(t) \/ drive.state = "error"
=============================================================================
