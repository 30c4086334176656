------------------------------ MODULE BufCache ------------------------------
(***************************************************************************)
(* The buffer cache of dev/buf.c over the disk driver: bread() and         *)
(* brelse() as the console uses them to read an ext2 file system, and the  *)
(* set-up and tear-down of the cache at a mount.                           *)
(*                                                                         *)
(* The hash chains (next, prev) and the free list (next_free, prev_free)   *)
(* are modelled pointer by pointer.  The free list is a chain after        *)
(* buf_init() and becomes a ring with the first buffer that leaves it.     *)
(* buf_init() does not clear the flags and hash chains of the heads, and   *)
(* neither does alloc_page() the page they lie in: they begin as whatever  *)
(* that page holds.                                                        *)
(* The cache has no lock: the console is the only thread that uses it.     *)
(***************************************************************************)
EXTENDS Ide

CONSTANTS
  Console,          \* the thread that uses the cache
  NBuf,             \* MAX_BUF
  Dev, Blks,        \* the mounted device, block numbers
  HashSize, Hash,   \* HASH_TABLE_SIZE, HASH_FUNC: <<dev, blk>> to a slot
  Start, BlkSectors, \* dev_blk: first sector, sectors of a block
  HeadPages,        \* what a page may hold where the heads' fields will lie
  MaxHold,          \* buffers a reader of the file system holds at a time
  MaxLost           \* bound on buffers lost to failed reads

Bufs == 0 .. NBuf - 1
Null == 0 - 1
Wild == 0 - 2       \* a stale link to memory that is not the cache's
Links == [Bufs -> Bufs \cup {Null, Wild}]
Slots == 0 .. HashSize - 1

ASSUME BufAssumption ==
  /\ {NBuf, Dev, HashSize, Start, BlkSectors, MaxHold, MaxLost} \subseteq Nat
  /\ Console \in Threads /\ Blks \subseteq Nat
  /\ Hash \in [{0, Dev} \X ({0} \cup Blks) -> Slots]
  /\ BlkSectors \in 1 .. MaxCount /\ MaxHold + MaxLost < NBuf
  /\ HeadPages \subseteq [flags : [Bufs -> 0 .. 1], next : Links, prev : Links]

VARIABLES
  dev, blk, flags,          \* buffer_head
  data,                     \* what its data points to
  next, prev,               \* its hash chain
  next_free, prev_free,     \* its place on the free list
  hash_table, free_list,
  bh,                       \* bread()'s local variable
  held,                     \* buffers bread() returned and brelse() did not get
  lost,                     \* buffers that nobody will give back
  tidy,                     \* the heads' page held links that fit together
  astray                    \* the console has followed stale links for good

heads  == <<dev, blk, flags, data>>
chains == <<next, prev, hash_table>>
free   == <<next_free, prev_free, free_list>>
users  == <<bh, held, lost>>
page   == <<tidy, astray>>
cache  == <<heads, chains, free, users, page>>
bvars  == <<vars, cache>>

(* What a block read from the disk looks like.                             *)
Image(b) == [i \in 0 .. MaxCount - 1 |->
               IF i < BlkSectors THEN Start + b * BlkSectors + i ELSE Junk]

FreshNext == [x \in Bufs |-> IF x = NBuf - 1 THEN Null ELSE x + 1]
FreshPrev == [x \in Bufs |-> IF x = 0 THEN NBuf - 1 ELSE x - 1]

(* Links in both directions, that go round nowhere: as in a page of zeroes *)
(* or of the heads of an earlier mount.                                    *)
Untangled(nx, pv) ==
  /\ {nx, pv} \subseteq [Bufs -> Bufs \cup {Null}]
  /\ \A x, y \in Bufs : nx[x] = y <=> pv[y] = x
  /\ \E rank \in [Bufs -> Bufs] : \A x \in Bufs : nx[x] # Null => rank[nx[x]] < rank[x]

(* After buf_init() with the heads in any page.                            *)
BInit ==
  /\ Init
  /\ dev = [x \in Bufs |-> 0] /\ blk = [x \in Bufs |-> 0] /\ data = [x \in Bufs |-> Empty]
  /\ \E p \in HeadPages :
       /\ flags = p.flags /\ next = p.next /\ prev = p.prev
       /\ tidy = Untangled(p.next, p.prev)
  /\ hash_table = [h \in Slots |-> Null]
  /\ next_free = FreshNext /\ prev_free = FreshPrev /\ free_list = 0
  /\ bh = Null /\ held = {} /\ lost = {} /\ astray = FALSE

(* p->field = v, unless p is null.                                         *)
Set(f, p, v) == IF p = Null THEN f ELSE [f EXCEPT ![p] = v]

-----------------------------------------------------------------------------
(* Mutant: the head of the list is not moved on.                           *)
RemoveFreeKeepsHead(x) ==
  LET pf == Set(prev_free, next_free[x], prev_free[x])
      nf == Set(next_free, pf[x], next_free[x])
  IN [next_free |-> [nf EXCEPT ![x] = Null], prev_free |-> [pf EXCEPT ![x] = Null],
      free_list |-> free_list]

(* buf_remove_free().                                                      *)
RemoveFree(x) ==
  LET pf == Set(prev_free, next_free[x], prev_free[x])
      nf == Set(next_free, pf[x], next_free[x])
  IN [next_free |-> [nf EXCEPT ![x] = Null], prev_free |-> [pf EXCEPT ![x] = Null],
      free_list |-> IF free_list = x THEN nf[x] ELSE free_list]

(* Mutant: the buffer goes before the head, and becomes it.                *)
InsertFreeFirst(x) ==
  LET last == prev_free[free_list] IN
  [next_free |-> Set([next_free EXCEPT ![x] = free_list], last, x),
   prev_free |-> [prev_free EXCEPT ![x] = last, ![free_list] = x],
   free_list |-> x]

(* buf_insert_free() with buffers on the list: before the head, that is,   *)
(* at the end of the ring.                                                 *)
InsertFree(x) ==
  LET last == prev_free[free_list] IN
  [next_free |-> Set([next_free EXCEPT ![x] = free_list], last, x),
   prev_free |-> [prev_free EXCEPT ![x] = last, ![free_list] = x],
   free_list |-> free_list]

(* Mutant: only the predecessor is told.                                   *)
RemoveHashOneWay(x) ==
  LET h == Hash[<<dev[x], blk[x]>>]
      nx == Set(next, prev[x], next[x])
  IN [next |-> [nx EXCEPT ![x] = Null], prev |-> [prev EXCEPT ![x] = Null],
      hash_table |-> IF hash_table[h] = x THEN [hash_table EXCEPT ![h] = next[x]]
                     ELSE hash_table]

(* buf_remove_hash(), by the device and block the head still names.        *)
RemoveHash(x) ==
  LET h == Hash[<<dev[x], blk[x]>>]
      pv == Set(prev, next[x], prev[x])
      nx == Set(next, pv[x], next[x])
  IN [next |-> [nx EXCEPT ![x] = Null], prev |-> [pv EXCEPT ![x] = Null],
      hash_table |-> IF hash_table[h] = x THEN [hash_table EXCEPT ![h] = nx[x]]
                     ELSE hash_table]

(* buf_insert_hash(): at the head of slot h of the chains c.               *)
InsertHash(c, x, h) ==
  [next |-> [c.next EXCEPT ![x] = c.hash_table[h]],
   prev |-> Set(c.prev, c.hash_table[h], x),
   hash_table |-> [c.hash_table EXCEPT ![h] = x]]

After == [x \in Bufs \cup {Wild} |-> IF x = Wild THEN Wild ELSE next[x]]

(* The buffers of a slot's chain, in their order, as far as the walk goes. *)
ChainAt(h) ==
  LET At[i \in 0 .. NBuf] ==
        IF i = 0 THEN hash_table[h]
        ELSE LET x == At[i - 1] IN IF x = Null THEN Null ELSE After[x]
  IN At

Names(x, b) == dev[x] = Dev /\ blk[x] = b

(* buf_get_hash(): the first buffer of the chain that names the block.     *)
Found(b) ==
  LET at == ChainAt(Hash[<<Dev, b>>])
      Names_at(i) == at[i] \in Bufs /\ Names(at[i], b)
  IN {at[i] : i \in {j \in 0 .. NBuf : Names_at(j) /\ \A k \in 0 .. j - 1 : ~Names_at(k)}}

(* buf_get_hash(): the chain ends, and none of its buffers does.           *)
Missed(b) == Found(b) = {} /\ ChainAt(Hash[<<Dev, b>>])[NBuf] = Null

-----------------------------------------------------------------------------
UseFree(f) ==
  next_free' = f.next_free /\ prev_free' = f.prev_free /\ free_list' = f.free_list

UseChains(c) == next' = c.next /\ prev' = c.prev /\ hash_table' = c.hash_table

(* bread() with the buffer it got from buf_getblk(): it is returned if it  *)
(* has been read, and else devblk_read() is called.                        *)
Got(x, b, read) ==
  \/ /\ read
     /\ held' = held \cup {x} /\ lost' = lost \ {x}
     /\ UNCHANGED <<vars, bh>>
  \/ /\ ~read
     /\ bh' = x
     /\ ask' = [ask EXCEPT ![Console] = <<Start + b * BlkSectors, BlkSectors>>]
     /\ mem' = [mem EXCEPT ![Console] = Empty]
     /\ pc' = [pc EXCEPT ![Console] = "ide_io"] /\ ret' = [ret EXCEPT ![Console] = "fill"]
     /\ UNCHANGED <<sema, request, drive, ok, held, lost>>

(* The console reads a block it does not hold already; buffers remain.     *)
MayRead(b) ==
  /\ pc[Console] = "idle"
  /\ Cardinality(held) < MaxHold
  /\ \A x \in held : blk[x] # b
  /\ Cardinality(lost) < MaxLost \/ \E x \in Found(b) : flags[x] # 0 \/ x \in lost

(* bread(), buf_getblk(): the block is in the hash table.                  *)
BreadFound(b) ==
  /\ MayRead(b)
  /\ \E x \in Found(b) :
       /\ UseFree(RemoveFree(x))
       /\ Got(x, b, flags[x] # 0)
  /\ UNCHANGED <<heads, chains, page>>

(* Mutant: what the buffer held is not forgotten.                          *)
NewFlagsKept(x) == flags

(* buf_getblk(): a buffer that is taken over has not been read.            *)
NewFlags(x) == [flags EXCEPT ![x] = 0]

(* buf_getblk(): buf_remove_hash() would follow a stale link of the head.  *)
Stale(x, b) == ~Names(x, b) /\ Wild \in {next[x], prev[x]}

(* bread(), buf_getblk(): it is not; the head of the free list is taken    *)
(* over, and changes its chain.  A head that names the block as it is, as  *)
(* all do block 0 of device 0 after buf_init(), is returned as it is, on   *)
(* no chain and with its old flags.                                        *)
BreadFree(b) ==
  LET x == free_list IN
  /\ MayRead(b) /\ Missed(b) /\ ~Stale(x, b)
  /\ UseFree(RemoveFree(x))
  /\ IF Names(x, b) THEN UNCHANGED <<dev, blk, flags, chains>>
     ELSE /\ UseChains(InsertHash(RemoveHash(x), x, Hash[<<Dev, b>>]))
          /\ dev' = [dev EXCEPT ![x] = Dev] /\ blk' = [blk EXCEPT ![x] = b]
          /\ flags' = NewFlags(x)
  /\ Got(x, b, flags'[x] # 0)
  /\ UNCHANGED <<data, page>>

(* The look-up never ends or leaves the cache, or a stale link is written  *)
(* through: what the console does from there on is left open.              *)
Astray(b) ==
  /\ MayRead(b)
  /\ IF Missed(b) THEN Stale(free_list, b) ELSE Found(b) = {}
  /\ astray' = TRUE
  /\ UNCHANGED <<vars, heads, chains, free, users, tidy>>

(* bread() after devblk_read(): the buffer is returned; or 0 is, and the   *)
(* buffer is not given back.                                               *)
BreadFilled ==
  /\ pc[Console] = "fill"
  /\ \/ /\ ok[Console]
        /\ flags' = [flags EXCEPT ![bh] = 1]
        /\ held' = held \cup {bh} /\ lost' = lost \ {bh}
     \/ /\ ~ok[Console]
        /\ lost' = lost \cup {bh}
        /\ UNCHANGED <<flags, held>>
  /\ data' = [data EXCEPT ![bh] = mem[Console]]
  /\ bh' = Null
  /\ pc' = [pc EXCEPT ![Console] = "idle"] /\ ret' = [ret EXCEPT ![Console] = "idle"]
  /\ ask' = [ask EXCEPT ![Console] = <<0, 0>>]
  /\ ok' = [ok EXCEPT ![Console] = FALSE] /\ mem' = [mem EXCEPT ![Console] = Empty]
  /\ UNCHANGED <<sema, request, drive, dev, blk, chains, free, page>>

(* brelse().                                                               *)
Brelse(x) ==
  /\ pc[Console] = "idle" /\ x \in held
  /\ held' = held \ {x}
  /\ UseFree(InsertFree(x))
  /\ UNCHANGED <<vars, heads, chains, bh, lost, page>>

(* ext2fs_ls() returns when alloc_page() has nothing, and keeps the buffer.*)
LsReturns(x) ==
  /\ pc[Console] = "idle" /\ x \in held /\ Cardinality(lost) < MaxLost
  /\ held' = held \ {x} /\ lost' = lost \cup {x}
  /\ UNCHANGED <<vars, heads, chains, free, bh, page>>

(* The pages are given back, buf_destroy(), and the next mount sets the    *)
(* cache up anew, buf_init(): with the heads in a page that holds what its *)
(* last user left there, the cache itself or another.                      *)
Remount ==
  /\ pc[Console] = "idle" /\ held = {}
  /\ dev' = [x \in Bufs |-> 0] /\ blk' = [x \in Bufs |-> 0]
  /\ data' = [x \in Bufs |-> Empty]
  /\ \E p \in HeadPages :
       /\ flags' = p.flags /\ next' = p.next /\ prev' = p.prev
       /\ tidy' = Untangled(p.next, p.prev)
  /\ next_free' = FreshNext /\ prev_free' = FreshPrev /\ free_list' = 0
  /\ hash_table' = [h \in Slots |-> Null]
  /\ lost' = {}
  /\ UNCHANGED <<vars, bh, held, astray>>

BNext ==
  /\ ~astray
  /\ \/ \E b \in Blks : BreadFound(b) \/ BreadFree(b) \/ Astray(b)
     \/ BreadFilled
     \/ \E x \in Bufs : Brelse(x) \/ LsReturns(x)
     \/ Remount
     \/ /\ Handler \/ \E t \in Threads : IoStep(t) \/ Call(t) \/ Done(t)
        /\ UNCHANGED cache

BSpec == BInit /\ [][BNext]_bvars

(* The drive answers every command, with data or an error, and a thread    *)
(* that can run gets the processor.                                        *)
FairBSpec ==
  /\ BSpec
  /\ WF_bvars(~astray /\ Handler /\ UNCHANGED cache)
  /\ \A t \in Threads : WF_bvars(~astray /\ IoStep(t) /\ UNCHANGED cache)
-----------------------------------------------------------------------------
(* Every value is of its kind, and the driver's are.                       *)
BTypeOK ==
  /\ TypeOK
  /\ dev \in [Bufs -> {0, Dev}] /\ blk \in [Bufs -> {0} \cup Blks]
  /\ flags \in [Bufs -> 0 .. 1]
  /\ {next, prev} \subseteq Links
  /\ {next_free, prev_free} \subseteq [Bufs -> Bufs \cup {Null}]
  /\ hash_table \in [Slots -> Bufs \cup {Null}]
  /\ free_list \in Bufs /\ bh \in Bufs \cup {Null} /\ {tidy, astray} \subseteq BOOLEAN

(* The free list from its head, up to where it ends or begins again.       *)
FreeSeq ==
  LET Walk[i \in 1 .. NBuf] ==
        IF i = 1 THEN <<free_list>>
        ELSE LET s == Walk[i - 1]  x == next_free[s[Len(s)]] IN
             IF x \in {Null, free_list} THEN s ELSE Append(s, x)
  IN Walk[NBuf]

Taken == held \cup lost \cup ({bh} \ {Null})

(* The free list holds exactly the buffers nobody has, each once, and is a *)
(* list in both directions, whatever leaves it in the middle.              *)
FreeRing ==
  LET s == FreeSeq IN
  /\ {s[i] : i \in DOMAIN s} = Bufs \ Taken
  /\ Len(s) = Cardinality(Bufs \ Taken)
  /\ \A i \in 1 .. Len(s) - 1 : prev_free[s[i + 1]] = s[i]
  /\ prev_free[free_list] = s[Len(s)]

(* A head that may name block 0 of device 0 for having been set up only.   *)
Odd(x) == Dev = 0 /\ blk[x] = 0

(* On heads whose links were in order: a buffer that stands for a block is *)
(* on the chain of its slot and on no other, once, so that buf_get_hash()  *)
(* finds every block that is in the cache, and finds one buffer.           *)
HashExact ==
  tidy =>
    \A h \in Slots :
      LET at == ChainAt(h)  chain == [i \in 0 .. NBuf |-> at[i]]
          Times(x) == Cardinality({i \in 0 .. NBuf : chain[i] = x})
      IN \A x \in Bufs :
           IF dev[x] = Dev /\ Hash[<<dev[x], blk[x]>>] = h
           THEN Times(x) = 1 \/ (Odd(x) /\ Times(x) = 0)
           ELSE Times(x) = 0

(* The buffers' lists are sound through hits, evictions, failed reads and  *)
(* remounts, whatever page the heads get: each buffer is free or taken.    *)
(* If the links in that page were in order, each is found under its block  *)
(* and no look-up goes astray (buf.c:50-306).                              *)
BuffersSound == BTypeOK /\ FreeRing /\ HashExact /\ (tidy => ~astray)

(* A reader that holds a buffer has the block it asked for, and no buffer  *)
(* that claims to have been read holds anything but its block: but for     *)
(* block 0 of device 0, which an old flag in the heads' page passes off as *)
(* read when the buffer has been cleared only (buf.c:296-297, 195).        *)
DataFresh ==
  \A x \in Bufs : dev[x] = Dev /\ flags[x] # 0
                     => data[x] = Image(blk[x]) \/ (Odd(x) /\ data[x] = Empty)

(* The cache as a least-recently-used cache, with the pointers gone.       *)
Lru == INSTANCE LruCache WITH
  NoBlk <- Null,
  Loose <- Dev = 0 /\ 0 \in Blks,
  order <- FreeSeq,
  content <- [x \in Bufs |-> IF dev[x] = Dev /\ ~Odd(x) THEN blk[x] ELSE Null],
  sound <- tidy

ImplementsLru == Lru!LSpec
=============================================================================
