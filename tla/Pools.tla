------------------------------- MODULE Pools -------------------------------
(***************************************************************************)
(* The chunk allocator of kern/pool.c: init_pool(), new_pool(),            *)
(* alloc_pool() and free_pool(), on top of the page list of Pages.         *)
(*                                                                         *)
(* A pool is a page with a descriptor and PerPage chunks; the pools of a   *)
(* master are linked, and hint names one that had a free chunk last.       *)
(* Everything happens under the master's s_lock, which is held while       *)
(* alloc_page() and free_page() wait for freeq_lock.                       *)
(***************************************************************************)
EXTENDS Pages

CONSTANTS
  Masters,   \* the master pools
  PerPage    \* chunks of a master's size that fit into a page

ASSUME PoolsAssumption ==
  PerPage \in [Masters -> Nat \ {0}] /\ IsFiniteSet(Masters) /\ None \notin Masters

VARIABLES
  pools, hint, mcount,       \* master_pool: pools, hint, count
  s_lock,                    \* who holds the master's s_lock
  master, refcnt, nfree,     \* pool_desc, one in each page used as a pool
  pfree, plink,              \* pool_desc.free, a chunk or 0; pool_desc.next
  cnext,                     \* the first word of a free chunk
  mp, pool, lp,              \* local variables of the two functions
  chunks                     \* chunks a thread got and not gave back

masters == <<pools, hint, mcount, s_lock>>
descs   == <<master, refcnt, nfree, pfree, plink, cnext>>
plocal  == <<mp, pool, lp, chunks>>
pvars   == <<vars, masters, descs, plocal>>

Chunks(m) == 1 .. PerPage[m]
ChunkNums == UNION {Chunks(m) : m \in Masters}

PInit ==
  /\ Init
  /\ pools = [m \in Masters |-> Nil] /\ hint = [m \in Masters |-> Nil]
  /\ mcount = [m \in Masters |-> 0] /\ s_lock = [m \in Masters |-> None]
  /\ master = [p \in PageNums |-> None]
  /\ refcnt = [p \in PageNums |-> 0] /\ nfree = [p \in PageNums |-> 0]
  /\ pfree = [p \in PageNums |-> 0] /\ plink = [p \in PageNums |-> Nil]
  /\ cnext = [p \in PageNums |-> [i \in ChunkNums |-> 0]]
  /\ mp = [t \in Threads |-> None]
  /\ pool = [t \in Threads |-> Nil] /\ lp = [t \in Threads |-> Nil]
  /\ chunks = [t \in Threads |-> {}]

Goto(t, label) == pc' = [pc EXCEPT ![t] = label]

(* sema_v(s_lock) and return: the local variables are gone.                *)
Leave(t) ==
  /\ s_lock' = [s_lock EXCEPT ![mp[t]] = None]
  /\ mp' = [mp EXCEPT ![t] = None]
  /\ pool' = [pool EXCEPT ![t] = Nil] /\ lp' = [lp EXCEPT ![t] = Nil]
  /\ Return(t)

(* Mutant: nothing is done about the hint.                                 *)
NextHintKept(m, p) == hint[m]

(* free_pool(): a hint to the pool that is given up moves on.              *)
NextHint(m, p) == IF hint[m] = p THEN plink[p] ELSE hint[m]

(* The i-th pool of m's list, counted from 0.                              *)
PoolAt(m) ==
  LET At[i \in PageNums] ==
        IF i = 0 THEN pools[m]
        ELSE LET p == At[i - 1] IN IF p = Nil THEN Nil ELSE plink[p]
  IN At
PoolSet(m) == LET at == PoolAt(m) IN {at[i] : i \in PageNums} \ {Nil}

(* The first pool of the list with a free chunk, or Nil.                   *)
FirstWithFree(m) ==
  LET at == PoolAt(m)
      has(i) == at[i] # Nil /\ pfree[at[i]] # 0
  IN IF \E i \in PageNums : has(i)
     THEN at[CHOOSE i \in PageNums : has(i) /\ \A j \in 0 .. i - 1 : ~has(j)]
     ELSE Nil

-----------------------------------------------------------------------------
(* alloc_pool() uses the hint when it has a free chunk.                    *)
HintGood(m) == hint[m] # Nil /\ pfree[hint[m]] # 0

(* alloc_pool(): sema_p(s_lock), then the hint, the first pool with a free *)
(* chunk, or alloc_page() for a new one.                                   *)
AllocPool(t, m) ==
  LET found == IF HintGood(m) THEN hint[m] ELSE FirstWithFree(m) IN
  /\ pc[t] = "idle"
  /\ s_lock[m] = None
  /\ s_lock' = [s_lock EXCEPT ![m] = t]
  /\ mp' = [mp EXCEPT ![t] = m]
  /\ \/ /\ found # Nil
        /\ pool' = [pool EXCEPT ![t] = found]
        /\ hint' = [hint EXCEPT ![m] = found]
        /\ Goto(t, "take") /\ UNCHANGED ret
     \/ /\ found = Nil
        /\ Goto(t, "alloc") /\ ret' = [ret EXCEPT ![t] = "newpool"]
        /\ UNCHANGED <<pool, hint>>
  /\ UNCHANGED <<list, freeq, page, own, pools, mcount, descs, lp, chunks>>

(* new_pool() after alloc_page(): the descriptor and the chain of chunks   *)
(* are written into the page and the pool becomes the first of the list.   *)
NewPool(t) ==
  LET m == mp[t]  p == page[t] IN
  /\ pc[t] = "newpool" /\ p # Nil
  /\ master' = [master EXCEPT ![p] = m]
  /\ refcnt' = [refcnt EXCEPT ![p] = 0] /\ nfree' = [nfree EXCEPT ![p] = PerPage[m]]
  /\ pfree' = [pfree EXCEPT ![p] = 1]
  /\ cnext' = [cnext EXCEPT ![p] = [i \in ChunkNums |-> IF i < PerPage[m] THEN i + 1 ELSE 0]]
  /\ plink' = [plink EXCEPT ![p] = pools[m]]
  /\ pools' = [pools EXCEPT ![m] = p] /\ mcount' = [mcount EXCEPT ![m] = @ + 1]
  /\ hint' = [hint EXCEPT ![m] = p] /\ pool' = [pool EXCEPT ![t] = p]
  /\ page' = [page EXCEPT ![t] = Nil]
  /\ Goto(t, "take")
  /\ UNCHANGED <<list, freeq, ret, own, s_lock, mp, lp, chunks>>

(* new_pool() found no page: alloc_pool() goes on with p NULL and faults   *)
(* when it reads p->free, s_lock held.                                     *)
NoPool(t) ==
  /\ pc[t] = "newpool" /\ page[t] = Nil
  /\ hint' = [hint EXCEPT ![mp[t]] = Nil]
  /\ Goto(t, "fault")
  /\ UNCHANGED <<list, freeq, ret, page, own, pools, mcount, s_lock, descs, plocal>>

(* Mutant: the chunk stays at the head of the free list.                   *)
TakeChunkPeek(t) ==
  LET p == pool[t] IN
  /\ pc[t] = "take"
  /\ chunks' = [chunks EXCEPT ![t] = @ \cup {<<p, pfree[p]>>}]
  /\ refcnt' = [refcnt EXCEPT ![p] = @ + 1] /\ nfree' = [nfree EXCEPT ![p] = @ - 1]
  /\ Leave(t)
  /\ UNCHANGED <<list, freeq, own, pools, hint, mcount, master, pfree, plink, cnext>>

(* alloc_pool(): the first free chunk is taken; sema_v(s_lock).            *)
TakeChunk(t) ==
  LET p == pool[t] IN
  /\ pc[t] = "take"
  /\ chunks' = [chunks EXCEPT ![t] = @ \cup {<<p, pfree[p]>>}]
  /\ pfree' = [pfree EXCEPT ![p] = cnext[p][pfree[p]]]
  /\ refcnt' = [refcnt EXCEPT ![p] = @ + 1] /\ nfree' = [nfree EXCEPT ![p] = @ - 1]
  /\ Leave(t)
  /\ UNCHANGED <<list, freeq, own, pools, hint, mcount, master, plink, cnext>>

-----------------------------------------------------------------------------
(* Mutant: the master's count is forgotten.                                *)
GiveUpUncounted(t, m, p) ==
  /\ page' = [page EXCEPT ![t] = p]
  /\ Goto(t, "free") /\ ret' = [ret EXCEPT ![t] = "unlock"]
  /\ master' = [master EXCEPT ![p] = None]
  /\ UNCHANGED mcount

(* Mutant: the page is not given back.                                     *)
GiveUpPageKept(t, m, p) ==
  /\ mcount' = [mcount EXCEPT ![m] = @ - 1]
  /\ Goto(t, "unlock")
  /\ master' = [master EXCEPT ![p] = None]
  /\ UNCHANGED <<page, ret>>

(* free_pool(): the pool is off the list, and free_page() comes next.  Its *)
(* descriptor is not looked at again: from here on the page is no pool.    *)
GiveUp(t, m, p) ==
  /\ mcount' = [mcount EXCEPT ![m] = @ - 1]
  /\ page' = [page EXCEPT ![t] = p]
  /\ Goto(t, "free") /\ ret' = [ret EXCEPT ![t] = "unlock"]
  /\ master' = [master EXCEPT ![p] = None]

(* Mutant: refcnt is not counted down.                                     *)
FreeChunkKeepsRef(t, c) ==
  LET p == c[1] IN
  /\ pc[t] = "idle"
  /\ c \in chunks[t]
  /\ s_lock[master[p]] = None
  /\ refcnt[p] - 1 # 0
  /\ chunks' = [chunks EXCEPT ![t] = @ \ {c}]
  /\ cnext' = [cnext EXCEPT ![p][c[2]] = pfree[p]]
  /\ pfree' = [pfree EXCEPT ![p] = c[2]]
  /\ nfree' = [nfree EXCEPT ![p] = @ + 1]
  /\ UNCHANGED <<vars, masters, master, refcnt, plink, mp, pool, lp>>

(* free_pool(): sema_p(s_lock) of the chunk's master; the chunk goes back, *)
(* and if other chunks of the pool are in use that is all.                 *)
FreeChunk(t, c) ==
  LET p == c[1] IN
  /\ pc[t] = "idle"
  /\ c \in chunks[t]
  /\ s_lock[master[p]] = None
  /\ refcnt[p] - 1 # 0
  /\ chunks' = [chunks EXCEPT ![t] = @ \ {c}]
  /\ cnext' = [cnext EXCEPT ![p][c[2]] = pfree[p]]
  /\ pfree' = [pfree EXCEPT ![p] = c[2]]
  /\ nfree' = [nfree EXCEPT ![p] = @ + 1] /\ refcnt' = [refcnt EXCEPT ![p] = @ - 1]
  /\ UNCHANGED <<vars, masters, master, plink, mp, pool, lp>>

(* free_pool() of the last chunk in use: a pool that is the first of the   *)
(* list is unlinked at once.                                               *)
FreeLastChunk(t, c) ==
  LET p == c[1]  m == master[p] IN
  /\ pc[t] = "idle"
  /\ c \in chunks[t]
  /\ s_lock[m] = None
  /\ refcnt[p] - 1 = 0
  /\ s_lock' = [s_lock EXCEPT ![m] = t]
  /\ chunks' = [chunks EXCEPT ![t] = @ \ {c}]
  /\ mp' = [mp EXCEPT ![t] = m] /\ pool' = [pool EXCEPT ![t] = p]
  /\ hint' = [hint EXCEPT ![m] = NextHint(m, p)]
  /\ refcnt' = [refcnt EXCEPT ![p] = 0] /\ nfree' = [nfree EXCEPT ![p] = 0]
  /\ pfree' = [pfree EXCEPT ![p] = 0]
  /\ cnext' = [cnext EXCEPT ![p] = [i \in ChunkNums |-> 0]]
  /\ \/ /\ pools[m] = p
        /\ pools' = [pools EXCEPT ![m] = plink[p]]
        /\ plink' = [plink EXCEPT ![p] = Nil]
        /\ GiveUp(t, m, p)
        /\ UNCHANGED lp
     \/ /\ pools[m] # p
        /\ lp' = [lp EXCEPT ![t] = pools[m]]
        /\ Goto(t, "search")
        /\ UNCHANGED <<pools, plink, mcount, page, ret, master>>
  /\ UNCHANGED <<list, freeq, own>>

(* free_pool(): the loop that looks for the pool's predecessor.  Its third *)
(* expression is lp->next, not an assignment: lp never moves.              *)
Search(t) ==
  LET p == pool[t] IN
  /\ pc[t] = "search"
  /\ \/ /\ plink[lp[t]] = p
        /\ plink' = [plink EXCEPT ![lp[t]] = plink[p], ![p] = Nil]
        /\ GiveUp(t, mp[t], p)
     \/ /\ plink[lp[t]] # p
        /\ UNCHANGED <<plink, mcount, page, pc, ret, master>>
  /\ UNCHANGED <<list, freeq, own, pools, hint, s_lock, refcnt, nfree, pfree,
                 cnext, plocal>>

(* free_pool() after free_page(): sema_v(s_lock).                          *)
FreedPool(t) ==
  /\ pc[t] = "unlock"
  /\ Leave(t)
  /\ UNCHANGED <<list, freeq, own, pools, hint, mcount, descs, chunks>>

PoolStep(t) ==
  \/ \E m \in Masters : AllocPool(t, m)
  \/ NewPool(t)
  \/ NoPool(t)
  \/ TakeChunk(t)
  \/ \E c \in chunks[t] : FreeChunk(t, c) \/ FreeLastChunk(t, c)
  \/ Search(t)
  \/ FreedPool(t)

PNext ==
  \E t \in Threads :
    \/ PoolStep(t)
    \/ (PageStep(t) \/ Use(t)) /\ UNCHANGED <<masters, descs, plocal>>

PSpec == PInit /\ [][PNext]_pvars

(* A thread that is in free_pool() and can run gets the processor.         *)
FairPSpec == PSpec /\ \A t \in Threads : WF_pvars(Search(t))
-----------------------------------------------------------------------------
(* Every value is of its kind.                                             *)
PTypeOK ==
  /\ TypeOK
  /\ pools \in [Masters -> PageNums \cup {Nil}] /\ hint \in [Masters -> PageNums \cup {Nil}]
  /\ mcount \in [Masters -> 0 .. MaxPages]
  /\ s_lock \in [Masters -> Threads \cup {None}]
  /\ master \in [PageNums -> Masters \cup {None}]
  /\ {refcnt, nfree, pfree} \subseteq [PageNums -> {0} \cup ChunkNums]
  /\ plink \in [PageNums -> PageNums \cup {Nil}]

(* A page is a pool of one master at most, and while it is one it is not   *)
(* free, reserved, or in the hands of a thread as a page.                  *)
PoolPages == UNION {PoolSet(m) : m \in Masters}
PoolsExclusive ==
  LET set == [m \in Masters |-> PoolSet(m)]
      all == UNION {set[m] : m \in Masters}
  IN
  /\ \A m, n \in Masters : m # n => set[m] \cap set[n] = {}
  /\ all \cap (FreeSet \cup Reserved \cup UNION {Held(t) : t \in Threads}) = {}
  /\ \A m \in Masters : s_lock[m] = None => mcount[m] = Cardinality(set[m])

(* No page is lost between the pools and the page list.                    *)
PoolPagesAccounted ==
  PageNums \ {First} =
    PoolPages \cup FreeSet \cup Reserved \cup UNION {Held(t) : t \in Threads}

(* A chunk belongs to one thread at a time, and its pool is a linked pool  *)
(* of its master: no pool is given up while one of its chunks is in use.   *)
ChunksExclusive ==
  /\ \A t, u \in Threads : t # u => chunks[t] \cap chunks[u] = {}
  /\ \A m \in Masters :
       {c[1] : c \in {d \in UNION {chunks[t] : t \in Threads} : master[d[1]] = m}}
         \subseteq PoolSet(m)
  /\ \A t \in Threads : \A c \in chunks[t] : master[c[1]] # None

(* Between operations, a pool's chunks are either free or in use, the two  *)
(* counts say how many, and a pool with none in use is not kept.           *)
InUse(p) == {c \in UNION {chunks[t] : t \in Threads} : c[1] = p}
FreeChunks(p) ==
  LET At[i \in {0} \cup ChunkNums] ==
        IF i = 0 THEN pfree[p]
        ELSE LET c == At[i - 1] IN IF c = 0 THEN 0 ELSE cnext[p][c]
  IN {At[i] : i \in {0} \cup ChunkNums} \ {0}
ChunksAccounted ==
  \A m \in Masters : s_lock[m] = None =>
    \A p \in PoolSet(m) :
      /\ FreeChunks(p) = Chunks(m) \ {c[2] : c \in InUse(p)}
      /\ refcnt[p] = Cardinality(InUse(p)) /\ nfree[p] = Cardinality(FreeChunks(p))
      /\ refcnt[p] > 0

(* Between operations the hint is a pool of the list, or none: alloc_pool  *)
(* never looks into a page that was given up (pool.c:198-199).             *)
HintLinked ==
  \A m \in Masters : s_lock[m] = None => hint[m] \in PoolSet(m) \cup {Nil}

(* Pages change hands between the page list, the pools and the threads     *)
(* without one being lost or had twice (pool.c:43-111, 157-232).           *)
PoolsSound == PTypeOK /\ PoolsExclusive /\ PoolPagesAccounted

(* A chunk is one thread's, and a pool's counts and free chain tell what   *)
(* is left of it (pool.c:113-188).                                         *)
ChunksSound == ChunksExclusive /\ ChunksAccounted

(* pool.c:204 "go through the whole list": the loop ends.                  *)
SearchEnds == \A t \in Threads : pc[t] = "search" ~> pc[t] # "search"
=============================================================================
