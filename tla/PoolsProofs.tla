---------------------------- MODULE PoolsProofs ----------------------------
(***************************************************************************)
(* Proofs about modules Pages and Pools, for any number of threads, pages, *)
(* master pools and chunks of a page: every page is free, reserved, a pool *)
(* of one master or with one thread, every chunk is free or with one       *)
(* thread, and lists, counts and flags agree with that.                    *)
(*                                                                         *)
(* The invariant says of each list which set of elements it has to hold;   *)
(* the lemmas about chains of module Chains say how a list and its set     *)
(* change together.                                                        *)
(***************************************************************************)
EXTENDS Pools, Chains

Labels == {"idle", "alloc", "pop", "mark", "got", "free", "push", "freed",
           "newpool", "take", "fault", "search", "unlock"}

(* The pages that page number 0, which is reserved, leaves.                *)
Frames == 1 .. MaxPages - 1
(* The pages used as pools of m, and those nobody has.                     *)
Of(m) == {p \in PageNums : master[p] = m}
Free  == {p \in PageNums : /\ p \notin Reserved /\ p # First /\ master[p] = None
                           /\ \A t \in Threads : p \notin Held(t)}

(* The thread is in alloc_pool() or free_pool(), with the master's lock.   *)
Inside(t) ==
  \/ pc[t] \in {"newpool", "take", "fault", "search", "unlock"}
  \/ pc[t] \in {"alloc", "pop", "mark", "free", "push"} /\ ret[t] \in {"newpool", "unlock"}

Shapes ==
  /\ flags \in [PageNums -> {"FREE", "USED", "RESERVED"}]
  /\ next \in [PageNums -> PageNums \cup {Nil}]
  /\ free_pages \in PageNums \cup {Nil}
  /\ freeq \in Threads \cup {None}
  /\ {pc, ret} \subseteq [Threads -> Labels]
  /\ {page, pool, lp} \subseteq [Threads -> PageNums \cup {Nil}]
  /\ own \in [Threads -> SUBSET PageNums]
  /\ {pools, hint} \subseteq [Masters -> PageNums \cup {Nil}]
  /\ mcount \in [Masters -> Nat]
  /\ s_lock \in [Masters -> Threads \cup {None}]
  /\ master \in [PageNums -> Masters \cup {None}]
  /\ {refcnt, nfree, pfree} \subseteq [PageNums -> {0} \cup ChunkNums]
  /\ plink \in [PageNums -> PageNums \cup {Nil}]
  /\ cnext \in [PageNums -> [ChunkNums -> {0} \cup ChunkNums]]
  /\ mp \in [Threads -> Masters \cup {None}]
  /\ chunks \in [Threads -> SUBSET (PageNums \X ChunkNums)]

(* What each step of a call finds: the lock it holds, the page it has.     *)
Call(t) ==
  /\ pc[t] \in {"alloc", "pop", "mark"} => ret[t] \in {"got", "newpool"}
  /\ pc[t] \in {"free", "push"} => ret[t] \in {"freed", "unlock"}
  /\ pc[t] \in {"mark", "free", "push"} => page[t] # Nil
  /\ pc[t] \in {"pop", "push"} => freeq = t
  /\ pc[t] = "pop" => page[t] = free_pages
  /\ pc[t] = "push" => next[page[t]] = free_pages
  /\ Inside(t) => mp[t] \in Masters /\ s_lock[mp[t]] = t

Calls == \A t \in Threads : Call(t)

(* A page a thread has is no other's and is neither reserved nor a pool.   *)
Apart ==
  /\ \A t, u \in Threads : t # u => Held(t) \cap Held(u) = {}
  /\ \A t \in Threads : Handled(t) \cap own[t] = {}
  /\ \A t \in Threads : \A p \in Held(t) :
       p \notin Reserved /\ p # First /\ master[p] = None
  /\ \A p \in PageNums : master[p] # None => p \notin Reserved /\ p # First

(* The free list holds the pages nobody has.                               *)
PageList ==
  /\ IsChain(free_pages, next, Nil, Frames, Free)
  /\ free_count = Cardinality(Free)
  /\ \A p \in Free : flags[p] = "FREE"
  /\ \A t \in Threads : \A p \in own[t] : flags[p] = "USED"
  /\ \A t \in Threads : pc[t] = "got" /\ page[t] # Nil => flags[page[t]] = "USED"

(* The list of a master holds its pools.                                   *)
PoolList(m) ==
  /\ IsChain(pools[m], plink, Nil, Frames, Of(m))
  /\ mcount[m] = Cardinality(Of(m))
  /\ hint[m] \in Of(m) \cup {Nil}

PoolLists == \A m \in Masters : PoolList(m)

(* The pool is about to be given up, or has just been made.                *)
Leaving(p) == \E t \in Threads : pc[t] = "search" /\ pool[t] = p
Fresh(p)   == \E t \in Threads : pc[t] = "take" /\ pool[t] = p

Numbers(p) == {c[2] : c \in InUse(p)}
Left(p)    == Chunks(master[p]) \ Numbers(p)

(* A pool's chain holds the chunks nobody has.                             *)
ChunkList(p) ==
  master[p] # None /\ ~Leaving(p) =>
    /\ IsChain(pfree[p], cnext[p], 0, Chunks(master[p]), Left(p))
    /\ refcnt[p] = Cardinality(InUse(p))
    /\ nfree[p] = Cardinality(Left(p))
    /\ refcnt[p] + nfree[p] = PerPage[master[p]]
    /\ refcnt[p] > 0 \/ Fresh(p)

ChunkLists ==
  /\ \A t, u \in Threads : t # u => chunks[t] \cap chunks[u] = {}
  /\ \A t \in Threads : \A c \in chunks[t] :
       master[c[1]] # None /\ c[2] \in Chunks(master[c[1]])
  /\ \A p \in PageNums : ChunkList(p)

(* What alloc_pool() and free_pool() find with the lock held.              *)
Searches ==
  \A t \in Threads :
    /\ pc[t] = "take" =>
         /\ pool[t] \in PageNums /\ master[pool[t]] = mp[t] /\ pfree[pool[t]] # 0
    /\ pc[t] = "search" =>
         /\ pool[t] \in PageNums /\ master[pool[t]] = mp[t]
         /\ lp[t] = pools[mp[t]] /\ lp[t] # pool[t] /\ hint[mp[t]] # pool[t]
         /\ InUse(pool[t]) = {}

PoolInv == Shapes /\ Calls /\ Apart /\ PageList /\ PoolLists /\ ChunkLists /\ Searches

-----------------------------------------------------------------------------
(* What the constants amount to.                                           *)
LEMMA PageFacts ==
  /\ MaxPages \in Nat /\ MaxPages > 1 /\ MaxPages - 1 \in Nat
  /\ PageNums = 0 .. MaxPages - 1 /\ Frames = PageNums \ {0} /\ 0 \in Reserved
  /\ Reserved \subseteq PageNums /\ First \in PageNums \ Reserved
  /\ Nil \notin PageNums /\ None \notin Threads /\ None \notin Masters
  /\ IsFiniteSet(PageNums)
  /\ \A M \in SUBSET Frames : IsFiniteSet(M) /\ Cardinality(M) <= MaxPages - 1
  /\ \A p \in PageNums \ Reserved : p # First => p > NPG_RESERVED /\ p < MaxPages
  <1>1. /\ MaxPages \in Nat /\ MaxPages > 1 /\ MaxPages - 1 \in Nat
        /\ PageNums = 0 .. MaxPages - 1 /\ None \notin Threads
        /\ NPG_RESERVED \in Nat /\ ResStart \in Nat /\ ResEnd \in Nat /\ 0 < NPG_RESERVED
        /\ NPG_RESERVED + 1 < ResStart /\ ResStart < ResEnd /\ ResEnd < MaxPages
    BY PagesAssumption DEF PageNums
  <1>2. Frames = PageNums \ {0} /\ Frames = 1 .. MaxPages - 1
    BY <1>1 DEF Frames
  <1>3. /\ 0 \in Reserved /\ Reserved \subseteq PageNums /\ First \in PageNums \ Reserved
        /\ \A p \in PageNums \ Reserved : p # First => p > NPG_RESERVED /\ p < MaxPages
    BY <1>1 DEF Reserved, First
  <1>4. Nil \notin PageNums
    BY <1>1 DEF Nil
  <1>5. /\ IsFiniteSet(PageNums)
        /\ IsFiniteSet(Frames) /\ Cardinality(Frames) = MaxPages - 1
    <2>1. 0 \in Int /\ 1 \in Int /\ MaxPages - 1 \in Int /\ ~(1 > MaxPages - 1)
      BY <1>1
    <2>2. IsFiniteSet(0 .. MaxPages - 1)
      BY <2>1, FS_Interval
    <2>3. PICK n \in Nat : n = MaxPages - 1 /\ n \in Int /\ ~(1 > n)
      BY <1>1
    <2>4. IsFiniteSet(1 .. n) /\ Cardinality(1 .. n) = n - 1 + 1
      BY <2>1, <2>3, FS_Interval
    <2>5. Cardinality(1 .. n) = n
      BY <2>3, <2>4
    <2> QED
      BY <1>1, <1>2, <2>2, <2>3, <2>4, <2>5
  <1>6. \A M \in SUBSET Frames : IsFiniteSet(M) /\ Cardinality(M) <= MaxPages - 1
    BY <1>5, FS_Subset
  <1>7. None \notin Masters
    BY PoolsAssumption
  <1> QED
    BY <1>1, <1>2, <1>3, <1>4, <1>5, <1>6, <1>7

(* The numbers of chunks are those up to the largest of a master.          *)
LEMMA ChunkFacts ==
  /\ \A m \in Masters : /\ PerPage[m] \in Nat /\ PerPage[m] > 0
                        /\ Chunks(m) = 1 .. PerPage[m] /\ Chunks(m) \subseteq ChunkNums
                        /\ IsFiniteSet(Chunks(m)) /\ Cardinality(Chunks(m)) = PerPage[m]
  /\ ChunkNums \subseteq Nat \ {0}
  /\ \E K \in Nat : {0} \cup ChunkNums = 0 .. K
  <1>1. PerPage \in [Masters -> Nat \ {0}] /\ IsFiniteSet(Masters)
    BY PoolsAssumption
  <1>2. ASSUME NEW m \in Masters
        PROVE  /\ PerPage[m] \in Nat /\ PerPage[m] > 0
               /\ Chunks(m) = 1 .. PerPage[m] /\ Chunks(m) \subseteq ChunkNums
               /\ IsFiniteSet(Chunks(m)) /\ Cardinality(Chunks(m)) = PerPage[m]
    <2>1. PerPage[m] \in Nat /\ PerPage[m] > 0 /\ 1 \in Int /\ PerPage[m] \in Int
      BY <1>1
    <2>2. /\ IsFiniteSet(1 .. PerPage[m])
          /\ Cardinality(1 .. PerPage[m]) = IF 1 > PerPage[m] THEN 0 ELSE PerPage[m] - 1 + 1
      BY <2>1, FS_Interval
    <2> QED
      BY <2>1, <2>2 DEF Chunks, ChunkNums
  <1>3. ChunkNums \subseteq Nat \ {0}
    BY <1>2 DEF ChunkNums
  <1>0. PICK n \in Nat : \E f \in [1 .. n -> Masters] :
                            \A m \in Masters : \E i \in 1 .. n : f[i] = m
    <2>1. PICK n \in Nat : ExistsBijection(1 .. n, Masters)
      BY <1>1, FS_CardinalityType
    <2>2. PICK f \in [1 .. n -> Masters] : \A m \in Masters : \E i \in 1 .. n : f[i] = m
      BY <2>1 DEF ExistsBijection, Bijection, Surjection, Injection
    <2> QED
      BY <2>2
  <1>4. PICK f \in [1 .. n -> Masters] : \A m \in Masters : \E i \in 1 .. n : f[i] = m
    BY <1>0
  <1> DEFINE P == {j \in 0 .. n : \E b \in Nat : \A i \in 1 .. j : PerPage[f[i]] <= b}
  <1>5. 0 .. n \subseteq P
    <2>1. 0 \in P
      OBVIOUS
    <2>2. ASSUME NEW j \in 0 .. n, j < n, j \in P PROVE j + 1 \in P
      <3>1. PICK b \in Nat : \A i \in 1 .. j : PerPage[f[i]] <= b
        BY <2>2
      <3>2. j + 1 \in 0 .. n /\ j + 1 \in 1 .. n
        BY <2>2
      <3>3. PerPage[f[j + 1]] \in Nat
        BY <1>1, <1>4, <3>2
      <3>4. PICK c \in Nat : b <= c /\ PerPage[f[j + 1]] <= c
        <4>1. CASE b <= PerPage[f[j + 1]]
          BY <3>3, <4>1
        <4>2. CASE ~(b <= PerPage[f[j + 1]])
          BY <3>3, <4>2
        <4> QED
          BY <4>1, <4>2
      <3>5. ASSUME NEW i \in 1 .. j + 1 PROVE PerPage[f[i]] <= c
        <4>1. CASE i = j + 1
          BY <3>4, <4>1
        <4>2. CASE i # j + 1
          <5>1. i \in 1 .. j /\ i \in 1 .. n
            BY <2>2, <4>2
          <5>2. PerPage[f[i]] \in Nat /\ PerPage[f[i]] <= b
            BY <1>1, <1>4, <3>1, <5>1
          <5> QED
            BY <3>4, <5>2
        <4> QED
          BY <4>1, <4>2
      <3> QED
        BY <3>2, <3>5
    <2> HIDE DEF P
    <2> QED
      BY <2>1, <2>2, UpTo
  <1>6. PICK b \in Nat : \A m \in Masters : PerPage[m] <= b
    <2>1. n \in P
      <3> HIDE DEF P
      <3> QED
        BY <1>0, <1>5
    <2> QED
      BY <1>4, <2>1
  <1> DEFINE Top == {b_ \in Nat : \A m \in Masters : PerPage[m] <= b_}
  <1>7. PICK K \in Top : \A c \in Top : K <= c
    <2>1. Top \in SUBSET Nat /\ Top # {}
      BY <1>6
    <2> HIDE DEF Top
    <2> QED
      BY <2>1, LeastNat
  <1>8. {0} \cup ChunkNums = 0 .. K
    <2>1. ASSUME NEW c \in ChunkNums PROVE c \in 0 .. K
      <3>1. PICK m \in Masters : c \in 1 .. PerPage[m]
        BY DEF ChunkNums, Chunks
      <3> QED
        BY <1>1, <1>7, <3>1
    <2>2. ASSUME NEW c \in 1 .. K PROVE c \in ChunkNums
      <3>1. K - 1 \in Nat /\ K - 1 < K /\ K \in Nat
        BY <1>7
      <3>2. K - 1 \notin Top
        BY <1>7, <3>1
      <3>3. PICK m \in Masters : ~(PerPage[m] <= K - 1)
        BY <3>1, <3>2
      <3>4. PerPage[m] \in Nat /\ PerPage[m] >= K
        BY <1>1, <3>1, <3>3
      <3> QED
        BY <3>1, <3>4 DEF ChunkNums, Chunks
    <2>3. K \in Nat
      BY <1>7
    <2> QED
      BY <2>1, <2>2, <2>3
  <1>9. K \in Nat
    BY <1>7
  <1> QED
    BY <1>2, <1>3, <1>8, <1>9

(* The model's functions that follow a list meet what the list holds.      *)
LEMMA FreeSetIs ==
  ASSUME NEW M, IsChain(free_pages, next, Nil, Frames, M)
  PROVE  FreeSet = M
  <1> DEFINE At_[i \in PageNums] ==
               IF i = 0 THEN free_pages
               ELSE LET p == At_[i - 1] IN IF p = Nil THEN Nil ELSE next[p]
             N == MaxPages - 1
  <1>1. N \in Nat /\ PageNums = 0 .. N /\ Cardinality(M) <= N
    BY PageFacts, ChainFacts
  <1>2. FreeSet = {At_[i] : i \in PageNums} \ {Nil}
    BY DEF FreeSet
  <1> HIDE DEF N
  <1>3. /\ \E f : IsPath(f, N, free_pages, next, Nil)
        /\ \A f : IsPath(f, N, free_pages, next, Nil) =>
             {f[i] : i \in 0 .. N} \ {Nil} = M
    <2> HIDE DEF At_
    <2> QED
      BY <1>1, ChainPath
  <1>4. IsPath(At_, N, free_pages, next, Nil)
    BY <1>1, <1>3 DEF IsPath
  <1> HIDE DEF At_
  <1> QED
    BY <1>1, <1>2, <1>3, <1>4

(* The walk along a master's pools meets the elements of its chain.        *)
LEMMA PoolSetIs ==
  ASSUME NEW m, NEW M, IsChain(pools[m], plink, Nil, Frames, M)
  PROVE  PoolSet(m) = M
  <1> DEFINE At_[i \in PageNums] ==
               IF i = 0 THEN pools[m]
               ELSE LET p == At_[i - 1] IN IF p = Nil THEN Nil ELSE plink[p]
             N == MaxPages - 1
  <1>1. N \in Nat /\ PageNums = 0 .. N /\ Cardinality(M) <= N
    BY PageFacts, ChainFacts
  <1>2. PoolSet(m) = {At_[i] : i \in PageNums} \ {Nil}
    BY DEF PoolSet, PoolAt
  <1> HIDE DEF N
  <1>3. /\ \E f : IsPath(f, N, pools[m], plink, Nil)
        /\ \A f : IsPath(f, N, pools[m], plink, Nil) =>
             {f[i] : i \in 0 .. N} \ {Nil} = M
    <2> HIDE DEF At_
    <2> QED
      BY <1>1, ChainPath
  <1>4. IsPath(At_, N, pools[m], plink, Nil)
    BY <1>1, <1>3 DEF IsPath
  <1> HIDE DEF At_
  <1> QED
    BY <1>1, <1>2, <1>3, <1>4

(* The walk along a pool's free chunks meets the elements of its chain.    *)
LEMMA FreeChunksIs ==
  ASSUME NEW p, NEW m \in Masters, NEW M, IsChain(pfree[p], cnext[p], 0, Chunks(m), M)
  PROVE  FreeChunks(p) = M
  <1> DEFINE At_[i \in {0} \cup ChunkNums] ==
               IF i = 0 THEN pfree[p]
               ELSE LET c == At_[i - 1] IN IF c = 0 THEN 0 ELSE cnext[p][c]
  <1>1. PICK K \in Nat : {0} \cup ChunkNums = 0 .. K
    BY ChunkFacts
  <1>2. Cardinality(M) <= K
    <2>1. M \subseteq 1 .. K
      BY <1>1, ChainFacts, ChunkFacts
    <2>2. 1 \in Int /\ K \in Int
      BY <1>1
    <2>3. IsFiniteSet(1 .. K) /\ Cardinality(1 .. K) = IF 1 > K THEN 0 ELSE K - 1 + 1
      BY <2>2, FS_Interval
    <2>4. Cardinality(M) <= Cardinality(1 .. K)
      BY <2>1, <2>3, FS_Subset
    <2> QED
      BY <1>1, <2>3, <2>4
  <1>3. FreeChunks(p) = {At_[i] : i \in {0} \cup ChunkNums} \ {0}
    BY DEF FreeChunks
  <1>4. /\ \E f : IsPath(f, K, pfree[p], cnext[p], 0)
        /\ \A f : IsPath(f, K, pfree[p], cnext[p], 0) =>
             {f[i] : i \in 0 .. K} \ {0} = M
    <2> HIDE DEF At_
    <2> QED
      BY <1>1, <1>2, ChainPath
  <1>5. IsPath(At_, K, pfree[p], cnext[p], 0)
    BY <1>1, <1>4 DEF IsPath
  <1> HIDE DEF At_
  <1> QED
    BY <1>1, <1>3, <1>4, <1>5

(* The search of alloc_pool() ends at a pool of the list with a free chunk.*)
LEMMA SearchFinds ==
  ASSUME NEW m
  PROVE  FirstWithFree(m) # Nil =>
           FirstWithFree(m) \in PoolSet(m) /\ pfree[FirstWithFree(m)] # 0
  <1> DEFINE at == PoolAt(m)
             has(i) == at[i] # Nil /\ pfree[at[i]] # 0
             T == {j_ \in PageNums : has(j_)}
  <1>1. CASE T = {}
    BY <1>1 DEF FirstWithFree
  <1>2. CASE T # {}
    <2> HIDE DEF at
    <2>1. PICK i \in T : \A j \in T : i <= j
      <3>1. T \in SUBSET Nat
        BY PageFacts
      <3> HIDE DEF T
      <3> QED
        BY <1>2, <3>1, LeastNat
    <2>2. ASSUME NEW j \in 0 .. i - 1 PROVE ~has(j)
      <3>1. j \in PageNums /\ ~(i <= j)
        BY <2>1, PageFacts
      <3> QED
        BY <2>1, <3>1
    <2> DEFINE k == CHOOSE i_ \in PageNums : has(i_) /\ \A j \in 0 .. i_ - 1 : ~has(j)
    <2>3. k \in PageNums /\ has(k)
      BY <2>1, <2>2
    <2>4. FirstWithFree(m) = at[k]
      BY <2>3 DEF FirstWithFree, at
    <2>5. at[k] \in PoolSet(m)
      BY <2>3 DEF PoolSet, at
    <2> QED
      BY <2>3, <2>4, <2>5
  <1> QED
    BY <1>1, <1>2

-----------------------------------------------------------------------------
(* The invariant has everything the runs check.                            *)
LEMMA InvIsSound ==
  ASSUME PoolInv
  PROVE  PagesSound /\ PoolsSound /\ ChunksSound /\ HintLinked
  <1>1. FreeSet = Free
    BY FreeSetIs DEF PoolInv, PageList
  <1>2. \A m \in Masters : PoolSet(m) = Of(m)
    BY PoolSetIs DEF PoolInv, PoolLists, PoolList
  <1>3. Free \cap Reserved = {} /\ Free \subseteq Frames
    BY PageFacts DEF Free
  <1>4. PagesSound
    <2>1. \A t \in Threads : Held(t) \cap (Free \cup Reserved) = {}
      BY DEF PoolInv, Apart, Free
    <2> QED
      BY <1>1, <1>3, <2>1
         DEF PagesSound, PagesExclusive, FreeListExact, PoolInv, Apart, PageList
  <1>5. PTypeOK
    <2>1. free_count \in 0 .. MaxPages
      <3>1. IsFiniteSet(Free) /\ Cardinality(Free) <= MaxPages - 1
        BY <1>3, PageFacts
      <3>2. Cardinality(Free) \in Nat
        BY <3>1, FS_CardinalityType
      <3> QED
        BY <3>1, <3>2, PageFacts DEF PoolInv, PageList
    <2>2. \A m \in Masters : mcount[m] \in 0 .. MaxPages
      <3> SUFFICES ASSUME NEW m \in Masters PROVE mcount[m] \in 0 .. MaxPages
        OBVIOUS
      <3>1. Of(m) \in SUBSET Frames
        BY ChainFacts DEF PoolInv, PoolLists, PoolList
      <3>2. IsFiniteSet(Of(m)) /\ Cardinality(Of(m)) <= MaxPages - 1
        BY <3>1, PageFacts
      <3>3. Cardinality(Of(m)) \in Nat
        BY <3>2, FS_CardinalityType
      <3> QED
        BY <3>2, <3>3, PageFacts DEF PoolInv, PoolLists, PoolList
    <2>3. mcount \in [Masters -> 0 .. MaxPages]
      BY <2>2 DEF PoolInv, Shapes
    <2>4. TypeOK
      BY <2>1 DEF PoolInv, Shapes, TypeOK
    <2> QED
      BY <2>3, <2>4 DEF PoolInv, Shapes, PTypeOK
  <1>6. UNION {PoolSet(m) : m \in Masters} = {p \in PageNums : master[p] # None}
    <2>1. UNION {PoolSet(m) : m \in Masters} = UNION {Of(m) : m \in Masters}
      BY <1>2
    <2>2. \A p \in PageNums : master[p] # None => master[p] \in Masters
      BY DEF PoolInv, Shapes
    <2> QED
      BY <2>1, <2>2, PageFacts DEF Of
  <1>7. PoolsExclusive
    <2>1. \A m, n \in Masters : m # n => PoolSet(m) \cap PoolSet(n) = {}
      BY <1>2 DEF Of
    <2>2. {p \in PageNums : master[p] # None}
            \cap (FreeSet \cup Reserved \cup UNION {Held(t) : t \in Threads}) = {}
      BY <1>1 DEF Free, PoolInv, Apart
    <2>3. \A m \in Masters : s_lock[m] = None => mcount[m] = Cardinality(PoolSet(m))
      BY <1>2 DEF PoolInv, PoolLists, PoolList
    <2> DEFINE set == [m \in Masters |-> PoolSet(m)]
    <2>4. \A m \in Masters : set[m] = PoolSet(m)
      OBVIOUS
    <2>5. UNION {set[m] : m \in Masters} = {p \in PageNums : master[p] # None}
      BY <1>6, <2>4
    <2> QED
      BY <2>1, <2>2, <2>3, <2>4, <2>5 DEF PoolsExclusive
  <1>8. PoolPagesAccounted
    <2>1. PageNums \ {First} = {p \in PageNums : master[p] # None} \cup Free \cup Reserved
                               \cup UNION {Held(t) : t \in Threads}
      <3>1. \A t \in Threads : Held(t) \subseteq PageNums
        BY DEF Held, Handled, PoolInv, Shapes
      <3>2. ASSUME NEW p \in PageNums, p # First
            PROVE  \/ master[p] # None \/ p \in Free \/ p \in Reserved
                   \/ \E t \in Threads : p \in Held(t)
        BY <3>2 DEF Free
      <3>3. /\ First \notin Free /\ First \notin Reserved /\ master[First] = None
            /\ \A t \in Threads : First \notin Held(t)
        BY PageFacts DEF Free, PoolInv, Apart
      <3>4. Free \subseteq PageNums /\ Reserved \subseteq PageNums
        BY PageFacts DEF Free
      <3> QED
        BY <3>1, <3>2, <3>3, <3>4
    <2> QED
      BY <1>1, <1>6, <2>1 DEF PoolPagesAccounted, PoolPages
  <1>9. ChunksExclusive
    <2>1. \A t \in Threads : \A c \in chunks[t] : c[1] \in PageNums /\ master[c[1]] # None
      BY DEF PoolInv, Shapes, ChunkLists
    <2> QED
      BY <1>2, <2>1 DEF ChunksExclusive, Of, PoolInv, ChunkLists
  <1>10. ChunksAccounted
    <2> SUFFICES ASSUME NEW m \in Masters, s_lock[m] = None, NEW p \in PageNums, master[p] = m
                 PROVE  /\ FreeChunks(p) = Chunks(m) \ {c[2] : c \in InUse(p)}
                        /\ refcnt[p] = Cardinality(InUse(p))
                        /\ nfree[p] = Cardinality(FreeChunks(p))
                        /\ refcnt[p] > 0
      BY <1>2 DEF ChunksAccounted, Of
    <2>1. ~Leaving(p) /\ ~Fresh(p)
      BY PageFacts DEF Leaving, Fresh, PoolInv, Searches, Calls, Call, Inside
    <2>2. /\ IsChain(pfree[p], cnext[p], 0, Chunks(m), Left(p))
          /\ refcnt[p] = Cardinality(InUse(p)) /\ nfree[p] = Cardinality(Left(p))
          /\ refcnt[p] > 0
      BY <2>1, PageFacts DEF PoolInv, ChunkLists, ChunkList
    <2>3. FreeChunks(p) = Left(p)
      BY <2>2, FreeChunksIs
    <2> QED
      BY <2>2, <2>3 DEF Left, Numbers
  <1>11. HintLinked
    BY <1>2 DEF HintLinked, PoolInv, PoolLists, PoolList
  <1> QED
    BY <1>4, <1>5, <1>7, <1>8, <1>9, <1>10, <1>11 DEF PoolsSound, ChunksSound

(* init_pages() and reserve_region() leave every page on the list but the  *)
(* reserved ones and the first.                                            *)
LEMMA InitPoolInv == PInit => PoolInv
  <1> SUFFICES ASSUME PInit PROVE PoolInv
    OBVIOUS
  <1>0. /\ MaxPages \in Nat /\ NPG_RESERVED \in Nat /\ ResStart \in Nat /\ ResEnd \in Nat
        /\ 0 < NPG_RESERVED /\ NPG_RESERVED + 1 < ResStart
        /\ ResStart < ResEnd /\ ResEnd < MaxPages
        /\ First = NPG_RESERVED /\ Nil = 0 - 1 /\ PageNums = 0 .. MaxPages - 1
    BY PagesAssumption DEF First, Nil, PageNums
  <1>1. \A t \in Threads : Held(t) = {}
    BY DEF PInit, Init, Held, Handled
  <1> DEFINE M == {p \in PageNums : p \notin Reserved /\ p # First}
  <1>2. Free = M
    BY <1>1, PageFacts DEF Free, PInit
  <1>3. PICK a \in Nat, n \in Nat : /\ a > 0 /\ n > a
                                    /\ ResStart = First + 1 + a /\ MaxPages = ResEnd + (n - a)
    <2>1. /\ ResStart - 1 - First \in Nat /\ ResStart - 1 - First > 0
          /\ ResStart - 1 - First + (MaxPages - ResEnd) \in Nat
          /\ ResStart - 1 - First + (MaxPages - ResEnd) > ResStart - 1 - First
          /\ ResStart = First + 1 + (ResStart - 1 - First)
      BY <1>0
    <2>2. MaxPages = ResEnd + ((ResStart - 1 - First + (MaxPages - ResEnd)) - (ResStart - 1 - First))
      BY <1>0
    <2> QED
      BY <2>1, <2>2
  <1> DEFINE At(i) == IF i <= a THEN First + i ELSE ResEnd + (i - a) - 1
             q == [i \in 1 .. n |-> At(i)]
  <1>a. /\ First \in Nat /\ First > 0 /\ ResEnd \in Nat /\ First + 1 + a < ResEnd
        /\ Frames = 1 .. ResEnd + (n - a) - 1
    BY <1>0, <1>3 DEF Frames
  <1>b. ASSUME NEW i \in 1 .. n
        PROVE  /\ At(i) \in Frames /\ At(i) > First
               /\ At(i) < First + 1 + a \/ At(i) >= ResEnd
               /\ At(i) = MaxPages - 1 <=> i = n
               /\ At(i + 1) = IF At(i) = First + a THEN ResEnd ELSE At(i) + 1
    BY <1>3, <1>a
  <1>c. \A i, j \in 1 .. n : At(i) = At(j) => i = j
    BY <1>3, <1>a
  <1> HIDE DEF At
  <1>d. \A i \in 1 .. n : q[i] = At(i)
    OBVIOUS
  <1>4. \A p \in Frames : p \in M <=> (p > First /\ (p < ResStart \/ p >= ResEnd))
    BY <1>0 DEF Frames, Reserved
  <1>5. M \subseteq Frames
    BY PageFacts
  <1>6. q \in Seq(Frames) /\ Len(q) = n
    <2>1. \A i \in 1 .. n : q[i] \in Frames
      BY <1>b, <1>d
    <2> QED
      BY <1>3, <2>1
  <1>7. Members(q) = M
    <2>1. ASSUME NEW i \in 1 .. n PROVE q[i] \in M
      <3>1. q[i] \in Frames /\ q[i] > First /\ (q[i] < ResStart \/ q[i] >= ResEnd)
        BY <1>3, <1>b, <1>d
      <3> QED
        BY <1>4, <3>1
    <2>2. ASSUME NEW p \in M PROVE \E i \in 1 .. n : q[i] = p
      <3>1. p \in Frames /\ p > First /\ (p < ResStart \/ p >= ResEnd)
        BY <1>4, <1>5
      <3>2. CASE p < ResStart
        <4>1. p - First \in 1 .. n /\ p - First <= a /\ First + (p - First) = p
          BY <1>3, <1>a, <3>1, <3>2
        <4>2. PICK i \in 1 .. n : i = p - First /\ i <= a /\ First + i = p
          BY <4>1
        <4> QED
          BY <1>d, <4>2 DEF At
      <3>3. CASE p >= ResEnd
        <4>1. p \in Nat /\ p <= ResEnd + (n - a) - 1
          BY <1>3, <1>a, <3>1
        <4>2. PICK d \in Nat : p = ResEnd + d /\ d < n - a
          <5>1. p - ResEnd \in Nat /\ p = ResEnd + (p - ResEnd) /\ p - ResEnd < n - a
            BY <1>3, <1>a, <3>3, <4>1
          <5> QED
            BY <5>1
        <4>3. PICK i \in 1 .. n : i = d + a + 1
          <5>1. d + a + 1 \in 1 .. n
            BY <1>3, <4>2
          <5> QED
            BY <5>1
        <4>4. At(i) = p
          BY <1>3, <1>a, <4>2, <4>3 DEF At
        <4> QED
          BY <1>d, <4>4
      <3> QED
        BY <3>1, <3>2, <3>3
    <2> QED
      BY <1>6, <2>1, <2>2 DEF Members
  <1>8. Distinct(q)
    <2>1. \A i, j \in 1 .. n : q[i] = q[j] => i = j
      BY <1>c, <1>d
    <2> QED
      BY <1>6, <2>1 DEF Distinct
  <1>9. IsList(q, free_pages, next, Nil)
    <2>1. /\ free_pages = First + 1 /\ q # << >> /\ q[1] = First + 1
      <3>1. free_pages = First + 1
        BY <1>0 DEF PInit, Init, InitNext
      <3>2. 1 \in 1 .. n /\ At(1) = First + 1
        BY <1>3 DEF At
      <3> QED
        BY <1>6, <1>d, <3>1, <3>2
    <2>2. \A p \in M : next[p] = IF p = MaxPages - 1 THEN Nil
                                 ELSE IF p = ResStart - 1 THEN ResEnd ELSE p + 1
      <3> SUFFICES ASSUME NEW p \in M
                   PROVE  next[p] = IF p = MaxPages - 1 THEN Nil
                                    ELSE IF p = ResStart - 1 THEN ResEnd ELSE p + 1
        OBVIOUS
      <3>1. p \in PageNums /\ p # First /\ ~(p < NPG_RESERVED)
        BY <1>0, <1>4, <1>5 DEF Frames
      <3> QED
        BY <1>0, <3>1 DEF PInit, Init, InitNext
    <2>3. ASSUME NEW i \in 1 .. n
          PROVE  q[i] # Nil /\ next[q[i]] = IF i = n THEN Nil ELSE q[i + 1]
      <3>1. q[i] \in M
        BY <1>6, <1>7 DEF Members
      <3>2. q[i] # Nil /\ q[i] = At(i)
        BY <1>d, <3>1, PageFacts
      <3>3. q[i] = MaxPages - 1 <=> i = n
        BY <1>b, <3>2
      <3>4. CASE i = n
        BY <2>2, <3>1, <3>2, <3>3, <3>4
      <3>5. CASE i # n
        <4>1. PICK j \in 1 .. n : j = i + 1
          <5>1. i + 1 \in 1 .. n
            BY <1>3, <3>5
          <5> QED
            BY <5>1
        <4>2. q[j] = IF q[i] = First + a THEN ResEnd ELSE q[i] + 1
          BY <1>b, <1>d, <4>1
        <4>3. First + a = ResStart - 1
          BY <1>3, <1>a
        <4> QED
          BY <2>2, <3>1, <3>2, <3>3, <3>5, <4>1, <4>2, <4>3
      <3> QED
        BY <3>4, <3>5
    <2> HIDE DEF q
    <2> QED
      BY <1>6, <2>1, <2>3 DEF IsList
  <1>10. PageList
    <2>1. free_count = n
      BY <1>0, <1>3 DEF PInit, Init
    <2> HIDE DEF M, q
    <2>2. IsChain(free_pages, next, Nil, Frames, M)
      BY <1>6, <1>7, <1>8, <1>9 DEF IsChain
    <2>3. free_count = Cardinality(M)
      BY <1>6, <1>7, <1>8, <2>1, DistinctLen
    <2>4. \A p \in M : flags[p] = "FREE"
      BY DEF PInit, Init, M
    <2>5. /\ \A t \in Threads : own[t] = {}
          /\ \A t \in Threads : pc[t] # "got"
      BY DEF PInit, Init
    <2> QED
      BY <1>2, <2>2, <2>3, <2>4, <2>5 DEF PageList
  <1>11. Shapes
    <2>1. InitNext \in [PageNums -> PageNums \cup {Nil}]
      BY <1>0 DEF InitNext
    <2>2. First \in PageNums
      BY PageFacts
    <2>3. pc \in [Threads -> Labels] /\ ret \in [Threads -> Labels]
      BY DEF PInit, Init, Labels
    <2>4. flags \in [PageNums -> {"FREE", "USED", "RESERVED"}]
      BY DEF PInit, Init
    <2> QED
      BY <2>1, <2>2, <2>3, <2>4 DEF PInit, Init, Shapes
  <1>12. Calls /\ Searches
    BY DEF PInit, Init, Calls, Call, Searches, Inside
  <1>13. Apart
    BY <1>1 DEF Apart, PInit, Held
  <1>14. PoolLists
    <2>1. \A m \in Masters : Of(m) = {}
      BY PageFacts DEF Of, PInit
    <2>2. Cardinality({}) = 0
      BY FS_EmptySet
    <2> QED
      BY <2>1, <2>2, ChainEmpty DEF PoolLists, PoolList, PInit
  <1>15. ChunkLists
    BY DEF PInit, ChunkLists, ChunkList
  <1> QED
    BY <1>10, <1>11, <1>12, <1>13, <1>14, <1>15 DEF PoolInv

-----------------------------------------------------------------------------
(* A step of thread t leaves what the other threads have alone.            *)
OthersSame(t) ==
  \A u \in Threads \ {t} :
    /\ pc'[u] = pc[u] /\ ret'[u] = ret[u] /\ page'[u] = page[u] /\ own'[u] = own[u]
    /\ mp'[u] = mp[u] /\ pool'[u] = pool[u] /\ lp'[u] = lp[u] /\ chunks'[u] = chunks[u]

(* A thread's step leaves what the other threads have.                     *)
LEMMA OthersHeld ==
  ASSUME NEW t \in Threads, OthersSame(t)
  PROVE  \A u \in Threads \ {t} : Held(u)' = Held(u) /\ Handled(u)' = Handled(u)
  BY DEF OthersSame, Held, Handled

(* The ways in which a page changes hands: none does, ...                  *)
LEMMA NonePasses ==
  ASSUME Apart, NEW t \in Threads, OthersSame(t), UNCHANGED master,
         Handled(t)' \cap own'[t] = {}, Held(t)' = Held(t)
  PROVE  Apart' /\ Free' = Free
  <1>1. \A u \in Threads : Held(u)' = Held(u)
    BY OthersHeld
  <1>2. \A u \in Threads : Handled(u)' \cap own'[u] = {}
    BY OthersHeld DEF OthersSame, Apart
  <1>3. Free' = Free
    BY <1>1 DEF Free
  <1> QED
    BY <1>1, <1>2, <1>3 DEF Apart

(* ... a thread takes a free one, ...                                      *)
LEMMA FreePasses ==
  ASSUME Apart, NEW t \in Threads, OthersSame(t), UNCHANGED master,
         Handled(t)' \cap own'[t] = {}, NEW p \in Free, Held(t)' = Held(t) \cup {p}
  PROVE  Apart' /\ Free' = Free \ {p}
  <1>1. \A u \in Threads \ {t} : Held(u)' = Held(u)
    BY OthersHeld
  <1>2. \A u \in Threads : Handled(u)' \cap own'[u] = {}
    BY OthersHeld DEF OthersSame, Apart
  <1>3. /\ p \in PageNums /\ p \notin Reserved /\ p # First /\ master[p] = None
        /\ \A u \in Threads : p \notin Held(u)
    BY DEF Free
  <1>4. Free' = Free \ {p}
    BY <1>1, <1>3 DEF Free
  <1>5. \A u, v \in Threads : u # v => Held(u)' \cap Held(v)' = {}
    BY <1>1, <1>3 DEF Apart
  <1>6. \A u \in Threads : \A r \in Held(u)' :
          r \notin Reserved /\ r # First /\ master'[r] = None
    BY <1>1, <1>3 DEF Apart
  <1> QED
    BY <1>2, <1>4, <1>5, <1>6 DEF Apart

(* ... or makes one free, ...                                              *)
LEMMA HeldPasses ==
  ASSUME Shapes, Apart, NEW t \in Threads, OthersSame(t), UNCHANGED master,
         Handled(t)' \cap own'[t] = {}, NEW p \in Held(t), Held(t)' = Held(t) \ {p}
  PROVE  Apart' /\ Free' = Free \cup {p} /\ p \notin Free
  <1>1. \A u \in Threads \ {t} : Held(u)' = Held(u)
    BY OthersHeld
  <1>2. \A u \in Threads : Handled(u)' \cap own'[u] = {}
    BY OthersHeld DEF OthersSame, Apart
  <1>3. /\ p \in PageNums /\ p \notin Reserved /\ p # First /\ master[p] = None
        /\ \A u \in Threads \ {t} : p \notin Held(u)
    BY DEF Apart, Shapes, Held, Handled
  <1>4. Free' = Free \cup {p}
    BY <1>1, <1>3 DEF Free
  <1>5. \A u, v \in Threads : u # v => Held(u)' \cap Held(v)' = {}
    BY <1>1 DEF Apart
  <1>6. \A u \in Threads : \A r \in Held(u)' :
          r \notin Reserved /\ r # First /\ master'[r] = None
    BY <1>1 DEF Apart
  <1>7. p \notin Free
    BY DEF Free
  <1> QED
    BY <1>2, <1>4, <1>5, <1>6, <1>7 DEF Apart

(* ... or a pool, ...                                                      *)
LEMMA PoolIsMade ==
  ASSUME Shapes, Apart, NEW t \in Threads, OthersSame(t), NEW p \in Held(t), NEW m \in Masters,
         master' = [master EXCEPT ![p] = m],
         Handled(t)' \cap own'[t] = {}, Held(t)' = Held(t) \ {p}
  PROVE  Apart' /\ Free' = Free /\ p \in Frames /\ master[p] = None
  <1>1. \A u \in Threads \ {t} : Held(u)' = Held(u)
    BY OthersHeld
  <1>2. \A u \in Threads : Handled(u)' \cap own'[u] = {}
    BY OthersHeld DEF OthersSame, Apart
  <1>3. /\ p \in PageNums /\ p \notin Reserved /\ p # First /\ master[p] = None
        /\ \A u \in Threads \ {t} : p \notin Held(u)
    BY DEF Apart, Shapes, Held, Handled
  <1>4. m # None /\ master \in [PageNums -> Masters \cup {None}]
    BY PageFacts DEF Shapes
  <1>5. /\ master'[p] = m
        /\ \A r \in PageNums \ {p} : master'[r] = master[r]
    BY <1>3, <1>4
  <1>6. Free' = Free
    BY <1>1, <1>3, <1>4, <1>5 DEF Free
  <1>7. \A u, v \in Threads : u # v => Held(u)' \cap Held(v)' = {}
    BY <1>1 DEF Apart
  <1>8. \A u \in Threads : Held(u) \subseteq PageNums
    BY DEF Shapes, Held, Handled
  <1>9. \A u \in Threads : \A r \in Held(u)' :
          r \notin Reserved /\ r # First /\ master'[r] = None
    BY <1>1, <1>3, <1>5, <1>8 DEF Apart
  <1>10. \A r \in PageNums : master'[r] # None => r \notin Reserved /\ r # First
    BY <1>3, <1>5 DEF Apart
  <1>11. p \in Frames
    BY <1>3, PageFacts
  <1> QED
    BY <1>2, <1>3, <1>6, <1>7, <1>9, <1>10, <1>11 DEF Apart

(* ... or takes a pool that is given up.                                   *)
LEMMA PoolIsGivenUp ==
  ASSUME Shapes, Apart, NEW t \in Threads, OthersSame(t), NEW p \in PageNums,
         master[p] # None, master' = [master EXCEPT ![p] = None],
         Handled(t)' \cap own'[t] = {}, Held(t)' = Held(t) \cup {p}
  PROVE  Apart' /\ Free' = Free
  <1>1. \A u \in Threads \ {t} : Held(u)' = Held(u)
    BY OthersHeld
  <1>2. \A u \in Threads : Handled(u)' \cap own'[u] = {}
    BY OthersHeld DEF OthersSame, Apart
  <1>3. /\ p \notin Reserved /\ p # First
        /\ \A u \in Threads : p \notin Held(u)
    BY DEF Apart
  <1>4. master \in [PageNums -> Masters \cup {None}]
    BY DEF Shapes
  <1>5. /\ master'[p] = None
        /\ \A r \in PageNums \ {p} : master'[r] = master[r]
    BY <1>4
  <1>6. Free' = Free
    BY <1>1, <1>3, <1>5 DEF Free
  <1>7. \A u, v \in Threads : u # v => Held(u)' \cap Held(v)' = {}
    BY <1>1, <1>3 DEF Apart
  <1>8. \A u \in Threads : Held(u) \subseteq PageNums
    BY DEF Shapes, Held, Handled
  <1>9. \A u \in Threads : \A r \in Held(u)' :
          r \notin Reserved /\ r # First /\ master'[r] = None
    BY <1>1, <1>3, <1>5, <1>8 DEF Apart
  <1>10. \A r \in PageNums : master'[r] # None => r \notin Reserved /\ r # First
    BY <1>5 DEF Apart
  <1> QED
    BY <1>2, <1>6, <1>7, <1>9, <1>10 DEF Apart

(* A step of alloc_page(), free_page() or their callers leaves the pools   *)
(* alone.                                                                  *)
LEMMA PageStepsKeepPools ==
  ASSUME PoolInv, NEW t \in Threads, OthersSame(t), UNCHANGED <<masters, descs, plocal>>,
         pc[t] \notin {"take", "search"}, pc'[t] \notin {"take", "search"}
  PROVE  PoolLists' /\ ChunkLists' /\ Searches'
  <1>0. /\ pools' = pools /\ hint' = hint /\ mcount' = mcount /\ s_lock' = s_lock
        /\ master' = master /\ refcnt' = refcnt /\ nfree' = nfree /\ pfree' = pfree
        /\ plink' = plink /\ cnext' = cnext
        /\ mp' = mp /\ pool' = pool /\ lp' = lp /\ chunks' = chunks
    BY DEF masters, descs, plocal
  <1>1. \A u \in Threads : /\ pc'[u] = "take" <=> pc[u] = "take"
                           /\ pc'[u] = "search" <=> pc[u] = "search"
    BY DEF OthersSame
  <1>2. PoolLists'
    <2>1. \A m : Of(m)' = Of(m)
      BY <1>0 DEF Of
    <2> QED
      BY <1>0, <2>1 DEF PoolInv, PoolLists, PoolList
  <1>3. \A p : /\ Leaving(p)' <=> Leaving(p)
               /\ Fresh(p)' <=> Fresh(p)
               /\ InUse(p)' = InUse(p)
    BY <1>0, <1>1 DEF Leaving, Fresh, InUse
  <1>4. \A p : Left(p)' = Left(p)
    BY <1>0, <1>3 DEF Left, Numbers
  <1>5. ChunkLists'
    BY <1>0, <1>3, <1>4 DEF PoolInv, ChunkLists, ChunkList
  <1>6. Searches'
    BY <1>0, <1>1, <1>3 DEF PoolInv, Searches
  <1> QED
    BY <1>2, <1>5, <1>6

(* A step of alloc_pool() or free_pool() leaves the page list alone.       *)
LEMMA PoolStepsKeepPages ==
  ASSUME PageList, NEW t \in Threads, OthersSame(t), UNCHANGED <<list, own>>,
         Free' = Free, pc'[t] # "got"
  PROVE  PageList'
  BY DEF PageList, list, OthersSame

(* A step of thread t that respects the locks does not disturb the calls   *)
(* of others.                                                              *)
LEMMA OthersCalls ==
  ASSUME Calls, NEW t \in Threads, OthersSame(t), freeq \in {None, t} \/ freeq' = freeq,
         freeq = t \/ free_pages' = free_pages,
         \A u \in Threads \ {t} : pc[u] = "push" => next'[page[u]] = next[page[u]],
         \A m \in Masters : s_lock'[m] = s_lock[m] \/ s_lock[m] \in {None, t}
  PROVE  \A u \in Threads \ {t} : Call(u)'
  <1> SUFFICES ASSUME NEW u \in Threads \ {t} PROVE Call(u)'
    OBVIOUS
  <1>1. Call(u) /\ u # None
    BY PageFacts DEF Calls
  <1>2. pc'[u] = pc[u] /\ ret'[u] = ret[u] /\ page'[u] = page[u] /\ mp'[u] = mp[u]
    BY DEF OthersSame
  <1>3. Inside(u)' <=> Inside(u)
    BY <1>2 DEF Inside
  <1> QED
    BY <1>1, <1>2, <1>3 DEF Call

(* The steps of alloc_page() and free_page().                              *)
LEMMA StepAllocPage ==
  ASSUME PoolInv, NEW t \in Threads, AllocPage(t), UNCHANGED <<masters, descs, plocal>>
  PROVE  PoolInv'
  <1>0. /\ pc[t] = "alloc" /\ freeq = None /\ freeq' = t
        /\ page' = [page EXCEPT ![t] = free_pages] /\ pc' = [pc EXCEPT ![t] = "pop"]
        /\ UNCHANGED <<list, ret, own>>
        /\ page \in [Threads -> PageNums \cup {Nil}] /\ pc \in [Threads -> Labels]
        /\ free_pages \in PageNums \cup {Nil}
    BY DEF AllocPage, PoolInv, Shapes
  <1>1. /\ OthersSame(t) /\ pc'[t] = "pop" /\ page'[t] = free_pages
        /\ ret'[t] = ret[t] /\ own'[t] = own[t] /\ mp'[t] = mp[t] /\ s_lock' = s_lock
    BY <1>0 DEF OthersSame, plocal, masters
  <1>2. Held(t)' = Held(t) /\ Handled(t)' = {}
    BY <1>0, <1>1 DEF Held, Handled
  <1>3. Apart' /\ Free' = Free
    BY <1>1, <1>2, NonePasses DEF PoolInv, descs
  <1>4. PageList'
    BY <1>0, <1>1, <1>3, PoolStepsKeepPages DEF PoolInv
  <1>5. Calls'
    <2>1. \A u \in Threads \ {t} : Call(u)'
      BY <1>0, <1>1, OthersCalls DEF PoolInv, list
    <2>2. Call(t)'
      BY <1>0, <1>1 DEF PoolInv, Calls, Call, Inside, list
    <2> QED
      BY <2>1, <2>2 DEF Calls
  <1>6. Shapes'
    <2>1. pc' \in [Threads -> Labels] /\ page' \in [Threads -> PageNums \cup {Nil}]
      BY <1>0 DEF Labels
    <2> QED
      BY <1>0, <2>1 DEF PoolInv, Shapes, list, masters, descs, plocal
  <1>7. PoolLists' /\ ChunkLists' /\ Searches'
    BY <1>0, <1>1, PageStepsKeepPools
  <1> QED
    BY <1>3, <1>4, <1>5, <1>6, <1>7 DEF PoolInv

(* alloc_page(): a page leaves the free list.                              *)
LEMMA StepPopPage ==
  ASSUME PoolInv, NEW t \in Threads, PopPage(t), UNCHANGED <<masters, descs, plocal>>
  PROVE  PoolInv'
  <1>0. /\ pc[t] = "pop" /\ freeq' = None /\ UNCHANGED <<ret, own>>
        /\ page \in [Threads -> PageNums \cup {Nil}] /\ pc \in [Threads -> Labels]
        /\ ret \in [Threads -> Labels] /\ next \in [PageNums -> PageNums \cup {Nil}]
        /\ free_pages \in PageNums \cup {Nil}
        /\ freeq = t /\ page[t] = free_pages /\ ret[t] \in {"got", "newpool"}
    BY DEF PopPage, PoolInv, Shapes, Calls, Call
  <1>f. IsChain(free_pages, next, Nil, Frames, Free)
    BY DEF PoolInv, PageList
  <1>1. CASE page[t] # Nil /\ flags[page[t]] = "FREE"
    <2> DEFINE p == page[t]
    <2>1. /\ p # Nil /\ free_pages' = next[p] /\ free_count' = free_count - 1
          /\ pc' = [pc EXCEPT ![t] = "mark"] /\ UNCHANGED <<flags, next, page>>
      BY <1>0, <1>1 DEF PopPage
    <2>2. /\ OthersSame(t) /\ pc'[t] = "mark" /\ page'[t] = p
          /\ ret'[t] = ret[t] /\ own'[t] = own[t] /\ mp'[t] = mp[t] /\ s_lock' = s_lock
      BY <1>0, <2>1 DEF OthersSame, plocal, masters
    <2>3. p \in Free /\ IsChain(next[p], next, Nil, Frames, Free \ {p})
      BY <1>0, <1>f, <2>1, ChainPop
    <2>4. Held(t)' = Held(t) \cup {p} /\ Handled(t)' = {p}
      BY <1>0, <2>2, <2>1 DEF Held, Handled
    <2>5. Handled(t)' \cap own'[t] = {}
      BY <2>2, <2>3, <2>4 DEF Free, Held
    <2>6. Apart' /\ Free' = Free \ {p}
      BY <2>2, <2>3, <2>4, <2>5, FreePasses DEF PoolInv, descs
    <2>7. PageList'
      <3>1. free_count' = Cardinality(Free')
        BY <1>f, <2>1, <2>3, <2>6, ChainFacts, FS_RemoveElement DEF PoolInv, PageList
      <3>2. \A u \in Threads : pc'[u] = "got" => pc[u] = "got"
        BY <2>2 DEF OthersSame
      <3> QED
        BY <1>0, <2>1, <2>2, <2>3, <2>6, <3>1, <3>2 DEF PoolInv, PageList
    <2>8. Calls'
      <3>1. \A u \in Threads \ {t} : Call(u)'
        BY <1>0, <2>1, <2>2, OthersCalls DEF PoolInv
      <3>2. Call(t)'
        BY <1>0, <2>1, <2>2 DEF PoolInv, Calls, Call, Inside
      <3> QED
        BY <3>1, <3>2 DEF Calls
    <2>9. Shapes'
      <3>1. pc' \in [Threads -> Labels] /\ free_pages' \in PageNums \cup {Nil}
        BY <1>0, <2>1 DEF Labels
      <3> QED
        BY <1>0, <2>1, <3>1 DEF PoolInv, Shapes, masters, descs, plocal
    <2>10. PoolLists' /\ ChunkLists' /\ Searches'
      BY <1>0, <2>2, PageStepsKeepPools
    <2> QED
      BY <2>6, <2>7, <2>8, <2>9, <2>10 DEF PoolInv
  <1>2. CASE ~(page[t] # Nil /\ flags[page[t]] = "FREE")
    <2>1. /\ page' = [page EXCEPT ![t] = Nil] /\ pc' = [pc EXCEPT ![t] = ret[t]]
          /\ UNCHANGED list
      BY <1>2 DEF PopPage
    <2>2. /\ OthersSame(t) /\ pc'[t] = ret[t] /\ page'[t] = Nil
          /\ ret'[t] = ret[t] /\ own'[t] = own[t] /\ mp'[t] = mp[t] /\ s_lock' = s_lock
      BY <1>0, <2>1 DEF OthersSame, plocal, masters
    <2>3. Held(t)' = Held(t) /\ Handled(t)' = {}
      BY <1>0, <2>2 DEF Held, Handled
    <2>4. Apart' /\ Free' = Free
      BY <2>2, <2>3, NonePasses DEF PoolInv, descs
    <2>5. PageList'
      <3>1. \A u \in Threads : pc'[u] = "got" /\ page'[u] # Nil
                                 => pc[u] = "got" /\ page'[u] = page[u]
        BY <2>2 DEF OthersSame
      <3> QED
        BY <1>0, <2>1, <2>4, <3>1 DEF PoolInv, PageList, list
    <2>6. Calls'
      <3>1. \A u \in Threads \ {t} : Call(u)'
        BY <1>0, <2>1, <2>2, OthersCalls DEF PoolInv, list
      <3>2. Call(t)'
        BY <1>0, <2>1, <2>2 DEF PoolInv, Calls, Call, Inside
      <3> QED
        BY <3>1, <3>2 DEF Calls
    <2>7. Shapes'
      <3>1. pc' \in [Threads -> Labels] /\ page' \in [Threads -> PageNums \cup {Nil}]
        BY <1>0, <2>1 DEF Labels
      <3> QED
        BY <1>0, <2>1, <3>1 DEF PoolInv, Shapes, list, masters, descs, plocal
    <2>8. PoolLists' /\ ChunkLists' /\ Searches'
      BY <1>0, <2>2, PageStepsKeepPools
    <2> QED
      BY <2>4, <2>5, <2>6, <2>7, <2>8 DEF PoolInv
  <1> QED
    BY <1>1, <1>2

(* alloc_page(): the page is marked used, after freeq_lock was given back. *)
LEMMA StepMarkPage ==
  ASSUME PoolInv, NEW t \in Threads, MarkPage(t), UNCHANGED <<masters, descs, plocal>>
  PROVE  PoolInv'
  <1> DEFINE p == page[t]
  <1>0. /\ pc[t] = "mark" /\ next' = [next EXCEPT ![p] = Nil]
        /\ flags' = [flags EXCEPT ![p] = "USED"] /\ pc' = [pc EXCEPT ![t] = ret[t]]
        /\ UNCHANGED <<free_pages, free_count, freeq, ret, page, own>>
        /\ page \in [Threads -> PageNums \cup {Nil}] /\ pc \in [Threads -> Labels]
        /\ ret \in [Threads -> Labels] /\ next \in [PageNums -> PageNums \cup {Nil}]
        /\ flags \in [PageNums -> {"FREE", "USED", "RESERVED"}]
        /\ own \in [Threads -> SUBSET PageNums]
        /\ p \in PageNums /\ p # Nil /\ ret[t] \in {"got", "newpool"}
    BY DEF MarkPage, PoolInv, Shapes, Calls, Call
  <1>1. /\ OthersSame(t) /\ pc'[t] = ret[t] /\ page'[t] = p
        /\ ret'[t] = ret[t] /\ own'[t] = own[t] /\ mp'[t] = mp[t] /\ s_lock' = s_lock
    BY <1>0 DEF OthersSame, plocal, masters
  <1>2. /\ Held(t)' = Held(t) /\ Handled(t)' = {p} /\ Handled(t) = {p}
    BY <1>0, <1>1 DEF Held, Handled
  <1>3. Apart' /\ Free' = Free
    <2>1. Handled(t)' \cap own'[t] = {}
      BY <1>1, <1>2 DEF PoolInv, Apart
    <2> QED
      BY <1>1, <1>2, <2>1, NonePasses DEF PoolInv, descs
  <1>4. /\ p \notin Free /\ Free \subseteq PageNums
        /\ \A u \in Threads \ {t} : pc[u] = "push" => page[u] # p /\ page[u] \in PageNums
    <2>1. p \in Held(t)
      BY <1>2 DEF Held
    <2>2. \A u \in Threads \ {t} : pc[u] = "push" => page[u] \in Held(u) /\ page[u] \in PageNums
      BY DEF Held, Handled, PoolInv, Calls, Call, Shapes
    <2> QED
      BY <2>1, <2>2 DEF Free, PoolInv, Apart
  <1>5. PageList'
    <2>1. \A q \in Free : next'[q] = next[q] /\ flags'[q] = flags[q]
      BY <1>0, <1>4
    <2>2. IsChain(free_pages, next', Nil, Frames, Free)
      BY <2>1, ChainSame DEF PoolInv, PageList
    <2>3. \A u \in Threads : \A q \in own'[u] : flags'[q] = "USED"
      BY <1>0 DEF PoolInv, PageList
    <2>4. \A u \in Threads : pc'[u] = "got" /\ page'[u] # Nil => flags'[page'[u]] = "USED"
      BY <1>0, <1>1 DEF PoolInv, PageList, OthersSame
    <2> QED
      BY <1>0, <1>3, <2>1, <2>2, <2>3, <2>4 DEF PoolInv, PageList
  <1>6. Calls'
    <2>1. \A u \in Threads \ {t} : Call(u)'
      BY <1>0, <1>1, <1>4, OthersCalls DEF PoolInv
    <2>2. Call(t)'
      BY <1>0, <1>1 DEF PoolInv, Calls, Call, Inside
    <2> QED
      BY <2>1, <2>2 DEF Calls
  <1>7. Shapes'
    <2>1. /\ pc' \in [Threads -> Labels] /\ next' \in [PageNums -> PageNums \cup {Nil}]
          /\ flags' \in [PageNums -> {"FREE", "USED", "RESERVED"}]
      BY <1>0 DEF Labels
    <2> QED
      BY <1>0, <2>1 DEF PoolInv, Shapes, masters, descs, plocal
  <1>8. PoolLists' /\ ChunkLists' /\ Searches'
    BY <1>0, <1>1, PageStepsKeepPools
  <1> QED
    BY <1>3, <1>5, <1>6, <1>7, <1>8 DEF PoolInv

(* free_page(): freeq_lock is taken and the page linked before the head,   *)
(* or its number is turned down.                                           *)
LEMMA StepFreePage ==
  ASSUME PoolInv, NEW t \in Threads, FreePage(t), UNCHANGED <<masters, descs, plocal>>
  PROVE  PoolInv'
  <1> DEFINE p == page[t]
  <1>a. /\ pc[t] = "free" /\ UNCHANGED <<flags, free_pages, free_count, ret, page, own>>
        /\ page \in [Threads -> PageNums \cup {Nil}] /\ pc \in [Threads -> Labels]
        /\ next \in [PageNums -> PageNums \cup {Nil}] /\ free_pages \in PageNums \cup {Nil}
        /\ p \in PageNums /\ p # Nil /\ ret[t] \in {"freed", "unlock"}
    BY DEF FreePage, PoolInv, Shapes, Calls, Call
  <1>b. Handled(t) = {p} /\ p \in Held(t)
    BY <1>a DEF Held, Handled
  <1>c. p > NPG_RESERVED /\ p < MaxPages
    BY <1>a, <1>b, PageFacts DEF PoolInv, Apart
  <1>0. /\ freeq = None /\ freeq' = t /\ next' = [next EXCEPT ![p] = free_pages]
        /\ pc' = [pc EXCEPT ![t] = "push"]
    BY <1>c DEF FreePage
  <1>1. /\ OthersSame(t) /\ pc'[t] = "push" /\ page'[t] = p
        /\ ret'[t] = ret[t] /\ own'[t] = own[t] /\ mp'[t] = mp[t] /\ s_lock' = s_lock
    BY <1>a, <1>0 DEF OthersSame, plocal, masters
  <1>2. Held(t)' = Held(t) /\ Handled(t)' = {p}
    BY <1>a, <1>1 DEF Held, Handled
  <1>3. Apart' /\ Free' = Free
    <2>1. Handled(t)' \cap own'[t] = {}
      BY <1>1, <1>2, <1>b DEF PoolInv, Apart
    <2> QED
      BY <1>1, <1>2, <2>1, NonePasses DEF PoolInv, descs
  <1>4. /\ p \notin Free /\ Free \subseteq PageNums
        /\ \A u \in Threads \ {t} : pc[u] # "push"
    BY <1>b, <1>0, PageFacts DEF Free, PoolInv, Calls, Call
  <1>5. PageList'
    <2>1. \A q \in Free : next'[q] = next[q]
      BY <1>a, <1>0, <1>4
    <2>2. IsChain(free_pages, next', Nil, Frames, Free)
      BY <2>1, ChainSame DEF PoolInv, PageList
    <2>3. \A u \in Threads : pc'[u] = "got" => pc[u] = "got"
      BY <1>1 DEF OthersSame
    <2> QED
      BY <1>a, <1>3, <2>2, <2>3 DEF PoolInv, PageList
  <1>6. Calls'
    <2>1. \A u \in Threads \ {t} : Call(u)'
      BY <1>a, <1>0, <1>1, <1>4, OthersCalls DEF PoolInv
    <2>2. Call(t)'
      BY <1>a, <1>0, <1>1 DEF PoolInv, Calls, Call, Inside
    <2> QED
      BY <2>1, <2>2 DEF Calls
  <1>7. Shapes'
    <2>1. /\ pc' \in [Threads -> Labels] /\ next' \in [PageNums -> PageNums \cup {Nil}]
      BY <1>a, <1>0 DEF Labels
    <2> QED
      BY <1>a, <1>0, <2>1 DEF PoolInv, Shapes, masters, descs, plocal
  <1>8. PoolLists' /\ ChunkLists' /\ Searches'
    BY <1>a, <1>1, PageStepsKeepPools
  <1> QED
    BY <1>3, <1>5, <1>6, <1>7, <1>8 DEF PoolInv

(* free_page(): the page becomes the head, and is marked free.             *)
LEMMA StepPushPage ==
  ASSUME PoolInv, NEW t \in Threads, PushPage(t), UNCHANGED <<masters, descs, plocal>>
  PROVE  PoolInv'
  <1> DEFINE p == page[t]
  <1>0. /\ pc[t] = "push" /\ free_pages' = p /\ flags' = [flags EXCEPT ![p] = "FREE"]
        /\ free_count' = free_count + 1 /\ freeq' = None /\ pc' = [pc EXCEPT ![t] = ret[t]]
        /\ UNCHANGED <<next, ret, page, own>>
        /\ page \in [Threads -> PageNums \cup {Nil}] /\ pc \in [Threads -> Labels]
        /\ ret \in [Threads -> Labels]
        /\ flags \in [PageNums -> {"FREE", "USED", "RESERVED"}]
        /\ own \in [Threads -> SUBSET PageNums]
        /\ p \in PageNums /\ p # Nil /\ ret[t] \in {"freed", "unlock"}
        /\ freeq = t /\ next[p] = free_pages
    BY DEF PushPage, PoolInv, Shapes, Calls, Call
  <1>1. /\ OthersSame(t) /\ pc'[t] = ret[t] /\ page'[t] = p
        /\ ret'[t] = ret[t] /\ own'[t] = own[t] /\ mp'[t] = mp[t] /\ s_lock' = s_lock
    BY <1>0 DEF OthersSame, plocal, masters
  <1>2. /\ Handled(t) = {p} /\ p \in Held(t) /\ Handled(t)' = {}
        /\ Held(t)' = Held(t) \ {p} /\ p \notin own[t]
    <2>1. Handled(t) = {p} /\ Handled(t)' = {}
      BY <1>0, <1>1 DEF Handled
    <2>2. p \notin own[t]
      BY <2>1 DEF PoolInv, Apart
    <2> QED
      BY <1>1, <2>1, <2>2 DEF Held
  <1>3. Apart' /\ Free' = Free \cup {p} /\ p \notin Free
    BY <1>1, <1>2, HeldPasses DEF PoolInv, descs
  <1>4. /\ p \in Frames
        /\ \A u \in Threads \ {t} : p \notin Held(u)
    BY <1>0, <1>2, PageFacts DEF PoolInv, Apart
  <1>5. PageList'
    <2>1. IsChain(p, next, Nil, Frames, Free \cup {p})
      BY <1>0, <1>3, <1>4, ChainPush DEF PoolInv, PageList
    <2>2. IsFiniteSet(Free)
      BY ChainFacts DEF PoolInv, PageList
    <2>3. free_count' = Cardinality(Free')
      BY <1>0, <1>3, <2>2, FS_AddElement DEF PoolInv, PageList
    <2>4. \A q \in Free' : flags'[q] = "FREE"
      <3>1. Free \subseteq PageNums
        BY DEF Free
      <3> QED
        BY <1>0, <1>3, <3>1 DEF PoolInv, PageList
    <2>5. \A u \in Threads : \A q \in own'[u] : flags'[q] = "USED"
      <3> SUFFICES ASSUME NEW u \in Threads, NEW q \in own[u] PROVE flags'[q] = "USED"
        BY <1>0
      <3>1. q # p /\ q \in PageNums
        BY <1>0, <1>2, <1>4 DEF Held
      <3> QED
        BY <1>0, <3>1 DEF PoolInv, PageList
    <2>6. \A u \in Threads : pc'[u] = "got" /\ page'[u] # Nil => flags'[page'[u]] = "USED"
      <3> SUFFICES ASSUME NEW u \in Threads, pc'[u] = "got", page'[u] # Nil
                   PROVE  flags'[page'[u]] = "USED"
        OBVIOUS
      <3>1. u # t /\ pc[u] = "got" /\ page'[u] = page[u]
        BY <1>0, <1>1 DEF OthersSame
      <3>2. page[u] \in Held(u) /\ page[u] \in PageNums
        BY <1>0, <3>1 DEF Held, Handled
      <3> QED
        BY <1>0, <1>4, <3>1, <3>2 DEF PoolInv, PageList
    <2> QED
      BY <1>0, <1>3, <2>1, <2>3, <2>4, <2>5, <2>6 DEF PageList
  <1>6. Calls'
    <2>1. \A u \in Threads \ {t} : Call(u)'
      BY <1>0, <1>1, OthersCalls DEF PoolInv
    <2>2. Call(t)'
      BY <1>0, <1>1 DEF PoolInv, Calls, Call, Inside
    <2> QED
      BY <2>1, <2>2 DEF Calls
  <1>7. Shapes'
    <2>1. /\ pc' \in [Threads -> Labels] /\ flags' \in [PageNums -> {"FREE", "USED", "RESERVED"}]
      BY <1>0 DEF Labels
    <2> QED
      BY <1>0, <2>1 DEF PoolInv, Shapes, masters, descs, plocal
  <1>8. PoolLists' /\ ChunkLists' /\ Searches'
    BY <1>0, <1>1, PageStepsKeepPools
  <1> QED
    BY <1>3, <1>5, <1>6, <1>7, <1>8 DEF PoolInv

(* The callers of alloc_page() and free_page().                            *)
LEMMA StepUse ==
  ASSUME PoolInv, NEW t \in Threads, Use(t), UNCHANGED <<masters, descs, plocal>>
  PROVE  PoolInv'
  <1>t. /\ page \in [Threads -> PageNums \cup {Nil}] /\ pc \in [Threads -> Labels]
        /\ ret \in [Threads -> Labels] /\ own \in [Threads -> SUBSET PageNums]
        /\ mp' = mp /\ s_lock' = s_lock /\ pool' = pool /\ lp' = lp /\ chunks' = chunks
        /\ master' = master
    BY DEF PoolInv, Shapes, masters, descs, plocal
  <1>k. ASSUME UNCHANGED list, UNCHANGED freeq, OthersSame(t), Call(t)', Apart', Free' = Free,
               \A q \in own'[t] : q \in own[t] \/ (pc[t] = "got" /\ page[t] # Nil /\ q = page[t]),
               pc'[t] \notin {"got", "take", "search"}, pc[t] \notin {"take", "search"},
               {pc', ret'} \subseteq [Threads -> Labels],
               page' \in [Threads -> PageNums \cup {Nil}],
               own' \in [Threads -> SUBSET PageNums]
        PROVE  PoolInv'
    <2>1. flags' = flags /\ next' = next /\ free_pages' = free_pages /\ free_count' = free_count
      BY <1>k DEF list
    <2>2. PageList'
      <3>1. \A u \in Threads : \A q \in own'[u] : flags'[q] = "USED"
        BY <1>k, <2>1 DEF PoolInv, PageList, OthersSame
      <3>2. \A u \in Threads : pc'[u] = "got" => pc[u] = "got" /\ page'[u] = page[u]
        BY <1>k DEF OthersSame
      <3> QED
        BY <1>k, <2>1, <3>1, <3>2 DEF PoolInv, PageList
    <2>3. Calls'
      <3>1. \A u \in Threads \ {t} : Call(u)'
        BY <1>k, <1>t, <2>1, OthersCalls DEF PoolInv
      <3> QED
        BY <1>k, <3>1 DEF Calls
    <2>4. Shapes'
      BY <1>k, <2>1 DEF PoolInv, Shapes, masters, descs, plocal
    <2>5. PoolLists' /\ ChunkLists' /\ Searches'
      BY <1>k, PageStepsKeepPools
    <2> QED
      BY <1>k, <2>2, <2>3, <2>4, <2>5 DEF PoolInv
  <1>1. CASE CallAlloc(t)
    <2>1. /\ pc[t] = "idle" /\ pc' = [pc EXCEPT ![t] = "alloc"] /\ ret' = [ret EXCEPT ![t] = "got"]
          /\ UNCHANGED <<list, freeq, page, own>>
      BY <1>1 DEF CallAlloc
    <2>2. OthersSame(t) /\ pc'[t] = "alloc" /\ ret'[t] = "got"
      BY <1>t, <2>1 DEF OthersSame
    <2>3. Held(t)' = Held(t) /\ Handled(t)' = {}
      BY <2>1, <2>2 DEF Held, Handled
    <2>4. Apart' /\ Free' = Free
      BY <1>t, <2>2, <2>3, NonePasses DEF PoolInv
    <2>5. Call(t)'
      BY <2>2 DEF Call, Inside
    <2>6. {pc', ret'} \subseteq [Threads -> Labels]
      BY <1>t, <2>1 DEF Labels
    <2> QED
      BY <1>k, <1>t, <2>1, <2>2, <2>4, <2>5, <2>6
  <1>2. CASE GotPage(t)
    <2>1. /\ pc[t] = "got" /\ pc' = [pc EXCEPT ![t] = "idle"] /\ ret' = [ret EXCEPT ![t] = "idle"]
          /\ page' = [page EXCEPT ![t] = Nil]
          /\ own' = [own EXCEPT ![t] = IF page[t] = Nil THEN @ ELSE @ \cup {page[t]}]
          /\ UNCHANGED <<list, freeq>>
      BY <1>2 DEF GotPage, Return
    <2>2. /\ OthersSame(t) /\ pc'[t] = "idle" /\ ret'[t] = "idle"
          /\ own'[t] = own[t] \cup (IF page[t] = Nil THEN {} ELSE {page[t]})
      BY <1>t, <2>1 DEF OthersSame
    <2>3. Held(t)' = Held(t) /\ Handled(t)' = {}
      BY <2>1, <2>2 DEF Held, Handled
    <2>4. Apart' /\ Free' = Free
      BY <1>t, <2>2, <2>3, NonePasses DEF PoolInv
    <2>5. Call(t)'
      BY <2>2 DEF Call, Inside
    <2>6. /\ {pc', ret'} \subseteq [Threads -> Labels]
          /\ page' \in [Threads -> PageNums \cup {Nil}]
      BY <1>t, <2>1 DEF Labels
    <2>7. own' \in [Threads -> SUBSET PageNums]
      BY <1>t, <2>1
    <2> QED
      BY <1>k, <1>t, <2>1, <2>2, <2>4, <2>5, <2>6, <2>7
  <1>3. CASE CallFree(t)
    <2>1. PICK p \in own[t] :
            /\ page' = [page EXCEPT ![t] = p] /\ own' = [own EXCEPT ![t] = @ \ {p}]
      BY <1>3 DEF CallFree
    <2>2. /\ pc[t] = "idle" /\ pc' = [pc EXCEPT ![t] = "free"] /\ ret' = [ret EXCEPT ![t] = "freed"]
          /\ UNCHANGED <<list, freeq>>
      BY <1>3 DEF CallFree
    <2>3. /\ OthersSame(t) /\ pc'[t] = "free" /\ ret'[t] = "freed" /\ page'[t] = p
          /\ own'[t] = own[t] \ {p} /\ p \in PageNums /\ p # Nil
      BY <1>t, <2>1, <2>2, PageFacts DEF OthersSame
    <2>4. Held(t)' = Held(t) /\ Handled(t)' = {p}
      BY <2>1, <2>2, <2>3 DEF Held, Handled
    <2>5. Apart' /\ Free' = Free
      BY <1>t, <2>3, <2>4, NonePasses DEF PoolInv
    <2>6. Call(t)'
      BY <2>3 DEF Call, Inside
    <2>7. /\ {pc', ret'} \subseteq [Threads -> Labels]
          /\ page' \in [Threads -> PageNums \cup {Nil}]
          /\ own' \in [Threads -> SUBSET PageNums]
      BY <1>t, <2>1, <2>2, <2>3 DEF Labels
    <2> QED
      BY <1>k, <1>t, <2>2, <2>3, <2>5, <2>6, <2>7
  <1>4. CASE Freed(t)
    <2>1. /\ pc[t] = "freed" /\ pc' = [pc EXCEPT ![t] = "idle"] /\ ret' = [ret EXCEPT ![t] = "idle"]
          /\ page' = [page EXCEPT ![t] = Nil]
          /\ UNCHANGED <<list, freeq, own>>
      BY <1>4 DEF Freed, Return
    <2>2. /\ OthersSame(t) /\ pc'[t] = "idle" /\ ret'[t] = "idle"
      BY <1>t, <2>1 DEF OthersSame
    <2>3. Held(t)' = Held(t) /\ Handled(t)' = {}
      BY <2>1, <2>2 DEF Held, Handled
    <2>4. Apart' /\ Free' = Free
      BY <1>t, <2>2, <2>3, NonePasses DEF PoolInv
    <2>5. Call(t)'
      BY <2>2 DEF Call, Inside
    <2>6. /\ {pc', ret'} \subseteq [Threads -> Labels]
          /\ page' \in [Threads -> PageNums \cup {Nil}]
      BY <1>t, <2>1 DEF Labels
    <2> QED
      BY <1>k, <1>t, <2>1, <2>2, <2>4, <2>5, <2>6
  <1> QED
    BY <1>1, <1>2, <1>3, <1>4 DEF Use

-----------------------------------------------------------------------------
(* What the steps of alloc_pool() and free_pool() have in common: the page *)
(* list stays as it is, and the calls of other threads.                    *)
LEMMA PoolStepPages ==
  ASSUME PoolInv, NEW t \in Threads, OthersSame(t), UNCHANGED <<list, freeq, own>>,
         Apart', Free' = Free, pc'[t] # "got", Call(t)',
         \A m \in Masters : s_lock'[m] = s_lock[m] \/ s_lock[m] \in {None, t}
  PROVE  PageList' /\ Calls'
  <1>1. PageList'
    BY PoolStepsKeepPages DEF PoolInv
  <1>2. \A u \in Threads \ {t} : Call(u)'
    BY OthersCalls DEF PoolInv, list
  <1> QED
    BY <1>1, <1>2 DEF Calls

(* A thread inside has its master to itself.                               *)
LEMMA AloneInside ==
  ASSUME PoolInv, NEW t \in Threads, NEW u \in Threads, Inside(u)
  PROVE  /\ mp[u] \in Masters /\ s_lock[mp[u]] # None
         /\ Inside(t) /\ mp[t] = mp[u] => t = u
  BY PageFacts DEF PoolInv, Calls, Call

(* The pools of other masters are not looked at.                           *)
LEMMA OthersSearch ==
  ASSUME PoolInv, NEW t \in Threads, OthersSame(t), NEW m \in Masters,
         s_lock[m] = None \/ (Inside(t) /\ mp[t] = m),
         \A n \in Masters \ {m} : pools'[n] = pools[n] /\ hint'[n] = hint[n],
         \A p \in PageNums : master[p] \in Masters \ {m} =>
           /\ master'[p] = master[p] /\ pfree'[p] = pfree[p] /\ InUse(p)' \subseteq InUse(p)
  PROVE  \A u \in Threads \ {t} :
           /\ pc'[u] = "take" =>
                /\ pool'[u] \in PageNums /\ master'[pool'[u]] = mp'[u] /\ pfree'[pool'[u]] # 0
           /\ pc'[u] = "search" =>
                /\ pool'[u] \in PageNums /\ master'[pool'[u]] = mp'[u]
                /\ lp'[u] = pools'[mp'[u]] /\ lp'[u] # pool'[u] /\ hint'[mp'[u]] # pool'[u]
                /\ InUse(pool[u])' = {}
  <1> SUFFICES ASSUME NEW u \in Threads \ {t}
               PROVE  /\ pc'[u] = "take" =>
                           /\ pool'[u] \in PageNums /\ master'[pool'[u]] = mp'[u]
                           /\ pfree'[pool'[u]] # 0
                      /\ pc'[u] = "search" =>
                           /\ pool'[u] \in PageNums /\ master'[pool'[u]] = mp'[u]
                           /\ lp'[u] = pools'[mp'[u]] /\ lp'[u] # pool'[u]
                           /\ hint'[mp'[u]] # pool'[u]
                           /\ InUse(pool[u])' = {}
    OBVIOUS
  <1>1. pc'[u] = pc[u] /\ pool'[u] = pool[u] /\ mp'[u] = mp[u] /\ lp'[u] = lp[u]
    BY DEF OthersSame
  <1>2. pc[u] \in {"take", "search"} => Inside(u) /\ mp[u] \in Masters \ {m}
    BY AloneInside DEF Inside
  <1> QED
    BY <1>1, <1>2 DEF PoolInv, Searches, InUse

(* The lists of other masters are not disturbed.                           *)
LEMMA OtherLists ==
  ASSUME PoolInv, NEW m,
         \A n \in Masters \ {m} :
           /\ pools'[n] = pools[n] /\ hint'[n] = hint[n] /\ mcount'[n] = mcount[n]
           /\ \A p \in PageNums : master'[p] = n <=> master[p] = n
           /\ \A p \in Of(n) : plink'[p] = plink[p]
  PROVE  \A n \in Masters \ {m} : PoolList(n)' /\ Of(n)' = Of(n)
  <1> SUFFICES ASSUME NEW n \in Masters \ {m} PROVE PoolList(n)' /\ Of(n)' = Of(n)
    OBVIOUS
  <1>1. Of(n)' = Of(n)
    BY DEF Of
  <1>2. PoolList(n)
    BY DEF PoolInv, PoolLists
  <1>3. IsChain(pools[n], plink', Nil, Frames, Of(n))
    BY <1>2, ChainSame DEF PoolList
  <1> QED
    BY <1>1, <1>2, <1>3 DEF PoolList

(* Nor are the chunks of other pools.                                      *)
LEMMA OtherChunks ==
  ASSUME PoolInv, NEW t \in Threads, OthersSame(t), NEW p,
         pc[t] \in {"take", "search"} => pool[t] = p,
         pc'[t] \in {"take", "search"} => pool'[t] = p,
         \A r \in PageNums \ {p} :
           /\ master'[r] = master[r] /\ refcnt'[r] = refcnt[r] /\ nfree'[r] = nfree[r]
           /\ pfree'[r] = pfree[r] /\ cnext'[r] = cnext[r],
         \A c : c[1] # p => (c \in chunks'[t] <=> c \in chunks[t])
  PROVE  \A r \in PageNums \ {p} : ChunkList(r)' /\ InUse(r)' = InUse(r)
  <1> SUFFICES ASSUME NEW r \in PageNums \ {p} PROVE ChunkList(r)' /\ InUse(r)' = InUse(r)
    OBVIOUS
  <1>1. InUse(r)' = InUse(r)
    <2>1. \A c : c[1] = r =>
            ((\E u \in Threads : c \in chunks'[u]) <=> (\E u \in Threads : c \in chunks[u]))
      BY DEF OthersSame
    <2> QED
      BY <2>1 DEF InUse
  <1>2. (Leaving(r)' <=> Leaving(r)) /\ (Fresh(r)' <=> Fresh(r))
    BY DEF Leaving, Fresh, OthersSame
  <1>3. Left(r)' = Left(r)
    BY <1>1 DEF Left, Numbers
  <1>4. ChunkList(r)
    BY DEF PoolInv, ChunkLists
  <1> QED
    BY <1>1, <1>2, <1>3, <1>4 DEF ChunkList

(* alloc_pool() with the lock: it has found a pool, or goes for a page.    *)
LEMMA StepAllocPool ==
  ASSUME PoolInv, NEW t \in Threads, NEW m \in Masters, AllocPool(t, m)
  PROVE  PoolInv'
  <1>f. PICK found : found = IF HintGood(m) THEN hint[m] ELSE FirstWithFree(m)
    OBVIOUS
  <1>t. /\ pc \in [Threads -> Labels] /\ ret \in [Threads -> Labels]
        /\ mp \in [Threads -> Masters \cup {None}]
        /\ pool \in [Threads -> PageNums \cup {Nil}]
        /\ hint \in [Masters -> PageNums \cup {Nil}]
        /\ s_lock \in [Masters -> Threads \cup {None}]
    BY DEF PoolInv, Shapes
  <1>0. /\ pc[t] = "idle" /\ s_lock[m] = None
        /\ s_lock' = [s_lock EXCEPT ![m] = t] /\ mp' = [mp EXCEPT ![t] = m]
        /\ UNCHANGED <<list, freeq, page, own, pools, mcount, descs, lp, chunks>>
    BY DEF AllocPool
  <1>d. /\ master' = master /\ refcnt' = refcnt /\ nfree' = nfree /\ pfree' = pfree
        /\ plink' = plink /\ cnext' = cnext
    BY <1>0 DEF descs
  <1>1. /\ mp'[t] = m /\ s_lock'[m] = t
        /\ mp' \in [Threads -> Masters \cup {None}]
        /\ s_lock' \in [Masters -> Threads \cup {None}]
        /\ \A n \in Masters : s_lock'[n] = s_lock[n] \/ s_lock[n] \in {None, t}
    BY <1>t, <1>0
  <1>2. PoolSet(m) = Of(m) /\ Of(m) \subseteq PageNums
    BY PoolSetIs DEF PoolInv, PoolLists, PoolList, Of
  <1>3. found # Nil => found \in Of(m) /\ pfree[found] # 0
    <2>1. HintGood(m) => found \in Of(m) /\ pfree[found] # 0
      BY <1>f DEF HintGood, PoolInv, PoolLists, PoolList
    <2>2. ~HintGood(m) => found = FirstWithFree(m)
      BY <1>f
    <2> QED
      BY <1>2, <2>1, <2>2, SearchFinds
  <1>4. \/ /\ found # Nil
           /\ pool' = [pool EXCEPT ![t] = found] /\ hint' = [hint EXCEPT ![m] = found]
           /\ pc' = [pc EXCEPT ![t] = "take"] /\ ret' = ret
        \/ /\ pc' = [pc EXCEPT ![t] = "alloc"] /\ ret' = [ret EXCEPT ![t] = "newpool"]
           /\ pool' = pool /\ hint' = hint
    BY <1>f DEF AllocPool, Goto
  <1>5. /\ OthersSame(t) /\ pc'[t] \in {"take", "alloc"}
        /\ pc'[t] = "take" => found # Nil /\ pool'[t] = found
        /\ pc'[t] = "alloc" => ret'[t] = "newpool"
        /\ hint'[m] \in Of(m) \cup {Nil} /\ \A n \in Masters \ {m} : hint'[n] = hint[n]
    <2>1. OthersSame(t)
      BY <1>t, <1>0, <1>4 DEF OthersSame
    <2>2. hint[m] \in Of(m) \cup {Nil}
      BY DEF PoolInv, PoolLists, PoolList
    <2> QED
      BY <1>t, <1>3, <1>4, <2>1, <2>2
  <1>6. Held(t)' = Held(t) /\ Handled(t)' = {}
    BY <1>0, <1>5 DEF Held, Handled
  <1>7. Apart' /\ Free' = Free
    BY <1>d, <1>5, <1>6, NonePasses DEF PoolInv
  <1>8. PageList' /\ Calls'
    <2>1. Call(t)'
      BY <1>1, <1>5 DEF Call, Inside
    <2> QED
      BY <1>0, <1>1, <1>5, <1>7, <2>1, PoolStepPages
  <1>9. PoolLists'
    <2>1. \A n \in Masters \ {m} : PoolList(n)'
      BY <1>0, <1>d, <1>5, OtherLists
    <2>2. PoolList(m)'
      BY <1>0, <1>d, <1>5 DEF PoolInv, PoolLists, PoolList, Of
    <2> QED
      BY <2>1, <2>2 DEF PoolLists
  <1>10. ChunkLists'
    <2>1. \A r \in PageNums \ {found} : ChunkList(r)'
      <3>1. pc'[t] \in {"take", "search"} => pool'[t] = found
        BY <1>5
      <3> QED
        BY <1>0, <1>d, <1>5, <3>1, OtherChunks
    <2>2. ASSUME found \in PageNums PROVE ChunkList(found)'
      <3>1. InUse(found)' = InUse(found)
        BY <1>0 DEF InUse
      <3>2. Left(found)' = Left(found)
        BY <1>d, <3>1 DEF Left, Numbers
      <3>3. Leaving(found)' <=> Leaving(found)
        BY <1>0, <1>5 DEF Leaving, OthersSame
      <3>4. Fresh(found) => Fresh(found)'
        BY <1>0, <1>5 DEF Fresh, OthersSame
      <3> QED
        BY <1>d, <2>2, <3>1, <3>2, <3>3, <3>4 DEF PoolInv, ChunkLists, ChunkList
    <2> QED
      BY <1>0, <1>d, <2>1, <2>2 DEF PoolInv, ChunkLists
  <1>11. Searches'
    <2>1. \A r \in PageNums : InUse(r)' = InUse(r)
      BY <1>0 DEF InUse
    <2>2. \A u \in Threads \ {t} :
            /\ pc'[u] = "take" =>
                 /\ pool'[u] \in PageNums /\ master'[pool'[u]] = mp'[u] /\ pfree'[pool'[u]] # 0
            /\ pc'[u] = "search" =>
                 /\ pool'[u] \in PageNums /\ master'[pool'[u]] = mp'[u]
                 /\ lp'[u] = pools'[mp'[u]] /\ lp'[u] # pool'[u] /\ hint'[mp'[u]] # pool'[u]
                 /\ InUse(pool[u])' = {}
      BY <1>0, <1>d, <1>5, <2>1, OthersSearch
    <2>3. pc'[t] = "take" => pool'[t] \in PageNums /\ master'[pool'[t]] = mp'[t]
                             /\ pfree'[pool'[t]] # 0
      BY <1>1, <1>2, <1>3, <1>5, <1>d DEF Of
    <2> QED
      BY <1>5, <2>2, <2>3 DEF Searches
  <1>12. Shapes'
    <2>1. /\ pc' \in [Threads -> Labels] /\ ret' \in [Threads -> Labels]
          /\ pool' \in [Threads -> PageNums \cup {Nil}]
          /\ hint' \in [Masters -> PageNums \cup {Nil}]
      BY <1>t, <1>2, <1>3, <1>4 DEF Labels
    <2> QED
      BY <1>0, <1>1, <1>d, <2>1 DEF PoolInv, Shapes, list
  <1> QED
    BY <1>7, <1>8, <1>9, <1>10, <1>11, <1>12 DEF PoolInv

(* A step in the midst of alloc_pool() or free_pool() concerns one master, *)
(* m, and one pool at most, p: what is left to show is about the two.      *)
LEMMA PoolStepKeeps ==
  ASSUME PoolInv, NEW t \in Threads, NEW m \in Masters, NEW p,
         OthersSame(t), UNCHANGED <<list, freeq, own>>, Shapes', Apart', Free' = Free,
         s_lock[m] = None \/ (Inside(t) /\ mp[t] = m),
         pc'[t] # "got", Call(t)',
         \A n \in Masters \ {m} : /\ s_lock'[n] = s_lock[n] /\ mcount'[n] = mcount[n]
                                  /\ pools'[n] = pools[n] /\ hint'[n] = hint[n],
         p \in PageNums => {master[p], master'[p]} \subseteq {m, None},
         pc[t] \in {"take", "search"} => pool[t] = p,
         pc'[t] \in {"take", "search"} => pool'[t] = p,
         \A r \in PageNums \ {p} :
           /\ master'[r] = master[r] /\ refcnt'[r] = refcnt[r] /\ nfree'[r] = nfree[r]
           /\ pfree'[r] = pfree[r] /\ cnext'[r] = cnext[r],
         \A r \in PageNums : master[r] \in Masters \ {m} => plink'[r] = plink[r],
         \A c : c[1] # p => (c \in chunks'[t] <=> c \in chunks[t]),
         \A c \in chunks'[t] \ chunks[t] :
           /\ master[p] # None /\ c[2] \in Chunks(master[p])
           /\ \A u \in Threads : c \notin chunks[u],
         master'[p] = master[p] \/ \A u \in Threads : \A c \in chunks'[u] : c[1] # p,
         PoolList(m)', p \in PageNums => ChunkList(p)',
         pc'[t] = "take" => master'[p] = mp'[t] /\ p \in PageNums /\ pfree'[p] # 0,
         pc'[t] = "search" =>
           /\ p \in PageNums /\ master'[p] = mp'[t]
           /\ lp'[t] = pools'[mp'[t]] /\ lp'[t] # p /\ hint'[mp'[t]] # p
           /\ InUse(p)' = {}
  PROVE  PoolInv'
  <1>t. /\ master \in [PageNums -> Masters \cup {None}]
        /\ chunks \in [Threads -> SUBSET (PageNums \X ChunkNums)]
        /\ chunks' \in [Threads -> SUBSET (PageNums \X ChunkNums)]
        /\ m # None /\ None \notin Masters
    BY PageFacts DEF PoolInv, Shapes
  <1>1. PageList' /\ Calls'
    <2>1. s_lock[m] \in {None, t}
      BY DEF PoolInv, Calls, Call
    <2> QED
      BY <2>1, PoolStepPages
  <1>2. PoolLists'
    <2>1. \A n \in Masters \ {m} :
            /\ \A r \in PageNums : master'[r] = n <=> master[r] = n
            /\ \A r \in Of(n) : plink'[r] = plink[r]
      BY <1>t DEF Of
    <2>2. \A n \in Masters \ {m} : PoolList(n)'
      BY SMTT(60), <2>1, OtherLists
    <2> QED
      BY <2>2 DEF PoolLists
  <1>3. \A r \in PageNums \ {p} : ChunkList(r)' /\ InUse(r)' = InUse(r)
    BY SMTT(60), OtherChunks
  <1>4. ChunkLists'
    <2>1. \A u \in Threads \ {t} : chunks'[u] = chunks[u]
      BY DEF OthersSame
    <2>2. \A u, v \in Threads : u # v => chunks'[u] \cap chunks'[v] = {}
      BY <2>1 DEF PoolInv, ChunkLists
    <2>3. ASSUME NEW u \in Threads, NEW c \in chunks'[u]
          PROVE  master'[c[1]] # None /\ c[2] \in Chunks(master'[c[1]])
      <3>1. c[1] \in PageNums
        BY <1>t
      <3>2. CASE c \in chunks[u]
        BY <2>3, <3>1, <3>2 DEF PoolInv, ChunkLists
      <3>3. CASE c \notin chunks[u]
        <4>1. u = t /\ c[1] = p
          BY <2>1, <2>3, <3>3
        <4> QED
          BY <2>3, <3>3, <4>1
      <3> QED
        BY <3>2, <3>3
    <2> QED
      BY <1>3, <2>2, <2>3 DEF ChunkLists
  <1>5. Searches'
    <2>1. \A u \in Threads \ {t} :
            /\ pc'[u] = "take" =>
                 /\ pool'[u] \in PageNums /\ master'[pool'[u]] = mp'[u] /\ pfree'[pool'[u]] # 0
            /\ pc'[u] = "search" =>
                 /\ pool'[u] \in PageNums /\ master'[pool'[u]] = mp'[u]
                 /\ lp'[u] = pools'[mp'[u]] /\ lp'[u] # pool'[u] /\ hint'[mp'[u]] # pool'[u]
                 /\ InUse(pool[u])' = {}
      <3>1. ASSUME NEW r \in PageNums, master[r] \in Masters \ {m}
            PROVE  /\ master'[r] = master[r] /\ pfree'[r] = pfree[r]
                   /\ InUse(r)' \subseteq InUse(r)
        BY <1>3, <1>t, <3>1
      <3>2. \A r \in PageNums : master[r] \in Masters \ {m} =>
              /\ master'[r] = master[r] /\ pfree'[r] = pfree[r] /\ InUse(r)' \subseteq InUse(r)
        BY <3>1
      <3>3. \A n \in Masters \ {m} : pools'[n] = pools[n] /\ hint'[n] = hint[n]
        OBVIOUS
      <3> QED
        BY <3>2, <3>3, OthersSearch
    <2>2. \A u \in Threads \ {t} : pool'[u] = pool[u]
      BY DEF OthersSame
    <2> QED
      BY <2>1, <2>2 DEF Searches, InUse
  <1> QED
    BY <1>1, <1>2, <1>4, <1>5 DEF PoolInv

(* A pool's numbers of chunks in use are counted by the pool's chunks in   *)
(* use, and at most one thread is about to make or to give up the pool.    *)
LEMMA InUseFacts ==
  ASSUME PoolInv, NEW p \in PageNums, NEW m \in Masters, master[p] = m
  PROVE  /\ IsFiniteSet(InUse(p)) /\ Cardinality(InUse(p)) \in Nat
         /\ IsFiniteSet(Left(p)) /\ Cardinality(Left(p)) \in Nat
         /\ Numbers(p) \subseteq Chunks(m)
         /\ \A c : c \in InUse(p) <=> c = <<p, c[2]>> /\ c[2] \in Numbers(p)
         /\ s_lock[m] = None => ~Leaving(p) /\ ~Fresh(p)
         /\ \A t \in Threads : Inside(t) /\ mp[t] = m =>
              /\ Leaving(p) => pc[t] = "search" /\ pool[t] = p
              /\ Fresh(p) => pc[t] = "take" /\ pool[t] = p
  <1>t. chunks \in [Threads -> SUBSET (PageNums \X ChunkNums)]
    BY DEF PoolInv, Shapes
  <1>1. \A c \in InUse(p) : c = <<p, c[2]>> /\ c[2] \in Chunks(m)
    <2> SUFFICES ASSUME NEW c \in InUse(p) PROVE c = <<p, c[2]>> /\ c[2] \in Chunks(m)
      OBVIOUS
    <2>1. PICK t \in Threads : c \in chunks[t] /\ c[1] = p
      BY DEF InUse
    <2>2. c \in PageNums \X ChunkNums
      BY <1>t, <2>1
    <2> QED
      BY <2>1, <2>2 DEF PoolInv, ChunkLists
  <1>2. IsFiniteSet(Chunks(m)) /\ IsFiniteSet(PageNums)
    BY PageFacts, ChunkFacts
  <1>3. InUse(p) \subseteq PageNums \X Chunks(m)
    BY <1>1
  <1>4. IsFiniteSet(PageNums \X Chunks(m))
    BY <1>2, FS_Product
  <1>5. IsFiniteSet(InUse(p)) /\ IsFiniteSet(Left(p))
    <2>1. Left(p) \subseteq Chunks(m)
      BY DEF Left
    <2> QED
      BY <1>2, <1>3, <1>4, <2>1, FS_Subset
  <1>6. Cardinality(InUse(p)) \in Nat /\ Cardinality(Left(p)) \in Nat
    BY <1>5, FS_CardinalityType
  <1>7. /\ Numbers(p) \subseteq Chunks(m)
        /\ \A c : c \in InUse(p) <=> c = <<p, c[2]>> /\ c[2] \in Numbers(p)
    BY <1>1 DEF Numbers
  <1>8. \A u \in Threads :
          pc[u] \in {"search", "take"} /\ pool[u] = p => Inside(u) /\ mp[u] = m
    BY DEF PoolInv, Searches, Inside
  <1>9. /\ s_lock[m] = None => ~Leaving(p) /\ ~Fresh(p)
        /\ \A t \in Threads : Inside(t) /\ mp[t] = m =>
             /\ Leaving(p) => pc[t] = "search" /\ pool[t] = p
             /\ Fresh(p) => pc[t] = "take" /\ pool[t] = p
    BY <1>8, AloneInside DEF Leaving, Fresh
  <1> QED
    BY <1>5, <1>6, <1>7, <1>9

(* The end of alloc_pool() or free_pool(): sema_v(s_lock).                 *)
LEMMA LeaveFacts ==
  ASSUME PoolInv, NEW t \in Threads, NEW m \in Masters, mp[t] = m, Leave(t),
         pc[t] \notin {"mark", "got", "free", "push", "newpool"}, UNCHANGED own
  PROVE  /\ pc' \in [Threads -> Labels] /\ ret' \in [Threads -> Labels]
         /\ page' \in [Threads -> PageNums \cup {Nil}]
         /\ pool' \in [Threads -> PageNums \cup {Nil}] /\ lp' \in [Threads -> PageNums \cup {Nil}]
         /\ s_lock' \in [Masters -> Threads \cup {None}]
         /\ mp' \in [Threads -> Masters \cup {None}]
         /\ pc'[t] = "idle" /\ Call(t)' /\ Held(t)' = Held(t) /\ Handled(t)' = {}
         /\ \A n \in Masters \ {m} : s_lock'[n] = s_lock[n]
         /\ \A u \in Threads \ {t} :
              /\ pc'[u] = pc[u] /\ ret'[u] = ret[u] /\ page'[u] = page[u]
              /\ mp'[u] = mp[u] /\ pool'[u] = pool[u] /\ lp'[u] = lp[u]
  <1>1. /\ pc \in [Threads -> Labels] /\ ret \in [Threads -> Labels]
        /\ {page, pool, lp} \subseteq [Threads -> PageNums \cup {Nil}]
        /\ s_lock \in [Masters -> Threads \cup {None}]
        /\ mp \in [Threads -> Masters \cup {None}]
    BY DEF PoolInv, Shapes
  <1>2. /\ s_lock' = [s_lock EXCEPT ![m] = None] /\ mp' = [mp EXCEPT ![t] = None]
        /\ pool' = [pool EXCEPT ![t] = Nil] /\ lp' = [lp EXCEPT ![t] = Nil]
        /\ page' = [page EXCEPT ![t] = Nil]
        /\ pc' = [pc EXCEPT ![t] = "idle"] /\ ret' = [ret EXCEPT ![t] = "idle"]
    BY DEF Leave, Return
  <1>3. /\ pc' \in [Threads -> Labels] /\ ret' \in [Threads -> Labels]
        /\ page' \in [Threads -> PageNums \cup {Nil}]
        /\ pool' \in [Threads -> PageNums \cup {Nil}] /\ lp' \in [Threads -> PageNums \cup {Nil}]
        /\ s_lock' \in [Masters -> Threads \cup {None}]
        /\ mp' \in [Threads -> Masters \cup {None}]
    BY <1>1, <1>2 DEF Labels
  <1>4. pc'[t] = "idle" /\ ret'[t] = "idle"
    BY <1>1, <1>2
  <1>5. Call(t)' /\ Held(t)' = Held(t) /\ Handled(t)' = {}
    BY <1>4 DEF Call, Inside, Held, Handled
  <1>6. /\ \A n \in Masters \ {m} : s_lock'[n] = s_lock[n]
        /\ \A u \in Threads \ {t} :
              /\ pc'[u] = pc[u] /\ ret'[u] = ret[u] /\ page'[u] = page[u]
              /\ mp'[u] = mp[u] /\ pool'[u] = pool[u] /\ lp'[u] = lp[u]
    BY <1>1, <1>2
  <1> QED
    BY <1>3, <1>4, <1>5, <1>6

(* alloc_pool() takes the first free chunk of the pool it has found.       *)
LEMMA StepTakeChunk ==
  ASSUME PoolInv, NEW t \in Threads, TakeChunk(t)
  PROVE  PoolInv'
  <1>t. /\ chunks \in [Threads -> SUBSET (PageNums \X ChunkNums)]
        /\ refcnt \in [PageNums -> {0} \cup ChunkNums] /\ nfree \in [PageNums -> {0} \cup ChunkNums]
        /\ pfree \in [PageNums -> {0} \cup ChunkNums]
        /\ cnext \in [PageNums -> [ChunkNums -> {0} \cup ChunkNums]]
    BY DEF PoolInv, Shapes
  <1>0. /\ pc[t] = "take" /\ Leave(t)
        /\ UNCHANGED <<list, freeq, own, pools, hint, mcount, master, plink, cnext>>
    BY DEF TakeChunk
  <1>1. PICK p \in PageNums : p = pool[t] /\ master[p] = mp[t] /\ pfree[p] # 0
    BY <1>0 DEF PoolInv, Searches
  <1>2. PICK m \in Masters : m = mp[t] /\ Inside(t)
    BY <1>0, AloneInside DEF Inside
  <1>3. PICK x : x = pfree[p]
    OBVIOUS
  <1>4. /\ chunks' = [chunks EXCEPT ![t] = @ \cup {<<p, x>>}]
        /\ pfree' = [pfree EXCEPT ![p] = cnext[p][x]]
        /\ refcnt' = [refcnt EXCEPT ![p] = @ + 1] /\ nfree' = [nfree EXCEPT ![p] = @ - 1]
    BY <1>1, <1>3 DEF TakeChunk
  <1>5. /\ IsChain(x, cnext[p], 0, Chunks(m), Left(p))
        /\ refcnt[p] = Cardinality(InUse(p)) /\ nfree[p] = Cardinality(Left(p))
        /\ refcnt[p] + nfree[p] = PerPage[m]
    <2>1. ~Leaving(p)
      BY <1>0, <1>1, <1>2, InUseFacts
    <2>2. master[p] # None
      BY <1>1, <1>2, PageFacts
    <2> QED
      BY <1>1, <1>2, <1>3, <2>1, <2>2 DEF PoolInv, ChunkLists, ChunkList
  <1>6. /\ IsChain(cnext[p][x], cnext[p], 0, Chunks(m), Left(p) \ {x}) /\ x \in Left(p)
    BY <1>1, <1>3, <1>5, ChainPop
  <1>7. x \in Chunks(m) /\ x \in ChunkNums /\ <<p, x>> \notin InUse(p)
    <2>1. x \in Chunks(m) /\ x \notin Numbers(p)
      BY <1>1, <1>2, <1>6 DEF Left
    <2> QED
      BY <2>1, ChunkFacts DEF Numbers
  <1>8. /\ pc' \in [Threads -> Labels] /\ ret' \in [Threads -> Labels]
        /\ page' \in [Threads -> PageNums \cup {Nil}]
        /\ pool' \in [Threads -> PageNums \cup {Nil}] /\ lp' \in [Threads -> PageNums \cup {Nil}]
        /\ s_lock' \in [Masters -> Threads \cup {None}]
        /\ mp' \in [Threads -> Masters \cup {None}]
        /\ pc'[t] = "idle" /\ Call(t)' /\ Held(t)' = Held(t) /\ Handled(t)' = {}
        /\ \A n \in Masters \ {m} : s_lock'[n] = s_lock[n]
    BY <1>0, <1>2, LeaveFacts
  <1>9. OthersSame(t)
    <2>1. \A u \in Threads \ {t} : chunks'[u] = chunks[u]
      BY <1>t, <1>4
    <2> QED
      BY <1>0, <1>2, <2>1, LeaveFacts DEF OthersSame
  <1>10. Apart' /\ Free' = Free
    BY <1>0, <1>8, <1>9, NonePasses DEF PoolInv
  <1>11. InUse(p)' = InUse(p) \cup {<<p, x>>}
    <2>1. \A u \in Threads : \A c : c \in chunks'[u] <=> c \in chunks[u] \/ (u = t /\ c = <<p, x>>)
      BY <1>t, <1>4
    <2> QED
      BY <2>1 DEF InUse
  <1>12. Left(p)' = Left(p) \ {x}
    <2>1. Numbers(p)' = Numbers(p) \cup {x}
      <3>0. PICK d : d = <<p, x>>
        OBVIOUS
      <3>1. d = <<p, x>> /\ d[2] = x
        BY <3>0
      <3>2. Numbers(p)' = {c[2] : c \in InUse(p) \cup {d}}
        BY <1>11, <3>1 DEF Numbers
      <3> QED
        BY <3>1, <3>2 DEF Numbers
    <2> QED
      BY <1>0, <2>1 DEF Left
  <1>13. /\ Cardinality(InUse(p)') = Cardinality(InUse(p)) + 1
         /\ Cardinality(Left(p)') = Cardinality(Left(p)) - 1
         /\ Cardinality(InUse(p)) \in Nat /\ Cardinality(Left(p)) \in Nat
         /\ Cardinality(Left(p)) - 1 \in Nat
    <2>1. /\ IsFiniteSet(InUse(p)) /\ IsFiniteSet(Left(p))
          /\ Cardinality(InUse(p)) \in Nat /\ Cardinality(Left(p)) \in Nat
      BY <1>1, <1>2, InUseFacts
    <2>2. /\ Cardinality(InUse(p) \cup {<<p, x>>}) = Cardinality(InUse(p)) + 1
          /\ Cardinality(Left(p) \ {x}) = Cardinality(Left(p)) - 1
          /\ IsFiniteSet(Left(p) \ {x})
      BY <1>6, <1>7, <2>1, FS_AddElement, FS_RemoveElement
    <2>3. Cardinality(Left(p) \ {x}) \in Nat
      BY <2>2, FS_CardinalityType
    <2> QED
      BY <1>11, <1>12, <2>1, <2>2, <2>3
  <1>14. /\ refcnt'[p] = refcnt[p] + 1 /\ nfree'[p] = nfree[p] - 1 /\ pfree'[p] = cnext[p][x]
         /\ \A r \in PageNums \ {p} : /\ refcnt'[r] = refcnt[r] /\ nfree'[r] = nfree[r]
                                      /\ pfree'[r] = pfree[r]
    BY <1>t, <1>4
  <1>15. ChunkList(p)'
    <2>1. master'[p] = m /\ cnext' = cnext
      BY <1>0, <1>1, <1>2
    <2>2. IsChain(pfree'[p], cnext'[p], 0, Chunks(master'[p]), Left(p)')
      BY <1>6, <1>12, <1>14, <2>1
    <2>3. /\ refcnt'[p] = Cardinality(InUse(p)') /\ nfree'[p] = Cardinality(Left(p)')
          /\ refcnt'[p] + nfree'[p] = PerPage[m] /\ refcnt'[p] > 0
      BY <1>5, <1>13, <1>14
    <2> QED
      BY <2>1, <2>2, <2>3 DEF ChunkList
  <1>16. PoolList(m)'
    BY <1>0 DEF PoolInv, PoolLists, PoolList, Of
  <1>17. Shapes'
    <2>1. refcnt'[p] \in {0} \cup ChunkNums /\ nfree'[p] \in {0} \cup ChunkNums
      <3>1. refcnt'[p] \in 1 .. PerPage[m] /\ nfree'[p] \in 0 .. PerPage[m]
        BY <1>5, <1>13, <1>14, ChunkFacts
      <3>2. \A k \in 1 .. PerPage[m] : k \in ChunkNums
        BY ChunkFacts
      <3> QED
        BY <3>1, <3>2, ChunkFacts
    <2>2. cnext[p][x] \in {0} \cup ChunkNums
      BY <1>t, <1>7
    <2>3. {refcnt', nfree', pfree'} \subseteq [PageNums -> {0} \cup ChunkNums]
      BY <1>t, <1>4, <1>14, <2>1, <2>2
    <2>4. chunks' \in [Threads -> SUBSET (PageNums \X ChunkNums)]
      BY <1>t, <1>4, <1>7
    <2> QED
      BY <1>0, <1>8, <2>3, <2>4 DEF PoolInv, Shapes, list
  <1>18. \A c \in chunks'[t] \ chunks[t] :
           /\ master[p] # None /\ c[2] \in Chunks(master[p])
           /\ \A u \in Threads : c \notin chunks[u]
    <2>1. \A c \in chunks'[t] \ chunks[t] : c = <<p, x>>
      BY <1>t, <1>4
    <2>2. \A u \in Threads : <<p, x>> \notin chunks[u]
      BY <1>7 DEF InUse
    <2> QED
      BY <1>1, <1>2, <1>7, <2>1, <2>2, PageFacts
  <1>19. \A c : c[1] # p => (c \in chunks'[t] <=> c \in chunks[t])
    BY <1>t, <1>4
  <1> QED
    BY SMTT(60), <1>0, <1>1, <1>2, <1>8, <1>9, <1>10, <1>14, <1>15, <1>16, <1>17,
       <1>18, <1>19, PoolStepKeeps

(* free_pool(): the chunk goes to the front of its pool's free chunks.     *)
LEMMA StepFreeChunk ==
  ASSUME PoolInv, NEW t \in Threads, NEW c \in chunks[t], FreeChunk(t, c)
  PROVE  PoolInv'
  <1>t. /\ chunks \in [Threads -> SUBSET (PageNums \X ChunkNums)]
        /\ refcnt \in [PageNums -> {0} \cup ChunkNums] /\ nfree \in [PageNums -> {0} \cup ChunkNums]
        /\ pfree \in [PageNums -> {0} \cup ChunkNums]
        /\ cnext \in [PageNums -> [ChunkNums -> {0} \cup ChunkNums]]
        /\ master \in [PageNums -> Masters \cup {None}]
    BY DEF PoolInv, Shapes
  <1>1. PICK p \in PageNums, x \in ChunkNums : c = <<p, x>> /\ c[1] = p /\ c[2] = x
    BY <1>t
  <1>2. master[p] # None /\ x \in Chunks(master[p])
    BY <1>1 DEF PoolInv, ChunkLists
  <1>3. PICK m \in Masters : m = master[p] /\ x \in Chunks(m)
    BY <1>t, <1>2
  <1>0. /\ pc[t] = "idle" /\ s_lock[m] = None /\ refcnt[p] - 1 # 0
        /\ chunks' = [chunks EXCEPT ![t] = @ \ {c}]
        /\ cnext' = [cnext EXCEPT ![p][x] = pfree[p]]
        /\ pfree' = [pfree EXCEPT ![p] = x]
        /\ nfree' = [nfree EXCEPT ![p] = @ + 1] /\ refcnt' = [refcnt EXCEPT ![p] = @ - 1]
        /\ UNCHANGED <<vars, masters, master, plink, mp, pool, lp>>
    BY <1>1, <1>3 DEF FreeChunk
  <1>v. /\ UNCHANGED <<list, freeq, own>> /\ pc' = pc /\ ret' = ret /\ page' = page
        /\ pools' = pools /\ hint' = hint /\ mcount' = mcount /\ s_lock' = s_lock
        /\ master' = master /\ plink' = plink /\ mp' = mp /\ pool' = pool /\ lp' = lp
    BY <1>0 DEF vars, local, masters
  <1>4. /\ IsChain(pfree[p], cnext[p], 0, Chunks(m), Left(p))
        /\ refcnt[p] = Cardinality(InUse(p)) /\ nfree[p] = Cardinality(Left(p))
        /\ refcnt[p] + nfree[p] = PerPage[m]
    <2>1. ~Leaving(p)
      BY <1>0, <1>3, InUseFacts
    <2> QED
      BY <1>2, <1>3, <2>1 DEF PoolInv, ChunkLists, ChunkList
  <1>5. x \notin Left(p) /\ c \in InUse(p) /\ x # 0
    <2>1. c \in InUse(p)
      BY <1>1 DEF InUse
    <2>2. x \in Numbers(p)
      BY <1>1, <2>1 DEF Numbers
    <2> QED
      BY <2>1, <2>2, ChunkFacts DEF Left
  <1>6. /\ cnext'[p][x] = pfree[p] /\ \A y \in Left(p) : cnext'[p][y] = cnext[p][y]
        /\ \A r \in PageNums \ {p} : /\ cnext'[r] = cnext[r] /\ pfree'[r] = pfree[r]
                                     /\ nfree'[r] = nfree[r] /\ refcnt'[r] = refcnt[r]
        /\ pfree'[p] = x /\ nfree'[p] = nfree[p] + 1 /\ refcnt'[p] = refcnt[p] - 1
    <2>1. Left(p) \subseteq ChunkNums
      BY <1>3, ChunkFacts DEF Left
    <2>2. cnext[p] \in [ChunkNums -> {0} \cup ChunkNums]
      BY <1>t
    <2>3. cnext'[p] = [cnext[p] EXCEPT ![x] = pfree[p]]
      BY <1>t, <1>0
    <2>4. cnext'[p][x] = pfree[p] /\ \A y \in Left(p) : cnext'[p][y] = cnext[p][y]
      BY <1>5, <2>1, <2>2, <2>3
    <2> QED
      BY <1>t, <1>0, <2>4
  <1>7. IsChain(x, cnext'[p], 0, Chunks(m), Left(p) \cup {x})
    BY <1>3, <1>4, <1>5, <1>6, ChainPush
  <1>8. InUse(p)' = InUse(p) \ {c}
    <2>1. \A u \in Threads : u # t => c \notin chunks[u]
      BY DEF PoolInv, ChunkLists
    <2>2. \A u \in Threads : \A d : d \in chunks'[u] <=> d \in chunks[u] /\ d # c
      BY <1>t, <1>0, <2>1
    <2> QED
      BY <2>2 DEF InUse
  <1>9. Left(p)' = Left(p) \cup {x}
    <2>1. Numbers(p)' = Numbers(p) \ {x}
      <3>1. \A d : d \in InUse(p) <=> d = <<p, d[2]>> /\ d[2] \in Numbers(p)
        BY <1>3, InUseFacts
      <3>2. Numbers(p)' = {d[2] : d \in InUse(p) \ {c}}
        BY <1>8 DEF Numbers
      <3>3. \A d \in InUse(p) : d[2] = x => d = c
        BY <1>1, <3>1
      <3>4. \A d \in InUse(p) \ {c} : d[2] \in Numbers(p) /\ d[2] # x
        BY <3>3 DEF Numbers
      <3>5. \A y \in Numbers(p) \ {x} : \E d \in InUse(p) \ {c} : d[2] = y
        BY <1>1 DEF Numbers
      <3> QED
        BY <3>2, <3>4, <3>5
    <2> QED
      BY <1>v, <1>3, <2>1 DEF Left
  <1>10. /\ Cardinality(InUse(p)') = Cardinality(InUse(p)) - 1
         /\ Cardinality(Left(p)') = Cardinality(Left(p)) + 1
         /\ Cardinality(InUse(p)) \in Nat /\ Cardinality(Left(p)) \in Nat
         /\ Cardinality(InUse(p)) - 1 \in Nat
    <2>1. /\ IsFiniteSet(InUse(p)) /\ IsFiniteSet(Left(p))
          /\ Cardinality(InUse(p)) \in Nat /\ Cardinality(Left(p)) \in Nat
      BY <1>3, InUseFacts
    <2>2. /\ Cardinality(InUse(p) \ {c}) = Cardinality(InUse(p)) - 1
          /\ Cardinality(Left(p) \cup {x}) = Cardinality(Left(p)) + 1
          /\ IsFiniteSet(InUse(p) \ {c})
      BY <1>5, <2>1, FS_AddElement, FS_RemoveElement
    <2>3. Cardinality(InUse(p) \ {c}) \in Nat
      BY <2>2, FS_CardinalityType
    <2> QED
      BY <1>8, <1>9, <2>1, <2>2, <2>3
  <1>11. ChunkList(p)'
    <2>1. IsChain(pfree'[p], cnext'[p], 0, Chunks(master'[p]), Left(p)')
      BY <1>v, <1>3, <1>6, <1>7, <1>9
    <2>2. PerPage[m] \in Nat
      BY ChunkFacts
    <2>3. /\ refcnt'[p] = Cardinality(InUse(p)') /\ nfree'[p] = Cardinality(Left(p)')
          /\ refcnt'[p] + nfree'[p] = PerPage[m] /\ refcnt'[p] > 0
      BY <1>0, <1>4, <1>6, <1>10, <2>2
    <2> QED
      BY <1>v, <1>3, <2>1, <2>3 DEF ChunkList
  <1>12. OthersSame(t) /\ Held(t)' = Held(t) /\ Handled(t)' = {}
    BY <1>t, <1>0, <1>v DEF OthersSame, Held, Handled
  <1>13. Apart' /\ Free' = Free
    BY <1>v, <1>12, NonePasses DEF PoolInv
  <1>14. Call(t)'
    BY <1>0, <1>v DEF Call, Inside
  <1>15. PoolList(m)'
    BY <1>v DEF PoolInv, PoolLists, PoolList, Of
  <1>16. Shapes'
    <2>1. refcnt'[p] \in {0} \cup ChunkNums /\ nfree'[p] \in {0} \cup ChunkNums
      <3>1. refcnt'[p] \in 0 .. PerPage[m] /\ nfree'[p] \in 1 .. PerPage[m]
        BY <1>4, <1>6, <1>10, ChunkFacts
      <3>2. \A k \in 1 .. PerPage[m] : k \in ChunkNums
        BY ChunkFacts
      <3> QED
        BY <3>1, <3>2, ChunkFacts
    <2>2. {refcnt', nfree', pfree'} \subseteq [PageNums -> {0} \cup ChunkNums]
      BY <1>t, <1>0, <1>6, <2>1
    <2>3. cnext' \in [PageNums -> [ChunkNums -> {0} \cup ChunkNums]]
      <3>1. pfree[p] \in {0} \cup ChunkNums
        BY <1>t
      <3> QED
        BY <1>t, <1>0, <3>1
    <2>4. chunks' \in [Threads -> SUBSET (PageNums \X ChunkNums)]
      BY <1>t, <1>0
    <2> QED
      BY <1>v, <2>2, <2>3, <2>4 DEF PoolInv, Shapes, list
  <1>17. /\ \A d : d[1] # p => (d \in chunks'[t] <=> d \in chunks[t])
         /\ chunks'[t] \ chunks[t] = {}
    BY <1>t, <1>0, <1>1
  <1>18. /\ \A n \in Masters \ {m} : /\ s_lock'[n] = s_lock[n] /\ mcount'[n] = mcount[n]
                                     /\ pools'[n] = pools[n] /\ hint'[n] = hint[n]
         /\ {master[p], master'[p]} \subseteq {m, None} /\ master' = master /\ plink' = plink
         /\ pc[t] = "idle" /\ pc'[t] = "idle"
    BY <1>0, <1>v, <1>3
  <1>19. \A d \in chunks'[t] \ chunks[t] :
           /\ master[p] # None /\ d[2] \in Chunks(master[p])
           /\ \A u \in Threads : d \notin chunks[u]
    BY <1>17
  <1> QED
    BY <1>0, <1>v, <1>6, <1>11, <1>12, <1>13, <1>14, <1>15, <1>16, <1>17,
       <1>18, <1>19, PoolStepKeeps

(* free_pool() with the last chunk in use: the pool is given up at once,   *)
(* or its predecessor has to be looked for.                                *)
LEMMA StepFreeLastChunk ==
  ASSUME PoolInv, NEW t \in Threads, NEW c \in chunks[t], FreeLastChunk(t, c)
  PROVE  PoolInv'
  <1>t. /\ chunks \in [Threads -> SUBSET (PageNums \X ChunkNums)]
        /\ refcnt \in [PageNums -> {0} \cup ChunkNums] /\ nfree \in [PageNums -> {0} \cup ChunkNums]
        /\ pfree \in [PageNums -> {0} \cup ChunkNums]
        /\ cnext \in [PageNums -> [ChunkNums -> {0} \cup ChunkNums]]
        /\ master \in [PageNums -> Masters \cup {None}] /\ plink \in [PageNums -> PageNums \cup {Nil}]
        /\ {pools, hint} \subseteq [Masters -> PageNums \cup {Nil}]
        /\ s_lock \in [Masters -> Threads \cup {None}] /\ mp \in [Threads -> Masters \cup {None}]
        /\ {page, pool, lp} \subseteq [Threads -> PageNums \cup {Nil}]
        /\ pc \in [Threads -> Labels] /\ ret \in [Threads -> Labels] /\ mcount \in [Masters -> Nat]
    BY DEF PoolInv, Shapes
  <1>1. PICK p \in PageNums, x \in ChunkNums : c = <<p, x>> /\ c[1] = p /\ c[2] = x
    BY <1>t
  <1>2. master[p] # None /\ x \in Chunks(master[p])
    BY <1>1 DEF PoolInv, ChunkLists
  <1>3. PICK m \in Masters : m = master[p] /\ x \in Chunks(m) /\ p # Nil
    BY <1>t, <1>2, PageFacts
  <1>0. /\ pc[t] = "idle" /\ s_lock[m] = None /\ refcnt[p] - 1 = 0
        /\ s_lock' = [s_lock EXCEPT ![m] = t]
        /\ chunks' = [chunks EXCEPT ![t] = @ \ {c}]
        /\ mp' = [mp EXCEPT ![t] = m] /\ pool' = [pool EXCEPT ![t] = p]
        /\ hint' = [hint EXCEPT ![m] = NextHint(m, p)]
        /\ refcnt' = [refcnt EXCEPT ![p] = 0] /\ nfree' = [nfree EXCEPT ![p] = 0]
        /\ pfree' = [pfree EXCEPT ![p] = 0]
        /\ cnext' = [cnext EXCEPT ![p] = [i \in ChunkNums |-> 0]]
        /\ UNCHANGED <<list, freeq, own>>
    BY <1>1, <1>3 DEF FreeLastChunk
  <1>4. \/ /\ pools[m] = p
           /\ pools' = [pools EXCEPT ![m] = plink[p]] /\ plink' = [plink EXCEPT ![p] = Nil]
           /\ mcount' = [mcount EXCEPT ![m] = @ - 1] /\ page' = [page EXCEPT ![t] = p]
           /\ pc' = [pc EXCEPT ![t] = "free"] /\ ret' = [ret EXCEPT ![t] = "unlock"]
           /\ master' = [master EXCEPT ![p] = None]
           /\ UNCHANGED lp
        \/ /\ pools[m] # p
           /\ lp' = [lp EXCEPT ![t] = pools[m]] /\ pc' = [pc EXCEPT ![t] = "search"]
           /\ UNCHANGED <<pools, plink, mcount, page, ret, master>>
    BY <1>1, <1>3 DEF FreeLastChunk, GiveUp, Goto
  <1>5. InUse(p) = {c}
    <2>1. ~Leaving(p) /\ IsFiniteSet(InUse(p))
      BY <1>0, <1>3, InUseFacts
    <2>2. refcnt[p] = Cardinality(InUse(p))
      BY <1>2, <2>1 DEF PoolInv, ChunkLists, ChunkList
    <2>3. refcnt[p] = 1
      <3>1. refcnt[p] \in Nat
        BY <1>t, ChunkFacts
      <3> QED
        BY <1>0, <3>1
    <2>4. PICK d : InUse(p) = {d}
      BY <2>1, <2>2, <2>3, FS_Singleton
    <2>5. c \in InUse(p)
      BY <1>1 DEF InUse
    <2> QED
      BY <2>4, <2>5
  <1>6. InUse(p)' = {}
    <2>1. \A u \in Threads : \A d \in chunks[u] : d[1] = p => d = c
      BY <1>5 DEF InUse
    <2>2. \A u \in Threads \ {t} : c \notin chunks[u]
      BY DEF PoolInv, ChunkLists
    <2>3. \A u \in Threads : \A d \in chunks'[u] : d \in chunks[u] /\ d # c
      BY <1>t, <1>0, <2>2
    <2> QED
      BY <2>1, <2>3 DEF InUse
  <1>7. /\ IsChain(pools[m], plink, Nil, Frames, Of(m)) /\ mcount[m] = Cardinality(Of(m))
        /\ hint[m] \in Of(m) \cup {Nil} /\ p \in Of(m)
    BY <1>3 DEF PoolInv, PoolLists, PoolList, Of
  <1>8. /\ hint'[m] \in (Of(m) \cup {Nil}) \ {p} /\ \A n \in Masters \ {m} : hint'[n] = hint[n]
    <2>1. plink[p] \in (Of(m) \cup {Nil}) \ {p}
      BY <1>7, ChainFacts
    <2> QED
      BY <1>t, <1>0, <1>3, <1>7, <2>1 DEF NextHint
  <1>9. /\ s_lock'[m] = t /\ \A n \in Masters \ {m} : s_lock'[n] = s_lock[n]
        /\ mp'[t] = m /\ pool'[t] = p
        /\ \A r \in PageNums \ {p} : /\ cnext'[r] = cnext[r] /\ pfree'[r] = pfree[r]
                                     /\ nfree'[r] = nfree[r] /\ refcnt'[r] = refcnt[r]
    BY <1>t, <1>0
  <1>10. OthersSame(t)
    <2>1. \A u \in Threads \ {t} : /\ pc'[u] = pc[u] /\ ret'[u] = ret[u] /\ page'[u] = page[u]
                                   /\ lp'[u] = lp[u]
      BY <1>t, <1>4
    <2>2. \A u \in Threads \ {t} : /\ chunks'[u] = chunks[u] /\ mp'[u] = mp[u] /\ own'[u] = own[u]
                                   /\ pool'[u] = pool[u]
      BY <1>t, <1>0
    <2> QED
      BY <2>1, <2>2 DEF OthersSame
  <1>11. /\ \A d : d[1] # p => (d \in chunks'[t] <=> d \in chunks[t])
         /\ \A d \in chunks'[t] : d \in chunks[t]
         /\ \A u \in Threads : \A d \in chunks'[u] : d[1] # p
    <2>1. /\ \A d : d[1] # p => (d \in chunks'[t] <=> d \in chunks[t])
          /\ \A d \in chunks'[t] : d \in chunks[t]
      BY <1>t, <1>0, <1>1
    <2> QED
      BY <1>6, <2>1 DEF InUse
  <1>12. Shapes'
    <2>1. {refcnt', nfree', pfree'} \subseteq [PageNums -> {0} \cup ChunkNums]
      BY <1>t, <1>0
    <2>2. cnext' \in [PageNums -> [ChunkNums -> {0} \cup ChunkNums]]
      BY <1>t, <1>0
    <2>3. /\ chunks' \in [Threads -> SUBSET (PageNums \X ChunkNums)]
          /\ s_lock' \in [Masters -> Threads \cup {None}] /\ mp' \in [Threads -> Masters \cup {None}]
          /\ pool' \in [Threads -> PageNums \cup {Nil}]
      BY <1>t, <1>0
    <2>4. hint' \in [Masters -> PageNums \cup {Nil}]
      <3>1. hint'[m] \in PageNums \cup {Nil}
        BY <1>8 DEF Of
      <3> QED
        BY <1>t, <1>0, <3>1
    <2>5. pools' \in [Masters -> PageNums \cup {Nil}] /\ plink' \in [PageNums -> PageNums \cup {Nil}]
      BY ZenonT(60), <1>t, <1>4
    <2>6. /\ page' \in [Threads -> PageNums \cup {Nil}] /\ lp' \in [Threads -> PageNums \cup {Nil}]
          /\ master' \in [PageNums -> Masters \cup {None}]
      <3>1. pools[m] \in PageNums \cup {Nil}
        BY <1>t
      <3>2. lp' \in [Threads -> PageNums \cup {Nil}]
        BY <1>t, <1>4, <3>1
      <3>3. page' \in [Threads -> PageNums \cup {Nil}]
        BY <1>t, <1>4
      <3>4. master' \in [PageNums -> Masters \cup {None}]
        BY <1>t, <1>4
      <3> QED
        BY <3>2, <3>3, <3>4
    <2>7. pc' \in [Threads -> Labels] /\ ret' \in [Threads -> Labels]
      BY <1>t, <1>4 DEF Labels
    <2>8. mcount' \in [Masters -> Nat]
      <3>1. mcount[m] - 1 \in Nat
        <4>1. IsFiniteSet(Of(m)) /\ IsFiniteSet(Of(m) \ {p})
              /\ Cardinality(Of(m) \ {p}) = Cardinality(Of(m)) - 1
          BY <1>7, ChainFacts, FS_RemoveElement
        <4> QED
          BY <1>7, <4>1, FS_CardinalityType
      <3> QED
        BY ZenonT(60), <1>t, <1>4, <3>1
    <2> QED
      BY <1>0, <2>1, <2>2, <2>3, <2>4, <2>5, <2>6, <2>7, <2>8 DEF PoolInv, Shapes, list
  <1>13. CASE pools[m] = p
    <2>1. /\ pools' = [pools EXCEPT ![m] = plink[p]] /\ plink' = [plink EXCEPT ![p] = Nil]
          /\ mcount' = [mcount EXCEPT ![m] = @ - 1] /\ page' = [page EXCEPT ![t] = p]
          /\ pc' = [pc EXCEPT ![t] = "free"] /\ ret' = [ret EXCEPT ![t] = "unlock"]
          /\ master' = [master EXCEPT ![p] = None]
      BY <1>4, <1>13
    <2>2. /\ pc'[t] = "free" /\ ret'[t] = "unlock" /\ page'[t] = p
          /\ pools'[m] = plink[p] /\ mcount'[m] = mcount[m] - 1 /\ master'[p] = None
          /\ \A n \in Masters \ {m} : pools'[n] = pools[n] /\ mcount'[n] = mcount[n]
          /\ \A r \in PageNums \ {p} : plink'[r] = plink[r] /\ master'[r] = master[r]
      BY <1>t, <2>1
    <2>3. Apart' /\ Free' = Free
      <3>1. Handled(t)' = {p} /\ own'[t] = own[t] /\ Held(t)' = Held(t) \cup {p} /\ p \notin own[t]
        <4>1. Handled(t) = {}
          BY <1>0 DEF Handled
        <4>2. Handled(t)' = {p}
          BY <1>3, <2>2 DEF Handled
        <4> QED
          BY <1>0, <1>2, <4>1, <4>2 DEF Held, PoolInv, Apart
      <3> QED
        BY <1>2, <1>10, <2>1, <3>1, PoolIsGivenUp DEF PoolInv
    <2>4. Call(t)'
      BY <1>3, <1>9, <2>2 DEF Call
    <2>5. PoolList(m)'
      <3>1. Of(m)' = Of(m) \ {p}
        BY <1>3, <2>2, PageFacts DEF Of
      <3>2. IsChain(plink[p], plink', Nil, Frames, Of(m) \ {p})
        <4>1. \A r \in Of(m) \ {p} : plink'[r] = plink[r]
          BY <2>2 DEF Of
        <4> QED
          BY ZenonT(60), <1>3, <1>7, <1>13, <4>1, ChainPop
      <3>3. Cardinality(Of(m) \ {p}) = Cardinality(Of(m)) - 1
        <4>1. IsFiniteSet(Of(m))
          BY <1>7, ChainFacts
        <4> QED
          BY <1>7, <4>1, FS_RemoveElement
      <3> QED
        BY <1>7, <1>8, <2>2, <3>1, <3>2, <3>3 DEF PoolList
    <2>6. ChunkList(p)'
      BY <2>2 DEF ChunkList
    <2>7. {master[p], master'[p]} \subseteq {m, None}
      BY <1>3, <2>2
    <2>8. \A r \in PageNums : master[r] \in Masters \ {m} => plink'[r] = plink[r]
      BY <1>3, <2>2
    <2>9. \A d \in chunks'[t] \ chunks[t] :
            /\ master[p] # None /\ d[2] \in Chunks(master[p])
            /\ \A u \in Threads : d \notin chunks[u]
      BY <1>11
    <2> QED
      BY <1>0, <1>8, <1>9, <1>10, <1>11, <1>12, <2>2, <2>3, <2>4, <2>5, <2>6, <2>7, <2>8, <2>9,
         PoolStepKeeps
  <1>14. CASE pools[m] # p
    <2>1. /\ lp' = [lp EXCEPT ![t] = pools[m]] /\ pc' = [pc EXCEPT ![t] = "search"]
          /\ pools' = pools /\ plink' = plink /\ mcount' = mcount /\ page' = page /\ ret' = ret
          /\ master' = master
      BY <1>4, <1>14
    <2>2. lp'[t] = pools'[mp'[t]] /\ lp'[t] # p /\ pc'[t] = "search" /\ hint'[mp'[t]] # p
      BY <1>t, <1>8, <1>9, <1>14, <2>1
    <2>3. Apart' /\ Free' = Free
      <3>1. Handled(t)' = {} /\ Held(t)' = Held(t)
        BY <1>0, <2>2 DEF Held, Handled
      <3> QED
        BY <1>10, <2>1, <3>1, NonePasses DEF PoolInv
    <2>4. Call(t)'
      BY <1>9, <2>2 DEF Call
    <2>5. PoolList(m)'
      BY <1>7, <1>8, <2>1 DEF PoolList, Of
    <2>6. ChunkList(p)'
      BY <1>9, <2>2 DEF ChunkList, Leaving
    <2>7. {master[p], master'[p]} \subseteq {m, None} /\ master'[p] = mp'[t]
      BY <1>3, <1>9, <2>1
    <2>8. \A n \in Masters \ {m} : /\ s_lock'[n] = s_lock[n] /\ mcount'[n] = mcount[n]
                                   /\ pools'[n] = pools[n] /\ hint'[n] = hint[n]
      BY <1>8, <1>9, <2>1
    <2>9. \A d \in chunks'[t] \ chunks[t] :
            /\ master[p] # None /\ d[2] \in Chunks(master[p])
            /\ \A u \in Threads : d \notin chunks[u]
      BY <1>11
    <2> QED
      BY <1>0, <1>6, <1>9, <1>10, <1>11, <1>12, <2>1, <2>2, <2>3, <2>4, <2>5, <2>6, <2>7, <2>8,
         <2>9, PoolStepKeeps
  <1> QED
    BY <1>13, <1>14

(* free_pool(): the loop finds the pool's predecessor, or goes on where it *)
(* is.                                                                     *)
LEMMA StepSearch ==
  ASSUME PoolInv, NEW t \in Threads, Search(t), ~UNCHANGED pvars
  PROVE  PoolInv'
  <1>t. /\ master \in [PageNums -> Masters \cup {None}] /\ plink \in [PageNums -> PageNums \cup {Nil}]
        /\ page \in [Threads -> PageNums \cup {Nil}] /\ mcount \in [Masters -> Nat]
        /\ pc \in [Threads -> Labels] /\ ret \in [Threads -> Labels]
    BY DEF PoolInv, Shapes
  <1>0. /\ pc[t] = "search"
        /\ UNCHANGED <<list, freeq, own, pools, hint, s_lock, refcnt, nfree, pfree, cnext, plocal>>
    BY DEF Search
  <1>v. mp' = mp /\ pool' = pool /\ lp' = lp /\ chunks' = chunks
    BY <1>0 DEF plocal
  <1>1. PICK p \in PageNums :
          /\ p = pool[t] /\ master[p] = mp[t] /\ lp[t] = pools[mp[t]] /\ lp[t] # p
          /\ hint[mp[t]] # p /\ InUse(p) = {}
    BY <1>0 DEF PoolInv, Searches
  <1>2. PICK m \in Masters : m = mp[t] /\ Inside(t) /\ s_lock[m] = t
    BY <1>0 DEF Inside, PoolInv, Calls, Call
  <1>3. PICK f : f = lp[t] /\ f # p /\ f = pools[m]
    BY <1>1, <1>2
  <1>4. /\ plink[f] = p
        /\ plink' = [plink EXCEPT ![f] = plink[p], ![p] = Nil]
        /\ mcount' = [mcount EXCEPT ![m] = @ - 1] /\ page' = [page EXCEPT ![t] = p]
        /\ pc' = [pc EXCEPT ![t] = "free"] /\ ret' = [ret EXCEPT ![t] = "unlock"]
        /\ master' = [master EXCEPT ![p] = None]
    <2>1. plink[f] = p \/ UNCHANGED <<plink, mcount, page, pc, ret, master>>
      BY <1>1, <1>3 DEF Search
    <2>2. ~UNCHANGED <<plink, mcount, page, pc, ret, master>>
      BY <1>0 DEF pvars, vars, local, masters, descs
    <2> QED
      BY <1>1, <1>2, <1>3, <2>1, <2>2 DEF Search, GiveUp, Goto
  <1>5. /\ IsChain(f, plink, Nil, Frames, Of(m)) /\ mcount[m] = Cardinality(Of(m))
        /\ hint[m] \in (Of(m) \cup {Nil}) \ {p} /\ p \in Of(m) /\ master[p] # None /\ p # Nil
    BY <1>1, <1>2, <1>3, PageFacts DEF PoolInv, PoolLists, PoolList, Of
  <1>6. f # Nil /\ f \in Of(m) /\ f \in PageNums
    BY <1>5, ChainFacts DEF Of
  <1>7. /\ plink'[f] = plink[p] /\ \A r \in PageNums \ {f, p} : plink'[r] = plink[r]
        /\ mcount'[m] = mcount[m] - 1 /\ \A n \in Masters \ {m} : mcount'[n] = mcount[n]
        /\ pc'[t] = "free" /\ ret'[t] = "unlock" /\ page'[t] = p /\ master'[p] = None
        /\ \A r \in PageNums \ {p} : master'[r] = master[r]
    BY <1>t, <1>3, <1>4, <1>6
  <1>8. OthersSame(t)
    BY <1>t, <1>0, <1>v, <1>4 DEF OthersSame
  <1>9. Apart' /\ Free' = Free
    <2>1. Handled(t)' = {p} /\ own'[t] = own[t] /\ Held(t)' = Held(t) \cup {p} /\ p \notin own[t]
      <3>1. Handled(t) = {}
        BY <1>0 DEF Handled
      <3>2. Handled(t)' = {p}
        BY <1>5, <1>7 DEF Handled
      <3> QED
        BY <1>0, <1>5, <3>1, <3>2 DEF Held, PoolInv, Apart
    <2>2. Handled(t)' \cap own'[t] = {} /\ Shapes /\ Apart
      BY <2>1 DEF PoolInv
    <2>3. master' = [master EXCEPT ![p] = None] /\ master[p] # None
      BY <1>4, <1>5
    <2> QED
      BY <1>8, <2>1, <2>2, <2>3, PoolIsGivenUp
  <1>10. IsFiniteSet(Of(m)) /\ Cardinality(Of(m) \ {p}) = Cardinality(Of(m)) - 1
         /\ Cardinality(Of(m) \ {p}) \in Nat
    <2>1. IsFiniteSet(Of(m))
      BY <1>5, ChainFacts
    <2>2. IsFiniteSet(Of(m) \ {p}) /\ Cardinality(Of(m) \ {p}) = Cardinality(Of(m)) - 1
      BY <1>5, <2>1, FS_RemoveElement
    <2> QED
      BY <2>1, <2>2, FS_CardinalityType
  <1>11. PoolList(m)'
    <2>1. Of(m)' = Of(m) \ {p}
      BY <1>2, <1>7, PageFacts DEF Of
    <2>2. IsChain(f, plink', Nil, Frames, Of(m) \ {p})
      <3>1. \A r \in Of(m) \ {f, p} : plink'[r] = plink[r]
        BY <1>7 DEF Of
      <3> QED
        BY ZenonT(60), <1>4, <1>5, <1>6, <1>7, <3>1, ChainSkip
    <2> QED
      BY <1>0, <1>3, <1>5, <1>7, <1>10, <2>1, <2>2 DEF PoolList
  <1>12. ChunkList(p)'
    BY <1>7 DEF ChunkList
  <1>13. Call(t)'
    BY <1>0, <1>v, <1>2, <1>5, <1>7 DEF Call
  <1>14. Shapes'
    <2>1. pc' \in [Threads -> Labels] /\ ret' \in [Threads -> Labels]
      BY <1>t, <1>4 DEF Labels
    <2>2. /\ page' \in [Threads -> PageNums \cup {Nil}] /\ plink' \in [PageNums -> PageNums \cup {Nil}]
          /\ master' \in [PageNums -> Masters \cup {None}]
      BY <1>t, <1>4
    <2>3. mcount' \in [Masters -> Nat]
      BY <1>t, <1>4, <1>5, <1>10
    <2> QED
      BY <1>0, <1>v, <2>1, <2>2, <2>3 DEF PoolInv, Shapes, list
  <1>15. /\ {master[p], master'[p]} \subseteq {m, None} /\ pool[t] = p
         /\ \A r \in PageNums : master[r] \in Masters \ {m} => plink'[r] = plink[r]
         /\ \A u \in Threads : \A d \in chunks'[u] : d[1] # p
    BY <1>v, <1>1, <1>2, <1>6, <1>7 DEF InUse, Of
  <1>16. \A n \in Masters \ {m} : /\ s_lock'[n] = s_lock[n] /\ mcount'[n] = mcount[n]
                                  /\ pools'[n] = pools[n] /\ hint'[n] = hint[n]
    BY <1>0, <1>7
  <1>17. \A r \in PageNums \ {p} :
           /\ master'[r] = master[r] /\ refcnt'[r] = refcnt[r] /\ nfree'[r] = nfree[r]
           /\ pfree'[r] = pfree[r] /\ cnext'[r] = cnext[r]
    BY <1>0, <1>7
  <1> QED
    BY <1>0, <1>v, <1>2, <1>7, <1>8, <1>9, <1>11, <1>12, <1>13, <1>14, <1>15, <1>16, <1>17,
       PoolStepKeeps

(* free_pool() gives its lock back.                                        *)
LEMMA StepFreedPool ==
  ASSUME PoolInv, NEW t \in Threads, FreedPool(t)
  PROVE  PoolInv'
  <1>0. /\ pc[t] = "unlock" /\ Leave(t)
        /\ UNCHANGED <<list, freeq, own, pools, hint, mcount, descs, chunks>>
    BY DEF FreedPool
  <1>d. /\ master' = master /\ refcnt' = refcnt /\ nfree' = nfree /\ pfree' = pfree
        /\ plink' = plink /\ cnext' = cnext
    BY <1>0 DEF descs
  <1>2. PICK m \in Masters : m = mp[t] /\ Inside(t)
    BY <1>0, AloneInside DEF Inside
  <1>8. /\ pc' \in [Threads -> Labels] /\ ret' \in [Threads -> Labels]
        /\ page' \in [Threads -> PageNums \cup {Nil}]
        /\ pool' \in [Threads -> PageNums \cup {Nil}] /\ lp' \in [Threads -> PageNums \cup {Nil}]
        /\ s_lock' \in [Masters -> Threads \cup {None}]
        /\ mp' \in [Threads -> Masters \cup {None}]
        /\ pc'[t] = "idle" /\ Call(t)' /\ Held(t)' = Held(t) /\ Handled(t)' = {}
        /\ \A n \in Masters \ {m} : s_lock'[n] = s_lock[n]
    BY <1>0, <1>2, LeaveFacts
  <1>9. OthersSame(t)
    BY <1>0, <1>2, LeaveFacts DEF OthersSame
  <1>10. Apart' /\ Free' = Free
    BY <1>d, <1>8, <1>9, NonePasses DEF PoolInv
  <1>11. PoolList(m)'
    BY <1>0, <1>d DEF PoolInv, PoolLists, PoolList, Of
  <1>12. Shapes'
    BY <1>0, <1>d, <1>8 DEF PoolInv, Shapes, list
  <1>13. Nil \notin PageNums
    BY PageFacts
  <1>14. \A n \in Masters \ {m} : /\ s_lock'[n] = s_lock[n] /\ mcount'[n] = mcount[n]
                                  /\ pools'[n] = pools[n] /\ hint'[n] = hint[n]
    BY <1>0, <1>8
  <1> QED
    BY <1>0, <1>d, <1>2, <1>8, <1>9, <1>10, <1>11, <1>12, <1>13, <1>14, PoolStepKeeps

(* new_pool() found no page.                                               *)
LEMMA StepNoPool ==
  ASSUME PoolInv, NEW t \in Threads, NoPool(t)
  PROVE  PoolInv'
  <1>t. /\ hint \in [Masters -> PageNums \cup {Nil}] /\ pc \in [Threads -> Labels]
        /\ s_lock \in [Masters -> Threads \cup {None}]
    BY DEF PoolInv, Shapes
  <1>0. /\ pc[t] = "newpool" /\ page[t] = Nil
        /\ pc' = [pc EXCEPT ![t] = "fault"]
        /\ UNCHANGED <<list, freeq, ret, page, own, pools, mcount, s_lock, descs, plocal>>
    BY DEF NoPool, Goto
  <1>d. /\ master' = master /\ refcnt' = refcnt /\ nfree' = nfree /\ pfree' = pfree
        /\ plink' = plink /\ cnext' = cnext
        /\ mp' = mp /\ pool' = pool /\ lp' = lp /\ chunks' = chunks
    BY <1>0 DEF descs, plocal
  <1>2. PICK m \in Masters : m = mp[t] /\ Inside(t) /\ s_lock[m] = t
    BY <1>0 DEF Inside, PoolInv, Calls, Call
  <1>3. hint' = [hint EXCEPT ![m] = Nil]
    BY <1>2 DEF NoPool
  <1>4. /\ pc'[t] = "fault" /\ OthersSame(t)
        /\ hint'[m] = Nil /\ \A n \in Masters \ {m} : hint'[n] = hint[n]
    BY <1>t, <1>0, <1>d, <1>3 DEF OthersSame
  <1>5. Apart' /\ Free' = Free
    <2>1. Handled(t)' = {} /\ Held(t)' = Held(t)
      BY <1>0, <1>4 DEF Held, Handled
    <2> QED
      BY <1>d, <1>4, <2>1, NonePasses DEF PoolInv
  <1>6. Call(t)'
    BY <1>0, <1>d, <1>2, <1>4 DEF Call
  <1>7. PoolList(m)'
    BY <1>0, <1>d, <1>4 DEF PoolInv, PoolLists, PoolList, Of
  <1>8. Shapes'
    <2>1. pc' \in [Threads -> Labels] /\ hint' \in [Masters -> PageNums \cup {Nil}]
      BY <1>t, <1>0, <1>3 DEF Labels
    <2> QED
      BY <1>0, <1>d, <2>1 DEF PoolInv, Shapes, list
  <1>9. Nil \notin PageNums
    BY PageFacts
  <1> QED
    BY <1>0, <1>d, <1>2, <1>4, <1>5, <1>6, <1>7, <1>8, <1>9, PoolStepKeeps

(* The chain that new_pool() writes has all chunks of the page.            *)
LEMMA NewChain ==
  ASSUME NEW m \in Masters, NEW link,
         \A i \in Chunks(m) : link[i] = IF i < PerPage[m] THEN i + 1 ELSE 0
  PROVE  IsChain(1, link, 0, Chunks(m), Chunks(m))
  <1>1. PICK n \in Nat \ {0} : n = PerPage[m] /\ Chunks(m) = 1 .. n
    BY ChunkFacts
  <1>2. PICK q : q = [i \in 1 .. n |-> i]
    OBVIOUS
  <1>3. /\ q \in Seq(1 .. n) /\ Len(q) = n /\ \A i \in 1 .. n : q[i] = i
    BY <1>2
  <1>4. Members(q) = 1 .. n /\ Distinct(q)
    BY <1>3 DEF Members, Distinct
  <1>5. IsList(q, 1, link, 0)
    <2>1. q # << >> /\ q[1] = 1
      BY <1>1, <1>3
    <2>2. ASSUME NEW i \in 1 .. n
          PROVE  q[i] # 0 /\ link[q[i]] = IF i = n THEN 0 ELSE q[i + 1]
      <3>1. q[i] = i /\ i # 0 /\ (i < n <=> i # n) /\ (i # n => i + 1 \in 1 .. n)
        BY <1>3
      <3>2. link[i] = IF i < n THEN i + 1 ELSE 0
        BY <1>1
      <3>3. i # n => q[i + 1] = i + 1
        BY <1>3, <3>1
      <3> QED
        BY <3>1, <3>2, <3>3
    <2> QED
      BY <1>3, <2>1, <2>2 DEF IsList
  <1> QED
    BY <1>1, <1>3, <1>4, <1>5 DEF IsChain

(* new_pool(): the page becomes a pool, with every chunk of it free.       *)
LEMMA StepNewPool ==
  ASSUME PoolInv, NEW t \in Threads, NewPool(t)
  PROVE  PoolInv'
  <1>t. /\ refcnt \in [PageNums -> {0} \cup ChunkNums] /\ nfree \in [PageNums -> {0} \cup ChunkNums]
        /\ pfree \in [PageNums -> {0} \cup ChunkNums]
        /\ cnext \in [PageNums -> [ChunkNums -> {0} \cup ChunkNums]]
        /\ master \in [PageNums -> Masters \cup {None}] /\ plink \in [PageNums -> PageNums \cup {Nil}]
        /\ {pools, hint} \subseteq [Masters -> PageNums \cup {Nil}]
        /\ s_lock \in [Masters -> Threads \cup {None}]
        /\ {page, pool} \subseteq [Threads -> PageNums \cup {Nil}]
        /\ pc \in [Threads -> Labels] /\ mcount \in [Masters -> Nat]
        /\ chunks \in [Threads -> SUBSET (PageNums \X ChunkNums)]
    BY DEF PoolInv, Shapes
  <1>1. pc[t] = "newpool" /\ page[t] # Nil
        /\ UNCHANGED <<list, freeq, ret, own, s_lock, mp, lp, chunks>>
    BY DEF NewPool
  <1>2. PICK m \in Masters : m = mp[t] /\ Inside(t) /\ s_lock[m] = t
    BY <1>1 DEF Inside, PoolInv, Calls, Call
  <1>3. PICK p \in PageNums : p = page[t] /\ p # Nil
    BY <1>t, <1>1
  <1>0. /\ master' = [master EXCEPT ![p] = m]
        /\ refcnt' = [refcnt EXCEPT ![p] = 0] /\ nfree' = [nfree EXCEPT ![p] = PerPage[m]]
        /\ pfree' = [pfree EXCEPT ![p] = 1]
        /\ cnext' = [cnext EXCEPT ![p] = [i \in ChunkNums |-> IF i < PerPage[m] THEN i + 1 ELSE 0]]
        /\ plink' = [plink EXCEPT ![p] = pools[m]]
        /\ pools' = [pools EXCEPT ![m] = p] /\ mcount' = [mcount EXCEPT ![m] = @ + 1]
        /\ hint' = [hint EXCEPT ![m] = p] /\ pool' = [pool EXCEPT ![t] = p]
        /\ page' = [page EXCEPT ![t] = Nil]
        /\ pc' = [pc EXCEPT ![t] = "take"]
    BY <1>2, <1>3 DEF NewPool, Goto
  <1>4. OthersSame(t)
    BY <1>t, <1>0, <1>1 DEF OthersSame
  <1>5. /\ pc'[t] = "take" /\ pool'[t] = p /\ mp'[t] = m /\ master'[p] = m
        /\ refcnt'[p] = 0 /\ nfree'[p] = PerPage[m] /\ pfree'[p] = 1
        /\ plink'[p] = pools[m] /\ pools'[m] = p /\ mcount'[m] = mcount[m] + 1 /\ hint'[m] = p
        /\ \A n \in Masters \ {m} : /\ s_lock'[n] = s_lock[n] /\ mcount'[n] = mcount[n]
                                    /\ pools'[n] = pools[n] /\ hint'[n] = hint[n]
        /\ \A r \in PageNums \ {p} :
             /\ master'[r] = master[r] /\ refcnt'[r] = refcnt[r] /\ nfree'[r] = nfree[r]
             /\ pfree'[r] = pfree[r] /\ cnext'[r] = cnext[r] /\ plink'[r] = plink[r]
    BY <1>t, <1>0, <1>1, <1>2
  <1>6. Apart' /\ Free' = Free /\ p \in Frames /\ master[p] = None
    <2>1. Handled(t) = {p} /\ Handled(t)' = {}
      BY <1>1, <1>3, <1>5 DEF Handled
    <2>2. p \in Held(t) /\ Held(t)' = Held(t) \ {p}
      BY <1>1, <2>1 DEF Held, PoolInv, Apart
    <2> QED
      BY <1>0, <1>4, <2>1, <2>2, PoolIsMade DEF PoolInv
  <1>7. PoolList(m)'
    <2>1. /\ IsChain(pools[m], plink, Nil, Frames, Of(m)) /\ mcount[m] = Cardinality(Of(m))
          /\ p \notin Of(m)
      BY <1>6, PageFacts DEF PoolInv, PoolLists, PoolList, Of
    <2>2. Of(m)' = Of(m) \cup {p}
      BY <1>5 DEF Of
    <2>3. IsChain(p, plink', Nil, Frames, Of(m) \cup {p})
      <3>1. \A r \in Of(m) : plink'[r] = plink[r]
        BY <1>5, <2>1 DEF Of
      <3> QED
        BY <1>3, <1>5, <1>6, <2>1, <3>1, ChainPush
    <2>4. IsFiniteSet(Of(m))
      BY <2>1, ChainFacts
    <2>5. Cardinality(Of(m) \cup {p}) = Cardinality(Of(m)) + 1
      BY <2>1, <2>4, FS_AddElement
    <2> QED
      BY <1>5, <2>1, <2>2, <2>3, <2>5 DEF PoolList
  <1>8. InUse(p)' = {}
    BY <1>1, <1>6 DEF InUse, PoolInv, ChunkLists
  <1>9. Left(p)' = Chunks(m)
    <2>1. Numbers(p)' = {}
      BY <1>8 DEF Numbers
    <2> QED
      BY <1>5, <2>1 DEF Left
  <1>10. ChunkList(p)'
    <2>1. IsChain(1, cnext'[p], 0, Chunks(m), Chunks(m))
      <3>1. \A i \in Chunks(m) : cnext'[p][i] = IF i < PerPage[m] THEN i + 1 ELSE 0
        BY <1>t, <1>0, ChunkFacts
      <3> QED
        BY <3>1, NewChain
    <2>2. Cardinality(Chunks(m)) = PerPage[m] /\ PerPage[m] \in Nat /\ Cardinality({}) = 0
      BY ChunkFacts, FS_EmptySet
    <2>3. Fresh(p)'
      BY <1>5 DEF Fresh
    <2> QED
      BY <1>5, <1>8, <1>9, <2>1, <2>2, <2>3 DEF ChunkList
  <1>11. Call(t)'
    BY <1>1, <1>2, <1>5 DEF Call
  <1>12. Shapes'
    <2>1. 1 \in ChunkNums /\ PerPage[m] \in ChunkNums
      <3>1. 1 \in 1 .. PerPage[m] /\ PerPage[m] \in 1 .. PerPage[m]
        BY ChunkFacts
      <3> QED
        BY <3>1, ChunkFacts
    <2>2. {refcnt', nfree', pfree'} \subseteq [PageNums -> {0} \cup ChunkNums]
      <3>1. refcnt' \in [PageNums -> {0} \cup ChunkNums]
        BY <1>t, <1>0
      <3>2. nfree' \in [PageNums -> {0} \cup ChunkNums]
        BY <1>t, <1>0, <2>1
      <3>3. pfree' \in [PageNums -> {0} \cup ChunkNums]
        BY <1>t, <1>0, <2>1
      <3> QED
        BY <3>1, <3>2, <3>3
    <2>3. cnext' \in [PageNums -> [ChunkNums -> {0} \cup ChunkNums]]
      <3>1. ASSUME NEW i \in ChunkNums
            PROVE  (IF i < PerPage[m] THEN i + 1 ELSE 0) \in {0} \cup ChunkNums
        <4>1. i \in Nat /\ i > 0
          BY ChunkFacts
        <4>2. i < PerPage[m] => i + 1 \in 1 .. PerPage[m]
          BY <4>1, ChunkFacts
        <4> QED
          BY <4>2, ChunkFacts
      <3>2. [i \in ChunkNums |-> IF i < PerPage[m] THEN i + 1 ELSE 0]
              \in [ChunkNums -> {0} \cup ChunkNums]
        BY <3>1
      <3> QED
        BY <1>t, <1>0, <3>2
    <2>4. /\ master' \in [PageNums -> Masters \cup {None}]
          /\ page' \in [Threads -> PageNums \cup {Nil}] /\ pool' \in [Threads -> PageNums \cup {Nil}]
      BY <1>t, <1>0
    <2>5. /\ pools' \in [Masters -> PageNums \cup {Nil}] /\ hint' \in [Masters -> PageNums \cup {Nil}]
          /\ mcount' \in [Masters -> Nat]
      BY <1>t, <1>0
    <2>6. plink' \in [PageNums -> PageNums \cup {Nil}]
      <3>1. pools[m] \in PageNums \cup {Nil}
        BY <1>t
      <3> QED
        BY <1>t, <1>0, <3>1
    <2>7. pc' \in [Threads -> Labels]
      BY <1>t, <1>0 DEF Labels
    <2> QED
      BY <1>1, <2>2, <2>3, <2>4, <2>5, <2>6, <2>7 DEF PoolInv, Shapes, list
  <1>13. /\ {master[p], master'[p]} \subseteq {m, None}
         /\ \A r \in PageNums : master[r] \in Masters \ {m} => plink'[r] = plink[r]
         /\ \A u \in Threads : \A d \in chunks'[u] : d[1] # p
         /\ pfree'[p] # 0 /\ chunks' = chunks
    BY <1>1, <1>5, <1>6, <1>8, PageFacts DEF InUse
  <1> QED
    BY <1>1, <1>2, <1>4, <1>5, <1>6, <1>7, <1>10, <1>11, <1>12, <1>13, PoolStepKeeps

-----------------------------------------------------------------------------
(* Nothing of a stuttering step is seen.                                   *)
LEMMA StutterKeeps ==
  ASSUME PoolInv, UNCHANGED pvars
  PROVE  PoolInv'
  <1>1. /\ flags' = flags /\ next' = next /\ free_pages' = free_pages /\ free_count' = free_count
        /\ freeq' = freeq /\ pc' = pc /\ ret' = ret /\ page' = page /\ own' = own
        /\ pools' = pools /\ hint' = hint /\ mcount' = mcount /\ s_lock' = s_lock
        /\ master' = master /\ refcnt' = refcnt /\ nfree' = nfree /\ pfree' = pfree
        /\ plink' = plink /\ cnext' = cnext
        /\ mp' = mp /\ pool' = pool /\ lp' = lp /\ chunks' = chunks
    BY DEF pvars, vars, list, local, masters, descs, plocal
  <1>2. \A t : Held(t)' = Held(t) /\ Handled(t)' = Handled(t)
    BY <1>1 DEF Held, Handled
  <1>3. Free' = Free /\ \A m : Of(m)' = Of(m)
    BY <1>1, <1>2 DEF Free, Of
  <1>4. \A p : InUse(p)' = InUse(p) /\ (Leaving(p)' <=> Leaving(p)) /\ (Fresh(p)' <=> Fresh(p))
    BY <1>1 DEF InUse, Leaving, Fresh
  <1>5. \A p : Left(p)' = Left(p)
    BY <1>1, <1>4 DEF Left, Numbers
  <1>6. Shapes'
    BY <1>1 DEF PoolInv, Shapes
  <1>7. Calls' /\ Searches'
    BY <1>1, <1>4 DEF PoolInv, Calls, Call, Inside, Searches
  <1>8. Apart' /\ PageList'
    BY <1>1, <1>2, <1>3 DEF PoolInv, Apart, PageList
  <1>9. PoolLists'
    BY <1>1, <1>3 DEF PoolInv, PoolLists, PoolList
  <1>10. ChunkLists'
    BY <1>1, <1>4, <1>5 DEF PoolInv, ChunkLists, ChunkList
  <1> QED
    BY <1>6, <1>7, <1>8, <1>9, <1>10 DEF PoolInv

(* Each step keeps the invariant.                                          *)
LEMMA PoolInvKept == PoolInv /\ [PNext]_pvars => PoolInv'
  <1> SUFFICES ASSUME PoolInv, [PNext]_pvars PROVE PoolInv'
    OBVIOUS
  <1>1. CASE UNCHANGED pvars
    BY <1>1, StutterKeeps
  <1>2. CASE ~UNCHANGED pvars
    <2>1. PICK t \in Threads :
            \/ PoolStep(t)
            \/ (PageStep(t) \/ Use(t)) /\ UNCHANGED <<masters, descs, plocal>>
      BY <1>2 DEF PNext
    <2>2. CASE PoolStep(t)
      <3>1. CASE \E m \in Masters : AllocPool(t, m)
        BY <3>1, StepAllocPool
      <3>2. CASE \E c \in chunks[t] : FreeChunk(t, c) \/ FreeLastChunk(t, c)
        BY <3>2, StepFreeChunk, StepFreeLastChunk
      <3>3. CASE NewPool(t) \/ NoPool(t) \/ TakeChunk(t)
        BY <3>3, StepNewPool, StepNoPool, StepTakeChunk
      <3>4. CASE Search(t) \/ FreedPool(t)
        BY <1>2, <3>4, StepSearch, StepFreedPool
      <3> QED
        BY <2>2, <3>1, <3>2, <3>3, <3>4 DEF PoolStep
    <2>3. CASE PageStep(t) /\ UNCHANGED <<masters, descs, plocal>>
      BY <2>3, StepAllocPage, StepPopPage, StepMarkPage, StepFreePage, StepPushPage DEF PageStep
    <2>4. CASE Use(t) /\ UNCHANGED <<masters, descs, plocal>>
      BY <2>4, StepUse
    <2> QED
      BY <2>1, <2>2, <2>3, <2>4
  <1> QED
    BY <1>1, <1>2

(* The invariant, for any threads, masters, memory and sizes of chunks.    *)
THEOREM PoolInvariant == PSpec => []PoolInv
  BY InitPoolInv, PoolInvKept, PTL DEF PSpec

(* alloc_page() gives no page out twice, and the list, the flags and the   *)
(* count agree while freeq_lock is free (page.c:288-356).                  *)
THEOREM PagesStaySound == PSpec => []PagesSound
  BY PoolInvariant, InvIsSound, PTL

(* Pages change hands between the page list, the pools and the threads     *)
(* without one being lost or had twice (pool.c:43-111, 157-232).           *)
THEOREM PoolsStaySound == PSpec => []PoolsSound
  BY PoolInvariant, InvIsSound, PTL

(* A chunk is one thread's, no pool is given up with a chunk in use, and a *)
(* pool's counts and free chain tell what is left of it (pool.c:113-188).  *)
THEOREM ChunksStaySound == PSpec => []ChunksSound
  BY PoolInvariant, InvIsSound, PTL

(* The hint never names a page that was given up (pool.c:198-199).         *)
THEOREM HintStaysLinked == PSpec => []HintLinked
  BY PoolInvariant, InvIsSound, PTL
=============================================================================
