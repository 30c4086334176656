------------------------------ MODULE VmProofs ------------------------------
(***************************************************************************)
(* What the run of Vm shows of its instance, proved for every number of    *)
(* boot modules, images that lie apart, sizes of memory and of tables:     *)
(* regions stay apart, every page has exactly one use, a translation that  *)
(* is there stays, a process sees its own pages, and the reserved cache    *)
(* finds what is in use by it.                                             *)
(***************************************************************************)
EXTENDS Vm, Chains

-----------------------------------------------------------------------------
(* The constants, as numbers.                                              *)
LEMMA VmNumbers ==
  /\ NBoot \in Nat /\ NPTE \in Nat /\ NPTE > 0 /\ MemPages \in Nat /\ TopMemory \in Nat
  /\ TopMemory > 0 /\ EarlyPages \in Nat /\ USER_BASE \in Nat /\ VideoPage \in Nat
  /\ VideoPage # None /\ MAX_STACK \in Nat /\ KernStart \in Nat /\ KernStart > 1
  /\ VA_USER_VIDEO \in Nat /\ MemPages < USER_BASE /\ USER_BASE % NPTE = 0
  /\ USER_BASE <= VA_USER_VIDEO /\ VA_USER_VIDEO + MAX_STACK <= VaTop
  /\ VaTop \in Int /\ MAX_STACK > 0
  <1>1. NPTE \in Nat /\ NPTE * NPTE \in Nat
    BY VmAssumption
  <1>2. VaTop \in Int
    BY <1>1 DEF VaTop
  <1> QED
    BY <1>2, VmAssumption DEF None

(* v is at a place of its own in the directory and a table.                *)
LEMMA SlotIs ==
  ASSUME NEW v \in 0 .. VaTop
  PROVE  /\ va2ipd(v) \in Index /\ va2ipt(v) \in Index
         /\ v = va2ipd(v) * NPTE + va2ipt(v)
  <1>0. NPTE \in Nat /\ NPTE > 0 /\ VaTop \in Int /\ v \in Nat
    BY VmNumbers
  <1>1. PICK q \in Nat : q = v \div NPTE
    BY <1>0
  <1>2. PICK r \in 0 .. NPTE - 1 : r = v % NPTE
    BY <1>0
  <1>3. v % NPTE = v - NPTE * (v \div NPTE)
    BY <1>0
  <1>4. v = q * NPTE + r
    BY <1>0, <1>1, <1>2, <1>3
  <1>5. v < NPTE * NPTE
    <2>1. NPTE * NPTE \in Nat /\ VaTop = NPTE * NPTE - 1
      BY <1>0 DEF VaTop
    <2> QED
      BY <1>0, <2>1
  <1>6. q < NPTE
    <2> SUFFICES ASSUME q >= NPTE PROVE FALSE
      BY <1>0, <1>1
    <2>1. q * NPTE >= NPTE * NPTE
      BY <1>0, <1>1
    <2> QED
      BY <1>0, <1>1, <1>2, <1>4, <1>5, <2>1
  <1> QED
    BY <1>0, <1>1, <1>2, <1>4, <1>6 DEF va2ipd, va2ipt, Index

(* Different addresses are at different places.                            *)
LEMMA SlotsDiffer ==
  ASSUME NEW v \in 0 .. VaTop, NEW w \in 0 .. VaTop,
         va2ipd(v) = va2ipd(w), va2ipt(v) = va2ipt(w)
  PROVE  v = w
  BY SlotIs

(* The kernel's tables end below the user's addresses.                     *)
LEMMA KernelBelow ==
  /\ va2ipd(MemPages) \in Nat /\ KernTables \subseteq Index
  /\ \A v \in USER_BASE .. VaTop : v \in 0 .. VaTop /\ va2ipd(v) \in Index \ KernTables
  <1>0. /\ NPTE \in Nat /\ NPTE > 0 /\ VaTop \in Int /\ MemPages \in 0 .. VaTop
        /\ USER_BASE \in 0 .. VaTop /\ MemPages < USER_BASE
    BY VmNumbers
  <1>1. PICK m \in Index, i \in Index : m = va2ipd(MemPages) /\ MemPages = m * NPTE + i
    BY <1>0, SlotIs
  <1>2. PICK k \in Index : k = va2ipd(USER_BASE) /\ USER_BASE = k * NPTE
    <2>1. va2ipt(USER_BASE) = 0
      BY VmNumbers DEF va2ipt
    <2>2. PICK k \in Index : k = va2ipd(USER_BASE) /\ USER_BASE = k * NPTE + 0
      BY <1>0, <2>1, SlotIs
    <2> QED
      BY <1>0, <2>2 DEF Index
  <1>3. m \in Nat /\ i \in Nat /\ k \in Nat /\ m < NPTE
    BY <1>0, <1>1, <1>2 DEF Index
  <1>4. m < k
    <2> SUFFICES ASSUME m >= k PROVE FALSE
      BY <1>3
    <2>1. m * NPTE >= k * NPTE
      BY <1>0, <1>3
    <2>2. m * NPTE \in Nat /\ k * NPTE \in Nat
      BY <1>0, <1>3
    <2> QED
      BY <1>0, <1>1, <1>2, <1>3, <2>1, <2>2
  <1>5. ASSUME NEW v \in USER_BASE .. VaTop
        PROVE  v \in 0 .. VaTop /\ va2ipd(v) \in Index /\ va2ipd(v) >= k
    <2>1. v \in 0 .. VaTop /\ v >= USER_BASE
      BY <1>0
    <2>2. PICK d \in Index, j \in Index : d = va2ipd(v) /\ v = d * NPTE + j
      BY <2>1, SlotIs
    <2>3. d \in Nat /\ j \in Nat /\ j < NPTE
      BY <1>0, <2>2 DEF Index
    <2>4. d >= k
      <3> SUFFICES ASSUME d + 1 <= k PROVE FALSE
        BY <1>3, <2>3
      <3>1. (d + 1) * NPTE <= k * NPTE
        BY <1>0, <1>3, <2>3
      <3>2. (d + 1) * NPTE = d * NPTE + NPTE
        BY <1>0, <2>3
      <3>3. d * NPTE \in Nat /\ k * NPTE \in Nat
        BY <1>0, <1>3, <2>3
      <3> QED
        BY <1>0, <1>2, <2>1, <2>2, <2>3, <3>1, <3>2, <3>3
    <2> QED
      BY <2>1, <2>2, <2>4
  <1>6. KernTables = 0 .. m
    BY <1>1 DEF KernTables
  <1>7. KernTables \subseteq Index
    BY <1>0, <1>3, <1>6 DEF Index
  <1>8. ASSUME NEW v \in USER_BASE .. VaTop
        PROVE  v \in 0 .. VaTop /\ va2ipd(v) \in Index \ KernTables
    <2>1. va2ipd(v) >= k /\ va2ipd(v) \in Index /\ v \in 0 .. VaTop
      BY <1>5
    <2>2. va2ipd(v) \in Nat
      BY <1>0, <2>1 DEF Index
    <2> QED
      BY <1>3, <1>4, <1>6, <2>1, <2>2
  <1> QED
    BY <1>1, <1>3, <1>7, <1>8

-----------------------------------------------------------------------------
(* Regions.                                                                *)
Region == [start : Int, size : Int]

(* The list is in order, and no region reaches into the next.              *)
Apart(l) == \A i \in 1 .. Len(l) - 1 : l[i].start + l[i].size <= l[i + 1].start

(* Two sequences one after the other.                                      *)
LEMMA JoinIs ==
  ASSUME NEW S, NEW a \in Seq(S), NEW b \in Seq(S)
  PROVE  /\ a \o b \in Seq(S) /\ Len(a \o b) = Len(a) + Len(b)
         /\ \A k \in 1 .. Len(a) + Len(b) :
              (a \o b)[k] = IF k <= Len(a) THEN a[k] ELSE b[k - Len(a)]
  OBVIOUS

(* A region that comes into the list somewhere.                            *)
LEMMA InsertIs ==
  ASSUME NEW S, NEW l \in Seq(S), NEW i \in 1 .. Len(l), NEW e \in S
  PROVE  /\ InsertAt(l, i, e) \in Seq(S) /\ Len(InsertAt(l, i, e)) = Len(l) + 1
         /\ \A k \in 1 .. Len(l) + 1 :
              InsertAt(l, i, e)[k] = IF k < i THEN l[k] ELSE IF k = i THEN e ELSE l[k - 1]
  <1> DEFINE a == SubSeq(l, 1, i - 1)
             b == SubSeq(l, i, Len(l))
  <1>0. Len(l) \in Nat /\ i \in Nat /\ i >= 1 /\ i <= Len(l)
    OBVIOUS
  <1>1. /\ a \in Seq(S) /\ Len(a) = i - 1 /\ \A k \in 1 .. i - 1 : a[k] = l[k]
    BY <1>0
  <1>2. /\ b \in Seq(S) /\ Len(b) = Len(l) - i + 1
        /\ \A k \in 1 .. Len(l) - i + 1 : b[k] = l[i + k - 1]
    BY <1>0
  <1>3. InsertAt(l, i, e) = a \o <<e>> \o b
    BY DEF InsertAt
  <1> HIDE DEF a, b
  <1> DEFINE m == a \o <<e>>
  <1>4. /\ m \in Seq(S) /\ Len(m) = i
        /\ \A k \in 1 .. i : m[k] = IF k < i THEN l[k] ELSE e
    BY <1>0, <1>1
  <1> HIDE DEF m
  <1>5. /\ m \o b \in Seq(S) /\ Len(m \o b) = Len(l) + 1
        /\ \A k \in 1 .. Len(l) + 1 : (m \o b)[k] = IF k <= i THEN m[k] ELSE b[k - i]
    <2>1. /\ m \o b \in Seq(S) /\ Len(m \o b) = Len(m) + Len(b)
          /\ \A k \in 1 .. Len(m) + Len(b) : (m \o b)[k] = IF k <= Len(m) THEN m[k] ELSE b[k - Len(m)]
      <3>1. m \in Seq(S) /\ b \in Seq(S)
        BY <1>2, <1>4
      <3> QED
        BY ONLY <3>1, JoinIs
    <2>2. Len(m) + Len(b) = Len(l) + 1
      BY <1>0, <1>2, <1>4
    <2> QED
      BY <1>4, <2>1, <2>2
  <1>6. InsertAt(l, i, e) = m \o b
    BY <1>3 DEF m
  <1>7. ASSUME NEW k \in 1 .. Len(l) + 1
        PROVE  (m \o b)[k] = IF k < i THEN l[k] ELSE IF k = i THEN e ELSE l[k - 1]
    <2>1. CASE k <= i
      BY <1>0, <1>4, <1>5, <2>1
    <2>2. CASE k > i
      <3>1. k - i \in 1 .. Len(l) - i + 1 /\ i + (k - i) - 1 = k - 1
        BY <1>0, <2>2
      <3> QED
        BY <1>0, <1>2, <1>5, <2>2, <3>1
    <2>3. k <= i \/ k > i
      BY <1>0
    <2> QED
      BY ONLY <2>1, <2>2, <2>3
  <1> QED
    BY <1>5, <1>6, <1>7

(* region_create(): the list stays apart whatever is asked for, and loses  *)
(* none of its regions.                                                    *)
LEMMA RegionCreateIs ==
  ASSUME NEW l \in Seq(Region), NEW start \in Int, NEW size \in Int, Apart(l),
         NEW r, r = RegionCreate(l, start, size)
  PROVE  /\ r \in Seq(Region) /\ Apart(r) /\ Members(l) \subseteq Members(r)
         /\ Members(r) \subseteq Members(l) \cup {[start |-> start, size |-> size]}
  <1> DEFINE rg == [start |-> start, size |-> size]
             behind == Behind(l, start)
             i == Min(behind)
             prev == IF behind = {} \/ i = 1 THEN l[Len(l)] ELSE l[i - 1]
  <1>0. /\ Len(l) \in Nat /\ DOMAIN l = 1 .. Len(l) /\ rg \in Region
        /\ rg.start = start /\ rg.size = size
        /\ \A k \in 1 .. Len(l) : l[k].start \in Int /\ l[k].size \in Int
    <2>1. \A k \in 1 .. Len(l) : l[k] \in Region
      OBVIOUS
    <2>2. rg \in Region /\ \A x \in Region : x.start \in Int /\ x.size \in Int
      BY DEF Region
    <2> QED
      BY <2>1, <2>2
  <1>1. r = IF l = << >> THEN << rg >>
            ELSE IF behind = {}
            THEN IF prev.start + prev.size > start THEN l ELSE Append(l, rg)
            ELSE IF start + size > l[i].start
                    \/ (Len(l) > 1 /\ prev.start + prev.size > start)
                 THEN l ELSE InsertAt(l, i, rg)
    BY ZenonT(60) DEF RegionCreate
  <1>2. CASE r = l
    BY <1>2
  <1>3. CASE l = << >> /\ r = << rg >>
    <2> HIDE DEF rg
    <2>0. DOMAIN l = {}
      BY <1>3
    <2>1. r \in Seq(Region) /\ Len(r) = 1 /\ DOMAIN r = 1 .. 1 /\ r[1] = rg /\ DOMAIN l = {}
      BY ONLY <1>0, <1>3, <2>0
    <2>2. Members(l) = {} /\ Members(r) = {rg} /\ Apart(r)
      BY <2>1 DEF Apart, Members
    <2> QED
      BY <2>1, <2>2 DEF rg
  <1>4. CASE l # << >> /\ behind = {} /\ ~(prev.start + prev.size > start) /\ r = Append(l, rg)
    <2>1. Len(l) \in 1 .. Len(l) /\ l[Len(l)].start + l[Len(l)].size <= start
      BY <1>0, <1>4
    <2>2. /\ r \in Seq(Region) /\ Len(r) = Len(l) + 1 /\ r[Len(l) + 1] = rg
          /\ \A k \in 1 .. Len(l) : r[k] = l[k]
      BY <1>0, <1>4
    <2> HIDE DEF rg
    <2>3. Apart(r)
      <3> SUFFICES ASSUME NEW k \in 1 .. Len(l) PROVE r[k].start + r[k].size <= r[k + 1].start
        BY <2>2 DEF Apart
      <3>1. CASE k = Len(l)
        BY <1>0, <2>1, <2>2, <3>1
      <3>2. CASE k # Len(l)
        <4>1. k \in 1 .. Len(l) - 1 /\ r[k] = l[k] /\ r[k + 1] = l[k + 1]
          BY <1>0, <2>2, <3>2
        <4> QED
          BY <4>1 DEF Apart
      <3> QED
        BY <3>1, <3>2
    <2>4. Members(l) \subseteq Members(r) /\ Members(r) \subseteq Members(l) \cup {rg}
      BY SMTT(60), <1>0, <2>2 DEF Members
    <2> QED
      BY <2>2, <2>3, <2>4 DEF rg
  <1>5. CASE /\ l # << >> /\ behind # {} /\ ~(start + size > l[i].start)
             /\ ~(Len(l) > 1 /\ prev.start + prev.size > start)
             /\ r = InsertAt(l, i, rg)
    <2>1. behind \in SUBSET Nat
      BY <1>0 DEF Behind
    <2>2. \E j \in behind : \A k \in behind : j <= k
      <3> HIDE DEF behind
      <3> QED
        BY <1>5, <2>1, LeastNat
    <2>3. i \in behind /\ \A k \in behind : i <= k
      BY <2>2 DEF Min
    <2>4. i \in 1 .. Len(l) /\ start + size <= l[i].start
      BY SMTT(60), <1>0, <1>5, <2>3 DEF Behind
    <2>5. i > 1 => l[i - 1].start + l[i - 1].size <= start
      <3> SUFFICES ASSUME i > 1 PROVE l[i - 1].start + l[i - 1].size <= start
        OBVIOUS
      <3>1. prev = l[i - 1] /\ i - 1 \in 1 .. Len(l) /\ Len(l) > 1
        <4>1. prev = l[i - 1]
          BY <1>5
        <4> HIDE DEF i, prev
        <4> QED
          BY <1>0, <2>4, <4>1
      <3>2. ~(prev.start + prev.size > start)
        BY <1>5, <3>1
      <3> HIDE DEF prev, i, behind
      <3> QED
        BY <1>0, <3>1, <3>2
    <2> HIDE DEF i, rg, behind, prev
    <2>0. r = InsertAt(l, i, rg)
      BY <1>5
    <2>6. /\ r \in Seq(Region) /\ Len(r) = Len(l) + 1
          /\ \A k \in 1 .. Len(l) + 1 :
               r[k] = IF k < i THEN l[k] ELSE IF k = i THEN rg ELSE l[k - 1]
      <3>1. l \in Seq(Region) /\ i \in 1 .. Len(l) /\ rg \in Region
        BY <1>0, <2>4
      <3>2. /\ InsertAt(l, i, rg) \in Seq(Region) /\ Len(InsertAt(l, i, rg)) = Len(l) + 1
            /\ \A k \in 1 .. Len(l) + 1 :
                 InsertAt(l, i, rg)[k] =
                   IF k < i THEN l[k] ELSE IF k = i THEN rg ELSE l[k - 1]
        BY ONLY <3>1, InsertIs
      <3> QED
        BY ONLY <2>0, <3>2
    <2>7. ASSUME NEW k \in 1 .. Len(r) - 1
          PROVE  r[k].start + r[k].size <= r[k + 1].start
      <3>1. CASE k + 1 < i
        <4>1. r[k] = l[k] /\ r[k + 1] = l[k + 1] /\ k \in 1 .. Len(l) - 1
          BY <1>0, <2>4, <2>6, <3>1
        <4> QED
          BY <4>1 DEF Apart
      <3>2. CASE k + 1 = i
        BY <1>0, <2>4, <2>5, <2>6, <3>2
      <3>3. CASE k = i
        BY SMTT(60), <1>0, <2>4, <2>6, <3>3
      <3>4. CASE k > i
        <4>1. r[k] = l[k - 1] /\ r[k + 1] = l[k] /\ k - 1 \in 1 .. Len(l) - 1 /\ k - 1 + 1 = k
          BY <1>0, <2>4, <2>6, <3>4
        <4> QED
          BY <4>1 DEF Apart
      <3> QED
        BY <1>0, <2>4, <3>1, <3>2, <3>3, <3>4
    <2>8. Members(l) \subseteq Members(r)
      <3> SUFFICES ASSUME NEW k \in 1 .. Len(l) PROVE l[k] \in Members(r)
        BY <1>0 DEF Members
      <3>1. DOMAIN r = 1 .. Len(l) + 1
        BY <2>6
      <3>2. CASE k < i
        BY <1>0, <2>6, <3>1, <3>2 DEF Members
      <3>3. CASE k >= i
        <4>1. k + 1 \in DOMAIN r /\ r[k + 1] = l[k]
          BY <1>0, <2>4, <2>6, <3>1, <3>3
        <4> QED
          BY <4>1 DEF Members
      <3> QED
        BY <1>0, <2>4, <3>2, <3>3
    <2>9. Members(r) \subseteq Members(l) \cup {rg}
      <3> SUFFICES ASSUME NEW k \in 1 .. Len(l) + 1 PROVE r[k] \in Members(l) \cup {rg}
        BY <1>0, <2>6 DEF Members
      <3>1. k < i => l[k] \in Members(l)
        BY <1>0, <2>4 DEF Members
      <3>2. k > i => k - 1 \in DOMAIN l
        BY <1>0, <2>4
      <3>3. k > i => l[k - 1] \in Members(l)
        BY <3>2 DEF Members
      <3>4. k < i \/ k = i \/ k > i
        BY <2>4
      <3> QED
        BY <2>4, <2>6, <3>1, <3>3, <3>4
    <2> QED
      BY <2>6, <2>7, <2>8, <2>9 DEF Apart, rg
  <1> QED
    BY <1>1, <1>2, <1>3, <1>4, <1>5

(* A region that starts behind all others comes last, or not at all.       *)
LEMMA RegionLast ==
  ASSUME NEW l \in Seq(Region), NEW start \in Int, NEW size \in Int, l # << >>,
         \A k \in 1 .. Len(l) : l[k].start <= start
  PROVE  RegionCreate(l, start, size) =
           IF l[Len(l)].start + l[Len(l)].size > start THEN l
           ELSE Append(l, [start |-> start, size |-> size])
  <1>1. ASSUME NEW k \in DOMAIN l PROVE ~(l[k].start > start)
    <2>1. l[k] \in Region /\ l[k].start <= start
      OBVIOUS
    <2> QED
      BY <2>1 DEF Region
  <1>2. Behind(l, start) = {}
    BY <1>1 DEF Behind
  <1> QED
    BY ZenonT(60), <1>2 DEF RegionCreate

-----------------------------------------------------------------------------
(* Who has a page; the parts of Uses but for the free pages.               *)
UserPages == USER_BASE .. VaTop

Directories ==
  {<<pa_pd[h], "directory", h>> : h \in {g \in Hats : pa_pd[g] # None}}
KernelTables == {<<KernTable(d), "kernel table", d>> : d \in KernTables}
Tables ==
  {<<pd[x[1]][x[2]], "table", x>> :
     x \in {y \in Procs \X (Index \ KernTables) : pd[y[1]][y[2]] # None}}
MappedPages == {<<Pte(pv[1], pv[2]), "mapped", pv>> : pv \in Mapped}
Faulting == {<<new[p], "fault", p>> : p \in {q \in Procs : new[q] # None}}
Stacks == {<<kstack[p], "stack", p>> : p \in {q \in Procs : kstack[q] # None}}
Committed == {<<lnew, "commit", c>> : x \in {lnew} \ {None}}
Unread ==
  UNION {{<<f, "image", p>> :
            f \in (IF p = c /\ lpc = "reclaim" THEN lva ELSE Images[p].first)
                  .. Images[p].last} :
           p \in {q \in Procs : q > c \/ (q = c /\ lpc # "thread") \/ ~Recognized(Images[q])}}

Owners ==
  Directories \cup KernelTables \cup Tables \cup MappedPages \cup Faulting \cup Stacks
    \cup Committed \cup Unread

InUse == {u[1] : u \in Owners}

PoolPages  == (TopMemory .. MemPages - 1) \ (FirstFree - EarlyPages .. FirstFree - 1)
ImagePages == UNION {Images[p].first .. Images[p].last : p \in Procs}

(* Each page is free, once, or has one owner.                              *)
FrameInv ==
  /\ free \in Seq(Frames) /\ Distinct(free)
  /\ \A u, w \in Owners : u[1] = w[1] => u = w
  /\ InUse \cap Members(free) = {}
  /\ PoolPages \subseteq Members(free) \cup InUse
  /\ Members(free) \cup InUse \subseteq PoolPages \cup ImagePages

(* A directory begins with the kernel's tables.                            *)
HatInv ==
  /\ pa_pd \in [Hats -> Frames] /\ pa_pd[0] # None
  /\ pd \in [Hats -> [Index -> Frames]] /\ pd[0] = KernPd
  /\ pt \in [Frames -> [Index -> Int]]
  /\ \A p \in Procs :
       IF pa_pd[p] = None THEN pd[p] = Zero
       ELSE \A d \in KernTables : pd[p][d] = KernTable(d)

(* How far create_bootproc() has come.                                     *)
StageInv ==
  /\ lpc \in {"proc", "regions", "video", "commit", "insert", "copy", "reclaim", "thread"}
  /\ c \in Nat \ {0} /\ lva \in Nat /\ lnew \in Frames
  /\ lpc = "insert" <=> lnew # None
  /\ lpc # "proc" => c \in Procs /\ Recognized(Images[c]) /\ pa_pd[c] # None
  /\ lpc = "reclaim" => lva \in Images[c].first .. Images[c].last
  /\ \A p \in Procs :
       /\ p > c \/ (p = c /\ lpc = "proc") => pa_pd[p] = None /\ rg_list[p] = << >>
       /\ p >= c => state[p] = "none"

Text(p) == [start |-> ExecHeader(Images[p]).text, size |-> ExecHeader(Images[p]).tsize]
Data(p) == [start |-> ExecHeader(Images[p]).data, size |-> ExecHeader(Images[p]).dsize]
Loaded(p) == {v \in UserPages : Within(Text(p), v) \/ Within(Data(p), v)}

(* The data have a region, behind that of the text.                        *)
HasData(p) == Data(p) \in Members(rg_list[p]) /\ Text(p).start + Text(p).size <= Data(p).start

(* What has been mapped for p while it is being created.                   *)
Loading(p) ==
  /\ lpc \in {"regions", "video"} => \A v \in UserPages : Pte(p, v) = None
  /\ lpc = "regions" => rg_list[p] = << >>
  /\ lpc # "regions" =>
       /\ Text(p) \in Members(rg_list[p])
       /\ \A rg \in Members(rg_list[p]) : rg.start = Data(p).start => HasData(p)
  /\ lpc \notin {"regions", "video"} => Pte(p, VA_USER_VIDEO) = VideoPage
  /\ lpc \in {"commit", "insert"} /\ ~hung =>
       /\ Within(Text(p), lva) \/ (HasData(p) /\ Within(Data(p), lva))
       /\ \A v \in UserPages \ {VA_USER_VIDEO} : v >= lva => Pte(p, v) = None
  /\ lpc \in {"reclaim", "thread"} /\ ~hung => \A v \in Loaded(p) : Pte(p, v) # None

LoaderInv == lpc # "proc" => \A p \in Procs : p = c => Loading(p)

(* What a process that has a thread, and its page fault, rely on.          *)
UserInv ==
  /\ state \in [Procs -> {"none", "user", "page", "insert", "dead"}]
  /\ va \in [Procs -> Int] /\ new \in [Procs -> Frames] /\ kstack \in [Procs -> Frames]
  /\ last_reg \in [Procs -> Region]
  /\ \A p \in Procs :
       /\ state[p] = "insert" <=> new[p] # None
       /\ state[p] = "none" <=> kstack[p] = None
       /\ last_reg[p] \in Members(rg_list[p]) \cup {NoRegion}
       /\ state[p] # "none" =>
            /\ Recognized(Images[p]) /\ pa_pd[p] # None
            /\ Pte(p, VA_USER_VIDEO) = VideoPage
            /\ \A v \in Loaded(p) : Pte(p, v) # None
       /\ state[p] \in {"page", "insert"} =>
            /\ va[p] \in UserPages /\ Within(last_reg[p], va[p])
            /\ Pte(p, va[p]) = None

RegionInv ==
  /\ rg_list \in [Procs -> Seq(Region)]
  /\ \A p \in Procs :
       /\ Apart(rg_list[p])
       /\ \A rg \in Members(rg_list[p]) : rg.start >= USER_BASE
  /\ \A pv \in Mapped : \E rg \in Members(rg_list[pv[1]]) : Within(rg, pv[2])

(* s is the list of the reserved cache.                                    *)
IsCacheList(s, first, last, link) ==
  /\ s \in Seq(Frames) /\ Distinct(s) /\ s # << >>
  /\ s[1] = first /\ s[Len(s)] = last /\ link[last] = NoPage
  /\ \A i \in 1 .. Len(s) - 1 : link[s[i]] = s[i + 1]

ListInv ==
  /\ next_cache \in [Frames -> Int]
  /\ \E s : IsCacheList(s, head, tail, next_cache)

(* Pages the reserved cache has been given, and that are in use.           *)
Cached ==
  {Pte(pv[1], pv[2]) : pv \in Mapped} \cup {new[p] : p \in {q \in Procs : new[q] # None}}
    \cup ({lnew} \ {None})

HashInv ==
  /\ hash_map \in [Frames -> Int]
  /\ \A f \in Cached : hash_map[f] = f

VmInv ==
  /\ FrameInv /\ HatInv /\ StageInv /\ LoaderInv /\ UserInv /\ RegionInv /\ ListInv /\ HashInv

-----------------------------------------------------------------------------
(* What is in use is a page, and not the null page.                        *)
LEMMA FrameFacts ==
  /\ PoolPages \cup ImagePages \subseteq Frames \ {None}
  /\ FrameInv => /\ \A u \in Owners : u[1] \in Frames \ {None} /\ u[1] \notin Members(free)
                 /\ Members(free) \subseteq Frames \ {None}
  <1>1. PoolPages \subseteq Frames \ {None}
    BY VmNumbers DEF PoolPages, Frames, None
  <1>2. ImagePages \subseteq Frames \ {None}
    <2> SUFFICES ASSUME NEW p \in Procs, NEW f \in Images[p].first .. Images[p].last
                 PROVE  f \in Frames \ {None}
      BY DEF ImagePages
    <2>1. /\ Images[p].first \in Nat /\ Images[p].last \in Nat
          /\ KernStart <= Images[p].first /\ Images[p].last < TopMemory
      BY ImagesAssumption DEF Module
    <2>2. TopMemory <= MemPages
      <3>1. Cardinality(KernTables) \in Nat
        BY KernelBelow, FS_Interval, FS_CardinalityType DEF KernTables
      <3> QED
        BY <3>1, MemoryAssumption, VmNumbers DEF FirstFree
    <2> QED
      BY <2>1, <2>2, VmNumbers DEF Frames, None
  <1> QED
    BY <1>1, <1>2 DEF FrameInv, InUse

(* The table behind a user's address belongs to that slot alone.           *)
LEMMA TableOwned ==
  ASSUME FrameInv, HatInv, NEW p \in Procs, NEW v \in UserPages, HasTable(p, v)
  PROVE  /\ <<pd[p][va2ipd(v)], "table", <<p, va2ipd(v)>>>> \in Owners
         /\ pd[p][va2ipd(v)] \in Frames /\ pd[p][va2ipd(v)] \notin Members(free)
  <1> DEFINE d == va2ipd(v)
  <1>1. d \in Index \ KernTables
    BY KernelBelow DEF UserPages
  <1> HIDE DEF d
  <1>2. pd[p][d] # None
    BY DEF HasTable, d
  <1>3. <<pd[p][d], "table", <<p, d>>>> \in Tables
    <2>1. <<p, d>> \in {y \in Procs \X (Index \ KernTables) : pd[y[1]][y[2]] # None}
      BY <1>1, <1>2
    <2> QED
      BY <2>1 DEF Tables
  <1>4. <<pd[p][d], "table", <<p, d>>>> \in Owners
    BY <1>3 DEF Owners
  <1> QED
    BY <1>4, FrameFacts DEF d

(* A free page that is cleared is behind no address.                       *)
LEMMA ClearKeepsPte ==
  ASSUME FrameInv, HatInv, NEW f \in Members(free), pd' = pd, pt' = [pt EXCEPT ![f] = Zero]
  PROVE  /\ pt' \in [Frames -> [Index -> Int]]
         /\ \A p \in Procs, v \in UserPages : Pte(p, v)' = Pte(p, v)
  <1>1. pt' \in [Frames -> [Index -> Int]] /\ \A g \in Frames \ {f} : pt'[g] = pt[g]
    <2>1. Zero \in [Index -> Int] /\ f \in Frames
      BY FrameFacts DEF Zero, None
    <2> QED
      BY <2>1 DEF HatInv
  <1>2. ASSUME NEW p \in Procs, NEW v \in UserPages PROVE Pte(p, v)' = Pte(p, v)
    <2>1. CASE HasTable(p, v)
      <3>1. pd[p][va2ipd(v)] \in Frames \ {f} /\ pd[p][va2ipd(v)] # None
        BY <2>1, TableOwned DEF HasTable
      <3> QED
        BY <1>1, <3>1 DEF Pte
    <2>2. CASE ~HasTable(p, v)
      BY <2>2 DEF Pte, HasTable
    <2> QED
      BY <2>1, <2>2
  <1> QED
    BY <1>1, <1>2

(* A new table has no translations.                                        *)
LEMMA NewTableKeepsPte ==
  ASSUME FrameInv, HatInv, free # << >>, NEW p \in Procs, NEW v \in UserPages,
         ~HasTable(p, v), NewTable(p, v)
  PROVE  /\ pt' \in [Frames -> [Index -> Int]] /\ pd' \in [Hats -> [Index -> Frames]]
         /\ pd'[p][va2ipd(v)] = Head(free)
         /\ \A q \in Procs, w \in UserPages : Pte(q, w)' = Pte(q, w)
         /\ \A q \in Hats, d \in Index :
              <<q, d>> # <<p, va2ipd(v)>> => pd'[q][d] = pd[q][d]
  <1> DEFINE f == Head(free)
             d == va2ipd(v)
  <1>1. f \in Members(free) /\ f \in Frames \ {None}
    BY TailDistinct, FrameFacts DEF FrameInv
  <1>2. d \in Index /\ p \in Hats /\ Procs \subseteq Hats
    BY KernelBelow, VmNumbers DEF UserPages, Procs, Hats
  <1>3. pd' = [pd EXCEPT ![p][d] = f] /\ pt' = [pt EXCEPT ![f] = Zero]
    BY DEF NewTable
  <1>4. pd[p][d] = None
    BY DEF HasTable
  <1> HIDE DEF f, d
  <1>5. pt' \in [Frames -> [Index -> Int]] /\ pt'[f] = Zero /\ \A g \in Frames \ {f} : pt'[g] = pt[g]
    BY <1>1, <1>3 DEF HatInv, Zero, None
  <1>6. /\ pd' \in [Hats -> [Index -> Frames]] /\ pd'[p][d] = f
        /\ \A q \in Hats, x \in Index : <<q, x>> # <<p, d>> => pd'[q][x] = pd[q][x]
    BY <1>1, <1>2, <1>3 DEF HatInv
  <1>7. ASSUME NEW q \in Procs, NEW w \in UserPages PROVE Pte(q, w)' = Pte(q, w)
    <2>0. va2ipd(w) \in Index /\ va2ipt(w) \in Index /\ q \in Hats
      BY <1>2, KernelBelow, SlotIs DEF UserPages
    <2>1. CASE HasTable(q, w)
      <3>1. pd[q][va2ipd(w)] \in Frames \ {f} /\ pd[q][va2ipd(w)] # None
        BY <1>1, <2>1, TableOwned DEF HasTable
      <3>2. <<q, va2ipd(w)>> # <<p, d>>
        BY <1>4, <3>1
      <3>3. pd'[q][va2ipd(w)] = pd[q][va2ipd(w)]
        BY <1>6, <2>0, <3>2
      <3> QED
        BY <1>5, <3>1, <3>3 DEF Pte
    <2>2. CASE ~HasTable(q, w) /\ <<q, va2ipd(w)>> # <<p, d>>
      <3>1. pd'[q][va2ipd(w)] = pd[q][va2ipd(w)]
        BY <1>6, <2>0, <2>2
      <3> QED
        BY <2>2, <3>1 DEF Pte, HasTable
    <2>3. CASE <<q, va2ipd(w)>> = <<p, d>>
      <3>1. pd'[q][va2ipd(w)] = f /\ pd[q][va2ipd(w)] = None
        BY <1>4, <1>6, <2>3
      <3>2. Zero[va2ipt(w)] = None
        BY <2>0 DEF Zero
      <3> QED
        BY <1>1, <1>5, <3>1, <3>2 DEF Pte
    <2> QED
      BY <2>1, <2>2, <2>3
  <1> QED
    BY <1>5, <1>6, <1>7 DEF d, f

(* hat_insert() changes the one translation it is for.                     *)
LEMMA InsertPte ==
  ASSUME FrameInv, HatInv, NEW p \in Procs, NEW v \in UserPages, HasTable(p, v),
         NEW f \in Int, Insert(p, v, f), pd' = pd
  PROVE  /\ pt' \in [Frames -> [Index -> Int]]
         /\ \A q \in Procs, w \in UserPages :
              Pte(q, w)' = IF q = p /\ w = v THEN f ELSE Pte(q, w)
  <1> DEFINE t == pd[p][va2ipd(v)]
             i == va2ipt(v)
  <1>1. t \in Frames /\ t # None /\ <<t, "table", <<p, va2ipd(v)>>>> \in Owners
    BY TableOwned DEF HasTable
  <1>2. i \in Index
    BY KernelBelow, SlotIs DEF UserPages
  <1>3. pt' = [pt EXCEPT ![t][i] = f]
    BY DEF Insert
  <1> HIDE DEF t, i
  <1>4. /\ pt' \in [Frames -> [Index -> Int]] /\ pt'[t][i] = f
        /\ \A g \in Frames, j \in Index : g # t \/ j # i => pt'[g][j] = pt[g][j]
    BY <1>1, <1>2, <1>3 DEF HatInv
  <1>5. ASSUME NEW q \in Procs, NEW w \in UserPages
        PROVE  Pte(q, w)' = IF q = p /\ w = v THEN f ELSE Pte(q, w)
    <2>0. va2ipt(w) \in Index /\ w \in 0 .. VaTop /\ v \in 0 .. VaTop
      BY KernelBelow, SlotIs DEF UserPages
    <2>1. CASE ~HasTable(q, w)
      BY <2>1 DEF Pte, HasTable
    <2>2. CASE HasTable(q, w) /\ q = p /\ w = v
      <3>1. Pte(q, w)' = pt'[t][i]
        BY <1>1, <2>2 DEF Pte, t, i
      <3> QED
        BY <1>4, <2>2, <3>1
    <2>3. CASE HasTable(q, w) /\ ~(q = p /\ w = v)
      <3>1. /\ pd[q][va2ipd(w)] \in Frames /\ pd[q][va2ipd(w)] # None
            /\ <<pd[q][va2ipd(w)], "table", <<q, va2ipd(w)>>>> \in Owners
        BY <2>3, TableOwned DEF HasTable
      <3>2. pd[q][va2ipd(w)] = t => va2ipt(w) # i
        <4> SUFFICES ASSUME pd[q][va2ipd(w)] = t, va2ipt(w) = i PROVE FALSE
          OBVIOUS
        <4>1. <<t, "table", <<q, va2ipd(w)>>>> = <<t, "table", <<p, va2ipd(v)>>>>
          BY <1>1, <3>1 DEF FrameInv
        <4>2. q = p /\ va2ipd(w) = va2ipd(v)
          BY <4>1
        <4> QED
          BY <2>0, <2>3, <4>2, SlotsDiffer DEF i
      <3>3. pt'[pd[q][va2ipd(w)]][va2ipt(w)] = pt[pd[q][va2ipd(w)]][va2ipt(w)]
        BY <1>4, <2>0, <3>1, <3>2
      <3> QED
        BY <2>3, <3>1, <3>3 DEF Pte
    <2> QED
      BY <2>1, <2>2, <2>3
  <1> QED
    BY <1>4, <1>5

-----------------------------------------------------------------------------
(* alloc_page(): the first free page gets an owner ...                     *)
LEMMA OwnerTaken ==
  ASSUME FrameInv, free # << >>, free' = Tail(free), NEW u, u[1] = Head(free),
         Owners' = Owners \cup {u}
  PROVE  FrameInv'
  <1>1. /\ Distinct(free') /\ free' \in Seq(Frames)
        /\ Members(free') = Members(free) \ {u[1]} /\ u[1] \in Members(free)
    BY TailDistinct DEF FrameInv
  <1>2. InUse' = InUse \cup {u[1]}
    BY DEF InUse
  <1>3. \A a \in Owners : a[1] \in InUse /\ a[1] # u[1]
    BY <1>1 DEF FrameInv, InUse
  <1>4. \A a, b \in Owners' : a[1] = b[1] => a = b
    BY <1>3 DEF FrameInv
  <1>5. PoolPages' = PoolPages /\ ImagePages' = ImagePages
    BY DEF PoolPages, ImagePages
  <1> QED
    BY <1>1, <1>2, <1>4, <1>5 DEF FrameInv

(* ... a page passes from one owner to the next ...                        *)
LEMMA OwnerMoved ==
  ASSUME FrameInv, free' = free, NEW u \in Owners, NEW w, w[1] = u[1],
         Owners' = (Owners \ {u}) \cup {w}
  PROVE  FrameInv'
  <1>1. InUse' = InUse
    BY DEF InUse
  <1>2. \A a, b \in Owners' : a[1] = b[1] => a = b
    BY DEF FrameInv
  <1>3. PoolPages' = PoolPages /\ ImagePages' = ImagePages
    BY DEF PoolPages, ImagePages
  <1> QED
    BY <1>1, <1>2, <1>3 DEF FrameInv

(* ... and free_page() takes it away from one.                             *)
LEMMA OwnerGives ==
  ASSUME FrameInv, NEW u \in Owners, free' = << u[1] >> \o free, Owners' = Owners \ {u}
  PROVE  FrameInv'
  <1>1. u[1] \in Frames /\ u[1] \notin Members(free)
    BY FrameFacts
  <1> DEFINE x == u[1]
             r == << x >> \o free
  <1>2. /\ r \in Seq(Frames) /\ Len(r) = Len(free) + 1 /\ Len(free) \in Nat
        /\ \A k \in 1 .. Len(free) + 1 : r[k] = IF k = 1 THEN x ELSE free[k - 1]
    <2>1. << x >> \in Seq(Frames) /\ Len(<< x >>) = 1 /\ << x >>[1] = x /\ free \in Seq(Frames)
      BY <1>1 DEF FrameInv
    <2> HIDE DEF x
    <2>2. /\ r \in Seq(Frames) /\ Len(r) = 1 + Len(free) /\ Len(free) \in Nat
          /\ \A k \in 1 .. 1 + Len(free) : r[k] = IF k <= 1 THEN << x >>[k] ELSE free[k - 1]
      BY <2>1, JoinIs
    <2> QED
      BY <2>1, <2>2
  <1> HIDE DEF r, x
  <1>3. Members(r) = Members(free) \cup {x}
    <2>1. DOMAIN r = 1 .. Len(free) + 1 /\ DOMAIN free = 1 .. Len(free)
      BY <1>2 DEF FrameInv
    <2>2. \A k \in DOMAIN free : k + 1 \in DOMAIN r /\ r[k + 1] = free[k]
      BY <1>2, <2>1
    <2>3. 1 \in DOMAIN r /\ r[1] = x
      BY <1>2, <2>1
    <2>4. \A k \in DOMAIN r : k = 1 \/ (k - 1 \in DOMAIN free /\ r[k] = free[k - 1])
      BY <1>2, <2>1
    <2> QED
      BY <2>2, <2>3, <2>4 DEF Members
  <1>4. Distinct(r)
    <2>1. DOMAIN r = 1 .. Len(free) + 1 /\ DOMAIN free = 1 .. Len(free)
      BY <1>2 DEF FrameInv
    <2>2. \A k \in DOMAIN r \ {1} :
            k - 1 \in DOMAIN free /\ r[k] = free[k - 1] /\ r[k] \in Members(free)
      <3> SUFFICES ASSUME NEW k \in DOMAIN r \ {1}
                   PROVE  k - 1 \in DOMAIN free /\ r[k] = free[k - 1] /\ r[k] \in Members(free)
        OBVIOUS
      <3>1. k - 1 \in DOMAIN free /\ r[k] = free[k - 1]
        BY <1>2, <2>1
      <3> QED
        BY <3>1 DEF Members
    <2>3. r[1] = x /\ x \notin Members(free)
      BY <1>1, <1>2 DEF x
    <2>4. \A j, k \in DOMAIN r \ {1} : r[j] = r[k] => j = k
      <3> SUFFICES ASSUME NEW j \in DOMAIN r \ {1}, NEW k \in DOMAIN r \ {1}, r[j] = r[k]
                   PROVE  j = k
        OBVIOUS
      <3>1. j - 1 = k - 1
        BY <2>2 DEF FrameInv, Distinct
      <3> QED
        BY <2>1, <3>1
    <2> QED
      BY <2>2, <2>3, <2>4 DEF Distinct
  <1>5. InUse' = InUse \ {x} /\ x \in InUse
    BY DEF FrameInv, InUse, x
  <1>6. \A a, b \in Owners' : a[1] = b[1] => a = b
    BY DEF FrameInv
  <1>7. PoolPages' = PoolPages /\ ImagePages' = ImagePages
    BY DEF PoolPages, ImagePages
  <1>8. free' = r
    BY DEF r, x
  <1> QED
    <2>1. free' \in Seq(Frames) /\ Distinct(free')
      BY <1>2, <1>4, <1>8
    <2>2. Members(free') = Members(free) \cup {x} /\ InUse' = InUse \ {x} /\ x \in InUse
      BY <1>3, <1>5, <1>8
    <2>3. InUse' \cap Members(free') = {}
      BY <2>2 DEF FrameInv
    <2>4. Members(free') \cup InUse' = Members(free) \cup InUse
      BY <2>2
    <2> QED
      BY <1>6, <1>7, <2>1, <2>3, <2>4 DEF FrameInv

(* The step that moves no page.                                            *)
LEMMA OwnersSame ==
  ASSUME FrameInv, free' = free, Owners' = Owners
  PROVE  FrameInv'
  BY DEF FrameInv, InUse, PoolPages, ImagePages

-----------------------------------------------------------------------------
(* What the parts of Owners depend on.                                     *)
LEMMA PartsSame ==
  /\ KernelTables' = KernelTables
  /\ UNCHANGED pa_pd => Directories' = Directories
  /\ UNCHANGED pd => Tables' = Tables
  /\ UNCHANGED new => Faulting' = Faulting
  /\ UNCHANGED kstack => Stacks' = Stacks
  /\ UNCHANGED <<lnew, c>> \/ (lnew = None /\ lnew' = None) => Committed' = Committed
  /\ UNCHANGED <<c, lpc, lva>> => Unread' = Unread
  <1>1. KernelTables' = KernelTables
    BY DEF KernelTables, KernTables, KernTable
  <1>2. UNCHANGED pa_pd => Directories' = Directories
    BY DEF Directories
  <1>3. UNCHANGED pd => Tables' = Tables
    BY DEF Tables
  <1>4. UNCHANGED new => Faulting' = Faulting
    BY DEF Faulting
  <1>5. UNCHANGED kstack => Stacks' = Stacks
    BY DEF Stacks
  <1>6. UNCHANGED <<lnew, c>> \/ (lnew = None /\ lnew' = None) => Committed' = Committed
    BY DEF Committed
  <1>7. UNCHANGED <<c, lpc, lva>> => Unread' = Unread
    BY DEF Unread
  <1> QED
    BY <1>1, <1>2, <1>3, <1>4, <1>5, <1>6, <1>7

(* Where the image of a module that is still in memory begins.             *)
ImageKept(p) == p > c \/ (p = c /\ lpc # "thread") \/ ~Recognized(Images[p])
ImageFrom(p) == IF p = c /\ lpc = "reclaim" THEN lva ELSE Images[p].first

(* Where the pages of unread images are, one by one.                       *)
LEMMA UnreadIs ==
  \A u : u \in Unread <=>
           \E p \in Procs : /\ ImageKept(p)
                            /\ \E f \in ImageFrom(p) .. Images[p].last : u = <<f, "image", p>>
  BY DEF Unread, ImageKept, ImageFrom

(* No image is read or given back.                                         *)
LEMMA UnreadSame ==
  ASSUME \A p \in Procs : /\ ImageKept(p)' <=> ImageKept(p)
                          /\ ImageKept(p) => ImageFrom(p)' = ImageFrom(p)
  PROVE  Unread' = Unread
  <1>1. \A u : u \in Unread' <=>
          \E p \in Procs : /\ ImageKept(p)'
                           /\ \E f \in ImageFrom(p)' .. Images[p].last : u = <<f, "image", p>>
    BY DEF Unread, ImageKept, ImageFrom
  <1>2. \A u : u \in Unread' <=> u \in Unread
    BY <1>1, UnreadIs
  <1> QED
    BY <1>2

(* A new table has one owner.                                              *)
LEMMA TablesGrow ==
  ASSUME HatInv, NEW p \in Procs, NEW d \in Index \ KernTables, NEW f, f # None, pd[p][d] = None,
         pd'[p][d] = f,
         \A q \in Hats, x \in Index : <<q, x>> # <<p, d>> => pd'[q][x] = pd[q][x]
  PROVE  Tables' = Tables \cup {<<f, "table", <<p, d>>>>}
  <1>0. Procs \subseteq Hats
    BY VmNumbers DEF Procs, Hats
  <1>1. \A u : u \in Tables <=>
          \E q \in Procs, x \in Index \ KernTables :
            pd[q][x] # None /\ u = <<pd[q][x], "table", <<q, x>>>>
    BY DEF Tables
  <1>2. \A u : u \in Tables' <=>
          \E q \in Procs, x \in Index \ KernTables :
            pd'[q][x] # None /\ u = <<pd'[q][x], "table", <<q, x>>>>
    BY DEF Tables, Index, KernTables
  <1>3. ASSUME NEW q \in Procs, NEW x \in Index \ KernTables
        PROVE  /\ <<q, x>> = <<p, d>> => pd'[q][x] = f /\ pd[q][x] = None
               /\ <<q, x>> # <<p, d>> => pd'[q][x] = pd[q][x]
    BY <1>0
  <1>4. ASSUME NEW u \in Tables' PROVE u \in Tables \cup {<<f, "table", <<p, d>>>>}
    BY <1>1, <1>2, <1>3
  <1>5. ASSUME NEW u \in Tables PROVE u \in Tables'
    BY <1>1, <1>2, <1>3
  <1>6. <<f, "table", <<p, d>>>> \in Tables'
    BY <1>2
  <1> QED
    BY <1>4, <1>5, <1>6

(* Mapped pages follow the translations.                                   *)
LEMMA MappedSame ==
  ASSUME \A p \in Procs : pa_pd'[p] = None <=> pa_pd[p] = None,
         \A p \in Procs, v \in UserPages \ {VA_USER_VIDEO} : Pte(p, v)' = Pte(p, v)
  PROVE  Mapped' = Mapped /\ MappedPages' = MappedPages
  <1>1. \A pv \in Procs \X UserPages : pv[1] \in Procs /\ pv[2] \in UserPages
    OBVIOUS
  <1>2. Mapped' = Mapped
    BY <1>1 DEF Mapped, UserPages, VaTop
  <1>3. \A pv \in Mapped : pv[1] \in Procs /\ pv[2] \in UserPages \ {VA_USER_VIDEO}
    BY DEF Mapped, UserPages
  <1>4. \A pv \in Mapped : Pte(pv[1], pv[2])' = Pte(pv[1], pv[2])
    BY <1>3
  <1> QED
    BY <1>2, <1>4 DEF MappedPages

(* A page more is mapped.                                                  *)
LEMMA MappedGrows ==
  ASSUME \A p \in Procs : pa_pd'[p] = pa_pd[p],
         NEW q \in Procs, NEW w \in UserPages \ {VA_USER_VIDEO}, NEW f, f # None,
         Pte(q, w) = None, pa_pd[q] # None,
         \A p \in Procs, v \in UserPages : Pte(p, v)' = IF p = q /\ v = w THEN f ELSE Pte(p, v)
  PROVE  /\ Mapped' = Mapped \cup {<<q, w>>} /\ <<q, w>> \notin Mapped
         /\ MappedPages' = MappedPages \cup {<<f, "mapped", <<q, w>>>>}
         /\ \A pv \in Mapped : Pte(pv[1], pv[2])' = Pte(pv[1], pv[2])
  <1>1. \A pv : pv \in Mapped <=>
          \E p \in Procs, v \in UserPages \ {VA_USER_VIDEO} :
            pv = <<p, v>> /\ pa_pd[p] # None /\ Pte(p, v) # None
    BY DEF Mapped, UserPages
  <1>2. \A pv : pv \in Mapped' <=>
          \E p \in Procs, v \in UserPages \ {VA_USER_VIDEO} :
            pv = <<p, v>> /\ pa_pd'[p] # None /\ Pte(p, v)' # None
    BY DEF Mapped, UserPages, VaTop
  <1>3. Mapped' = Mapped \cup {<<q, w>>} /\ <<q, w>> \notin Mapped
    BY <1>1, <1>2
  <1>4. \A pv \in Mapped : Pte(pv[1], pv[2])' = Pte(pv[1], pv[2])
    BY <1>1
  <1>5. Pte(q, w)' = f
    OBVIOUS
  <1>6. \A u : u \in MappedPages' <=>
          u \in MappedPages \/ u = <<f, "mapped", <<q, w>>>>
    <2>1. \A u : u \in MappedPages <=> \E pv \in Mapped : u = <<Pte(pv[1], pv[2]), "mapped", pv>>
      BY DEF MappedPages
    <2>2. \A u : u \in MappedPages' <=> \E pv \in Mapped' : u = <<Pte(pv[1], pv[2])', "mapped", pv>>
      BY DEF MappedPages
    <2> QED
      BY <1>3, <1>4, <1>5, <2>1, <2>2
  <1> QED
    BY <1>3, <1>4, <1>6

-----------------------------------------------------------------------------
(* cache_page(): the page becomes the last of the list.  If it was on the  *)
(* list, it was cached before its image was given back, and the list is    *)
(* cut behind it.                                                          *)
LEMMA CacheKeeps ==
  ASSUME ListInv, NEW f \in Frames, EnqueueCache(f)
  PROVE  ListInv'
  <1>1. PICK s : IsCacheList(s, head, tail, next_cache)
    BY DEF ListInv
  <1>2. /\ s \in Seq(Frames) /\ Len(s) \in Nat /\ Len(s) >= 1 /\ DOMAIN s = 1 .. Len(s)
        /\ s[1] = head /\ s[Len(s)] = tail /\ next_cache[tail] = NoPage /\ tail \in Frames
        /\ \A i \in 1 .. Len(s) : s[i] \in Frames
        /\ \A i \in 1 .. Len(s) - 1 : next_cache[s[i]] = s[i + 1]
        /\ \A i, j \in 1 .. Len(s) : s[i] = s[j] => i = j
    BY <1>1 DEF IsCacheList, Distinct
  <1>3. /\ next_cache' = [next_cache EXCEPT ![tail] = f, ![f] = NoPage]
        /\ tail' = f /\ head' = head
    BY DEF EnqueueCache
  <1>4. /\ next_cache' \in [Frames -> Int] /\ next_cache'[f] = NoPage
        /\ f # tail => next_cache'[tail] = f
        /\ \A g \in Frames \ {f, tail} : next_cache'[g] = next_cache[g]
    <2>1. NoPage \in Int /\ f \in Int
      BY VmNumbers DEF NoPage, Frames
    <2> QED
      BY <1>2, <1>3, <2>1 DEF ListInv
  <1>5. CASE f \notin Members(s)
    <2>1. /\ Append(s, f) \in Seq(Frames) /\ Distinct(Append(s, f))
          /\ Len(Append(s, f)) = Len(s) + 1
      BY <1>1, <1>5, AppendDistinct DEF IsCacheList
    <2>2. /\ Append(s, f)[Len(s) + 1] = f
          /\ \A i \in 1 .. Len(s) : Append(s, f)[i] = s[i]
      BY <1>2
    <2>3. \A i \in 1 .. Len(s) : s[i] # f
      BY <1>2, <1>5 DEF Members
    <2>4. ASSUME NEW i \in 1 .. Len(s) PROVE next_cache'[Append(s, f)[i]] = Append(s, f)[i + 1]
      <3>1. CASE i = Len(s)
        BY <1>2, <1>4, <2>2, <2>3, <3>1
      <3>2. CASE i # Len(s)
        <4>0. i \in 1 .. Len(s) - 1 /\ i + 1 \in 1 .. Len(s) /\ Len(s) \in 1 .. Len(s)
          BY ONLY <1>2, <3>2, i \in 1 .. Len(s)
        <4>1. s[i] # tail /\ s[i] # f
          BY ONLY <1>2, <2>3, <3>2, <4>0, i \in 1 .. Len(s)
        <4> QED
          BY <1>2, <1>4, <2>2, <4>0, <4>1
      <3> QED
        BY <3>1, <3>2
    <2> DEFINE r == Append(s, f)
    <2>6. r # << >> /\ r[1] = head' /\ r[Len(r)] = tail' /\ \A i \in 1 .. Len(r) - 1 : i \in 1 .. Len(s)
      BY <1>2, <1>3, <2>1, <2>2
    <2>7. \A i \in 1 .. Len(r) - 1 : next_cache'[r[i]] = r[i + 1]
      BY <2>4, <2>6
    <2> HIDE DEF r
    <2>5. IsCacheList(r, head', tail', next_cache')
      BY <1>3, <1>4, <2>1, <2>6, <2>7 DEF IsCacheList, r
    <2> QED
      BY <1>4, <2>5 DEF ListInv
  <1>6. CASE f \in Members(s)
    <2>1. PICK k \in 1 .. Len(s) : s[k] = f
      BY <1>2, <1>6 DEF Members
    <2> DEFINE r == SubSeq(s, 1, k)
    <2>2. r \in Seq(Frames) /\ Len(r) = k /\ DOMAIN r = 1 .. k /\ \A i \in 1 .. k : r[i] = s[i]
      BY <1>2
    <2> HIDE DEF r
    <2>3. Distinct(r)
      BY <1>2, <2>2 DEF Distinct
    <2>4. ASSUME NEW i \in 1 .. k - 1 PROVE next_cache'[r[i]] = r[i + 1]
      <3>1. i \in 1 .. Len(s) - 1 /\ i + 1 \in 1 .. k /\ s[i] # tail /\ s[i] # f /\ i \in 1 .. k
        BY <1>2, <2>1
      <3> QED
        BY <1>2, <1>4, <2>2, <3>1
    <2>5. r # << >> /\ r[1] = head /\ r[Len(r)] = f
      BY <1>2, <2>1, <2>2
    <2>6. IsCacheList(r, head', tail', next_cache')
      BY <1>3, <1>4, <2>2, <2>3, <2>4, <2>5 DEF IsCacheList
    <2> QED
      BY <1>4, <2>6 DEF ListInv
  <1> QED
    BY <1>5, <1>6

(* cache_page(): the list is still one, and the page is found.             *)
LEMMA CachePageKeeps ==
  ASSUME ListInv, HashInv, NEW f \in Frames, CachePage(f), Cached' \subseteq Cached \cup {f}
  PROVE  ListInv' /\ HashInv'
  <1>1. ListInv'
    BY CacheKeeps DEF CachePage
  <1>2. hash_map' = [hash_map EXCEPT ![f] = f]
    BY DEF CachePage
  <1>3. f \in Int
    BY VmNumbers DEF Frames
  <1>4. hash_map' \in [Frames -> Int] /\ hash_map'[f] = f /\ \A g \in Cached \ {f} : hash_map'[g] = hash_map[g]
    BY <1>2, <1>3 DEF HashInv
  <1> QED
    BY <1>1, <1>4 DEF HashInv

-----------------------------------------------------------------------------
(* What a step that leaves a part alone keeps of the invariant.            *)
LEMMA ConstantsSame ==
  \A p \in Procs : Text(p)' = Text(p) /\ Data(p)' = Data(p) /\ Loaded(p)' = Loaded(p)
  <1>1. ASSUME NEW p \in Procs PROVE Text(p)' = Text(p) /\ Data(p)' = Data(p)
    BY DEF Text, Data, ExecHeader, UserVa
  <1>2. ASSUME NEW p \in Procs PROVE Loaded(p)' = Loaded(p)
    BY <1>1 DEF Loaded, UserPages, VaTop, Within
  <1> QED
    BY <1>1, <1>2

(* The reserved cache is left alone.                                       *)
LEMMA CacheSame ==
  ASSUME ListInv, HashInv, UNCHANGED cache, Cached' \subseteq Cached
  PROVE  ListInv' /\ HashInv'
  BY DEF ListInv, HashInv, cache, Frames

(* Directories and tables are left alone.                                  *)
LEMMA HatSame ==
  ASSUME HatInv, UNCHANGED hat
  PROVE  /\ HatInv' /\ Mapped' = Mapped /\ MappedPages' = MappedPages
         /\ \A p \in Procs, v \in UserPages : Pte(p, v)' = Pte(p, v)
  <1>1. pa_pd' = pa_pd /\ pd' = pd /\ pt' = pt
    BY DEF hat
  <1>2. \A p \in Procs, v \in UserPages : Pte(p, v)' = Pte(p, v)
    BY <1>1 DEF Pte
  <1> QED
    BY <1>1, <1>2, MappedSame DEF HatInv, KernPd, KernTables, KernTable, Zero, Frames, Hats, Procs, Index

(* The regions are left alone.                                             *)
LEMMA RegionSame ==
  ASSUME RegionInv, UNCHANGED rg_list, Mapped' = Mapped
  PROVE  RegionInv'
  BY DEF RegionInv, Apart, Members, Within, Region

(* The threads that run are left alone.                                    *)
LEMMA UserSame ==
  ASSUME UserInv, UNCHANGED <<user, last_reg, kstack>>,
         \A p \in Procs : Members(rg_list[p]) \subseteq Members(rg_list'[p]),
         \A p \in Procs : state[p] # "none" =>
           pa_pd'[p] = pa_pd[p] /\ \A v \in UserPages : Pte(p, v)' = Pte(p, v)
  PROVE  UserInv'
  <1>1. state' = state /\ va' = va /\ new' = new /\ last_reg' = last_reg /\ kstack' = kstack
    BY DEF user
  <1>2. VA_USER_VIDEO \in UserPages
    BY VmNumbers DEF UserPages
  <1>3. \A p \in Procs : Loaded(p) \subseteq UserPages
    BY DEF Loaded
  <1>4. ASSUME NEW p \in Procs, state[p] # "none"
        PROVE  /\ Recognized(Images[p]) /\ pa_pd'[p] # None
               /\ Pte(p, VA_USER_VIDEO)' = VideoPage
               /\ \A v \in Loaded(p) : Pte(p, v)' # None
    BY <1>2, <1>3, <1>4 DEF UserInv
  <1>5. ASSUME NEW p \in Procs, state[p] \in {"page", "insert"}
        PROVE  Pte(p, va[p])' = None
    <2>1. state[p] # "none" /\ va[p] \in UserPages /\ Pte(p, va[p]) = None
      BY <1>5 DEF UserInv
    <2>2. \A v \in UserPages : Pte(p, v)' = Pte(p, v)
      BY <2>1
    <2>3. PICK w \in UserPages : w = va[p]
      BY <2>1
    <2>4. Pte(p, w) = None /\ Pte(p, w)' = None
      BY <2>1, <2>2, <2>3
    <2> QED
      BY <1>1, <2>3, <2>4 DEF Pte
  <1> QED
    BY <1>1, <1>4, <1>5, ConstantsSame DEF UserInv, Within

(* create_bootproc() is not disturbed by the threads that run already.     *)
LEMMA LoaderSame ==
  ASSUME StageInv, LoaderInv, UNCHANGED <<loader, rg_list, pa_pd>>, hung' = hung \/ hung',
         \A p \in Procs : p >= c => state'[p] = state[p],
         \A p \in Procs : p = c => \A v \in UserPages : Pte(p, v)' = Pte(p, v)
  PROVE  StageInv' /\ LoaderInv'
  <1>1. lpc' = lpc /\ c' = c /\ lva' = lva /\ lnew' = lnew /\ rg_list' = rg_list /\ pa_pd' = pa_pd
    BY DEF loader
  <1>2. StageInv'
    BY <1>1 DEF StageInv, Frames, Procs
  <1>3. ASSUME NEW p \in Procs, p = c, Loading(p) PROVE Loading(p)'
    <2>1. VA_USER_VIDEO \in UserPages /\ Loaded(p) \subseteq UserPages
      BY VmNumbers DEF UserPages, Loaded
    <2>2. \A v \in UserPages : Pte(p, v)' = Pte(p, v)
      BY <1>3
    <2>3. HasData(p)' <=> HasData(p)
      BY <1>1, ConstantsSame DEF HasData, Members
    <2>4. Members(rg_list[p])' = Members(rg_list[p])
      BY <1>1
    <2> QED
      BY <1>1, <1>3, <2>1, <2>2, <2>3, <2>4, ConstantsSame DEF Loading, Within, UserPages, VaTop
  <1> QED
    BY <1>1, <1>2, <1>3 DEF LoaderInv, Procs

-----------------------------------------------------------------------------
(* A region of a process is in the part of the users.                      *)
LEMMA RegionFacts ==
  ASSUME RegionInv, NEW p \in Procs, NEW rg \in Members(rg_list[p])
  PROVE  rg \in Region /\ rg.start \in Int /\ rg.size \in Int /\ rg.start >= USER_BASE
  <1>1. rg_list[p] \in Seq(Region) /\ rg.start >= USER_BASE
    BY DEF RegionInv
  <1>2. rg \in Region
    BY <1>1 DEF Members
  <1> QED
    BY <1>1, <1>2 DEF Region

(* vas_pagefault(): the region that is found is one of the process.        *)
LEMMA LookupIs ==
  ASSUME NEW p \in Procs, NEW v \in Nat, rg_list \in [Procs -> Seq(Region)],
         last_reg[p] \in Members(rg_list[p]) \cup {NoRegion}, Lookup(p, v) # NoRegion
  PROVE  Lookup(p, v) \in Members(rg_list[p]) /\ Within(Lookup(p, v), v)
  <1> DEFINE hits == {i \in DOMAIN rg_list[p] : Within(rg_list[p][i], v)}
  <1>1. ~Within(NoRegion, v)
    BY DEF Within, NoRegion
  <1>2. CASE Within(last_reg[p], v)
    BY <1>1, <1>2 DEF Lookup
  <1>3. CASE ~Within(last_reg[p], v)
    <2>1. hits # {} /\ Lookup(p, v) = rg_list[p][Min(hits)]
      BY <1>3 DEF Lookup
    <2>2. hits \in SUBSET Nat
      OBVIOUS
    <2>3. \E i \in hits : \A k \in hits : i <= k
      <3> HIDE DEF hits
      <3> QED
        BY <2>1, <2>2, LeastNat
    <2>4. Min(hits) \in hits
      <3> HIDE DEF hits
      <3> QED
        BY <2>3 DEF Min
    <2> QED
      BY <2>1, <2>4 DEF Members
  <1> QED
    BY <1>2, <1>3

(* page_fault(): the region of the address, or the end of the thread.      *)
LEMMA PageFaultKeeps ==
  ASSUME VmInv, NEW p \in Procs, PageFault(p)
  PROVE  VmInv' /\ \A pv \in Mapped : Pte(pv[1], pv[2])' = Pte(pv[1], pv[2])
  <1>1. PICK v \in Touch[p] :
          LET rg == Lookup(p, v) IN
          /\ state[p] = "user" /\ ~hung /\ Pte(p, v) = None
          /\ IF rg = NoRegion
             THEN state' = [state EXCEPT ![p] = "dead"] /\ UNCHANGED <<last_reg, va>>
             ELSE /\ last_reg' = [last_reg EXCEPT ![p] = rg]
                  /\ state' = [state EXCEPT ![p] = "page"]
                  /\ va' = [va EXCEPT ![p] = v]
          /\ UNCHANGED <<free, hat, rg_list, cache, new, kstack, loader, hung>>
    BY DEF PageFault
  <1>2. /\ free' = free /\ UNCHANGED hat /\ rg_list' = rg_list /\ UNCHANGED cache /\ new' = new
        /\ kstack' = kstack /\ UNCHANGED loader /\ hung' = hung
        /\ lpc' = lpc /\ c' = c /\ lva' = lva /\ lnew' = lnew
        /\ pa_pd' = pa_pd /\ pd' = pd
    BY <1>1 DEF hat, loader
  <1>3. /\ HatInv' /\ Mapped' = Mapped /\ MappedPages' = MappedPages
        /\ \A q \in Procs, w \in UserPages : Pte(q, w)' = Pte(q, w)
    BY <1>2, HatSame DEF VmInv
  <1>4. \A pv \in Mapped : Pte(pv[1], pv[2])' = Pte(pv[1], pv[2])
    BY <1>2 DEF Pte, hat
  <1>5. FrameInv'
    BY <1>2, <1>3, PartsSame, OwnersSame DEF Owners, VmInv
  <1>6. RegionInv'
    BY <1>2, <1>3, RegionSame DEF VmInv
  <1>7. ListInv' /\ HashInv'
    <2>1. Cached' = Cached
      BY <1>2, <1>3, <1>4 DEF Cached
    <2> QED
      BY <1>2, <2>1, CacheSame DEF VmInv
  <1>8. /\ state \in [Procs -> {"none", "user", "page", "insert", "dead"}]
        /\ \A q \in Procs : q >= c => state[q] = "none"
    BY DEF VmInv, UserInv, StageInv
  <1>9. /\ state' \in [Procs -> {"none", "user", "page", "insert", "dead"}]
        /\ state'[p] \in {"dead", "page"} /\ state[p] = "user"
        /\ \A q \in Procs \ {p} : state'[q] = state[q]
    BY <1>1, <1>8
  <1>10. StageInv' /\ LoaderInv'
    <2>1. \A q \in Procs : q >= c => state'[q] = state[q]
      BY <1>8, <1>9
    <2> QED
      BY <1>2, <1>3, <2>1, LoaderSame DEF VmInv
  <1>11. v \in 0 .. VaTop /\ v \in Int
    BY VmAssumption, VmNumbers
  <1>12. CASE Lookup(p, v) = NoRegion
    <2>1. last_reg' = last_reg /\ va' = va /\ state'[p] = "dead"
      BY <1>1, <1>8, <1>12
    <2>2. UserInv'
      <3> SUFFICES ASSUME NEW q \in Procs
                   PROVE  /\ state'[q] = "insert" <=> new'[q] # None
                          /\ state'[q] = "none" <=> kstack'[q] = None
                          /\ last_reg'[q] \in Members(rg_list'[q]) \cup {NoRegion}
                          /\ state'[q] # "none" =>
                               /\ Recognized(Images[q]) /\ pa_pd'[q] # None
                               /\ Pte(q, VA_USER_VIDEO)' = VideoPage
                               /\ \A w \in Loaded(q) : Pte(q, w)' # None
                          /\ state'[q] \in {"page", "insert"} =>
                               /\ va'[q] \in UserPages /\ Within(last_reg'[q], va'[q])
                               /\ Pte(q, va[q])' = None
        BY <1>2, <1>9, <2>1, ConstantsSame DEF VmInv, UserInv, Within, Region, Frames, Members
      <3> QED
        BY <1>2, <1>9, <2>1 DEF VmInv, UserInv, Pte, hat
    <2> QED
      BY <1>3, <1>4, <1>5, <1>6, <1>7, <1>10, <2>2 DEF VmInv
  <1>13. CASE Lookup(p, v) # NoRegion
    <2> DEFINE rg == Lookup(p, v)
    <2>1. rg \in Members(rg_list[p]) /\ Within(rg, v)
      BY <1>11, <1>13, LookupIs DEF VmInv, UserInv, RegionInv
    <2>2. /\ last_reg' = [last_reg EXCEPT ![p] = rg] /\ va' = [va EXCEPT ![p] = v]
          /\ state'[p] = "page" /\ Pte(p, v) = None
      BY <1>1, <1>8, <1>13
    <2> HIDE DEF rg
    <2>3. rg \in Region /\ rg.start >= USER_BASE /\ rg.start \in Int
      BY <2>1, RegionFacts DEF VmInv
    <2>4. v \in UserPages
      BY <1>11, <2>1, <2>3, VmNumbers DEF Within, UserPages
    <2>5. /\ last_reg' \in [Procs -> Region] /\ last_reg'[p] = rg
          /\ va' \in [Procs -> Int] /\ va'[p] = v
          /\ \A q \in Procs \ {p} : last_reg'[q] = last_reg[q] /\ va'[q] = va[q]
      BY <1>11, <2>2, <2>3 DEF VmInv, UserInv
    <2>6. UserInv'
      <3>1. ASSUME NEW q \in Procs
            PROVE  /\ state'[q] = "insert" <=> new'[q] # None
                   /\ state'[q] = "none" <=> kstack'[q] = None
                   /\ last_reg'[q] \in Members(rg_list'[q]) \cup {NoRegion}
                   /\ state'[q] # "none" =>
                        /\ Recognized(Images[q]) /\ pa_pd'[q] # None
                        /\ Pte(q, VA_USER_VIDEO)' = VideoPage
                        /\ \A w \in Loaded(q) : Pte(q, w)' # None
        BY <1>2, <1>9, <2>1, <2>2, <2>5 DEF VmInv, UserInv, Pte, hat
      <3>2. ASSUME NEW q \in Procs, state'[q] \in {"page", "insert"}
            PROVE  /\ va'[q] \in UserPages /\ Within(last_reg'[q], va'[q])
                   /\ Pte(q, va[q])' = None
        <4>1. CASE q = p
          <5>1. Pte(q, va[q])' = Pte(p, v)
            BY <1>2, <2>5, <4>1 DEF Pte, hat
          <5> QED
            BY <2>1, <2>2, <2>4, <2>5, <4>1, <5>1
        <4>2. CASE q # p
          BY <1>2, <1>9, <2>5, <3>2, <4>2 DEF VmInv, UserInv, Pte, hat
        <4> QED
          BY <4>1, <4>2
      <3> QED
        BY <1>2, <1>9, <2>5, <3>1, <3>2, ConstantsSame DEF VmInv, UserInv, Within, Region, Frames, Members
    <2> QED
      BY <1>3, <1>4, <1>5, <1>6, <1>7, <1>10, <2>6 DEF VmInv
  <1> QED
    BY <1>12, <1>13

(* What a page that is taken from the free list is.                        *)
LEMMA FreePage ==
  ASSUME FrameInv, free # << >>
  PROVE  Head(free) \in Members(free) /\ Head(free) \in Frames /\ Head(free) # None
  BY TailDistinct, FrameFacts DEF FrameInv

(* page_fault() has got a page, cleared it and cached it.                  *)
LEMMA FaultPageKeeps ==
  ASSUME VmInv, NEW p \in Procs, FaultPage(p)
  PROVE  VmInv' /\ \A pv \in Mapped : Pte(pv[1], pv[2])' = Pte(pv[1], pv[2])
  <1> DEFINE f == Head(free)
  <1>1. /\ state[p] = "page" /\ free # << >>
        /\ new' = [new EXCEPT ![p] = f] /\ pt' = [pt EXCEPT ![f] = Zero]
        /\ free' = Tail(free) /\ CachePage(f)
        /\ state' = [state EXCEPT ![p] = "insert"]
        /\ pa_pd' = pa_pd /\ pd' = pd /\ rg_list' = rg_list /\ last_reg' = last_reg
        /\ va' = va /\ kstack' = kstack /\ UNCHANGED loader /\ hung' = hung
        /\ lpc' = lpc /\ c' = c /\ lva' = lva /\ lnew' = lnew
    BY DEF FaultPage, loader
  <1>2. f \in Members(free) /\ f \in Frames /\ f # None
    BY <1>1, FreePage DEF VmInv
  <1>3. /\ pt' \in [Frames -> [Index -> Int]]
        /\ \A q \in Procs, w \in UserPages : Pte(q, w)' = Pte(q, w)
    BY <1>1, <1>2, ClearKeepsPte DEF VmInv
  <1>4. Mapped' = Mapped /\ MappedPages' = MappedPages
    BY <1>1, <1>3, MappedSame
  <1>5. \A pv \in Mapped : Pte(pv[1], pv[2])' = Pte(pv[1], pv[2])
    BY <1>3 DEF Mapped, UserPages
  <1> HIDE DEF f
  <1>6. /\ new[p] = None /\ new' \in [Procs -> Frames] /\ new'[p] = f
        /\ \A q \in Procs \ {p} : new'[q] = new[q]
    BY <1>1, <1>2 DEF VmInv, UserInv
  <1>7. Faulting' = Faulting \cup {<<f, "fault", p>>}
    <2>1. \A u : u \in Faulting <=> \E q \in Procs : new[q] # None /\ u = <<new[q], "fault", q>>
      BY DEF Faulting
    <2>2. \A u : u \in Faulting' <=> \E q \in Procs : new'[q] # None /\ u = <<new'[q], "fault", q>>
      BY DEF Faulting, Procs
    <2>3. \A u : u \in Faulting' <=> u \in Faulting \/ u = <<f, "fault", p>>
      BY <1>2, <1>6, <2>1, <2>2
    <2> QED
      BY <2>3
  <1>8. FrameInv'
    <2>1. Owners' = Owners \cup {<<f, "fault", p>>}
      BY <1>1, <1>4, <1>7, PartsSame DEF Owners
    <2> QED
      BY <1>1, <2>1, OwnerTaken DEF VmInv, f
  <1>9. HatInv'
    BY <1>1, <1>3 DEF VmInv, HatInv, KernPd, KernTables, KernTable, Zero, Frames, Hats, Procs, Index
  <1>10. RegionInv'
    BY <1>1, <1>4, RegionSame DEF VmInv
  <1>11. ListInv' /\ HashInv'
    <2>1. Cached' \subseteq Cached \cup {f}
      BY <1>1, <1>4, <1>5, <1>6 DEF Cached
    <2> QED
      BY <1>1, <1>2, <2>1, CachePageKeeps DEF VmInv
  <1>12. /\ state' \in [Procs -> {"none", "user", "page", "insert", "dead"}]
         /\ state'[p] = "insert" /\ \A q \in Procs \ {p} : state'[q] = state[q]
    BY <1>1 DEF VmInv, UserInv
  <1>13. StageInv' /\ LoaderInv'
    <2>1. \A q \in Procs : q >= c => state[q] = "none"
      BY DEF VmInv, StageInv
    <2>2. \A q \in Procs : q >= c => state'[q] = state[q]
      BY <1>1, <1>12, <2>1
    <2> QED
      BY <1>1, <1>3, <2>2, LoaderSame DEF VmInv
  <1>14. UserInv'
    <2>1. ASSUME NEW q \in Procs
          PROVE  /\ state'[q] = "insert" <=> new'[q] # None
                 /\ state'[q] = "none" <=> kstack'[q] = None
                 /\ last_reg'[q] \in Members(rg_list'[q]) \cup {NoRegion}
      BY <1>1, <1>2, <1>6, <1>12 DEF VmInv, UserInv
    <2>2. ASSUME NEW q \in Procs, state'[q] # "none"
          PROVE  /\ Recognized(Images[q]) /\ pa_pd'[q] # None
                 /\ Pte(q, VA_USER_VIDEO)' = VideoPage
                 /\ \A w \in Loaded(q) : Pte(q, w)' # None
      <3>1. state[q] # "none"
        BY <1>1, <1>12, <2>2
      <3>2. VA_USER_VIDEO \in UserPages /\ Loaded(q) \subseteq UserPages
        BY VmNumbers DEF UserPages, Loaded
      <3> QED
        BY <1>1, <1>3, <3>1, <3>2 DEF VmInv, UserInv
    <2>3. ASSUME NEW q \in Procs, state'[q] \in {"page", "insert"}
          PROVE  /\ va'[q] \in UserPages /\ Within(last_reg'[q], va'[q])
                 /\ Pte(q, va[q])' = None
      <3>1. state[q] \in {"page", "insert"}
        BY <1>1, <1>12, <2>3
      <3>2. va[q] \in UserPages /\ Within(last_reg[q], va[q]) /\ Pte(q, va[q]) = None
        BY <3>1 DEF VmInv, UserInv
      <3>3. PICK w \in UserPages : w = va[q]
        BY <3>2
      <3>4. Pte(q, w)' = None
        BY <1>3, <3>2, <3>3
      <3> QED
        BY <1>1, <3>2, <3>3, <3>4 DEF Pte
    <2> QED
      BY <1>1, <1>6, <1>12, <2>1, <2>2, <2>3, ConstantsSame
         DEF VmInv, UserInv, Within, Region, Frames, Members
  <1> QED
    BY <1>5, <1>8, <1>9, <1>10, <1>11, <1>13, <1>14 DEF VmInv

(* hat_insert() and hat_map() have allocated a table.                      *)
LEMMA NewTableKeeps ==
  ASSUME VmInv, NEW p \in Procs, NEW v \in UserPages, pa_pd[p] # None, ~HasTable(p, v),
         free # << >>, NewTable(p, v),
         UNCHANGED <<pa_pd, rg_list, last_reg, cache, user, kstack, loader, hung>>
  PROVE  VmInv' /\ \A pv \in Mapped : Pte(pv[1], pv[2])' = Pte(pv[1], pv[2])
  <1> DEFINE f == Head(free)
             d == va2ipd(v)
  <1>0. /\ free' = Tail(free) /\ pa_pd' = pa_pd /\ rg_list' = rg_list /\ last_reg' = last_reg
        /\ UNCHANGED cache /\ UNCHANGED user /\ kstack' = kstack /\ UNCHANGED loader /\ hung' = hung
        /\ state' = state /\ va' = va /\ new' = new
        /\ lpc' = lpc /\ c' = c /\ lva' = lva /\ lnew' = lnew
    BY DEF NewTable, user, loader
  <1>1. f \in Members(free) /\ f \in Frames /\ f # None
    BY FreePage DEF VmInv
  <1>2. d \in Index \ KernTables /\ Procs \subseteq Hats /\ 0 \in Hats /\ 0 \notin Procs
    BY KernelBelow, VmNumbers DEF UserPages, Procs, Hats
  <1>3. /\ pt' \in [Frames -> [Index -> Int]] /\ pd' \in [Hats -> [Index -> Frames]]
        /\ pd'[p][d] = f /\ pd[p][d] = None
        /\ \A q \in Procs, w \in UserPages : Pte(q, w)' = Pte(q, w)
        /\ \A q \in Hats, x \in Index : <<q, x>> # <<p, d>> => pd'[q][x] = pd[q][x]
    BY NewTableKeepsPte DEF VmInv, HasTable
  <1> HIDE DEF f, d
  <1>4. Tables' = Tables \cup {<<f, "table", <<p, d>>>>}
    BY <1>1, <1>2, <1>3, TablesGrow DEF VmInv
  <1>5. Mapped' = Mapped /\ MappedPages' = MappedPages
    BY <1>0, <1>3, MappedSame
  <1>6. \A pv \in Mapped : Pte(pv[1], pv[2])' = Pte(pv[1], pv[2])
    BY <1>3 DEF Mapped, UserPages
  <1>7. FrameInv'
    <2>1. Owners' = Owners \cup {<<f, "table", <<p, d>>>>}
      BY <1>0, <1>4, <1>5, PartsSame DEF Owners
    <2> QED
      BY <1>0, <2>1, OwnerTaken DEF VmInv, f
  <1>8. HatInv'
    <2>1. \A q \in Hats \ {p} : pd'[q] = pd[q]
      <3> SUFFICES ASSUME NEW q \in Hats \ {p} PROVE pd'[q] = pd[q]
        OBVIOUS
      <3>1. pd'[q] \in [Index -> Frames] /\ pd[q] \in [Index -> Frames]
        BY <1>3 DEF VmInv, HatInv
      <3>2. \A x \in Index : pd'[q][x] = pd[q][x]
        BY <1>3
      <3> QED
        BY <3>1, <3>2
    <2>2. \A x \in KernTables : x \in Index /\ pd'[p][x] = pd[p][x]
      BY <1>2, <1>3, KernelBelow
    <2>3. pd'[0] = KernPd
      BY <1>2, <2>1 DEF VmInv, HatInv
    <2>4. ASSUME NEW q \in Procs
          PROVE  IF pa_pd[q] = None THEN pd'[q] = Zero
                 ELSE \A x \in KernTables : pd'[q][x] = KernTable(x)
      BY <1>2, <2>1, <2>2 DEF VmInv, HatInv
    <2> QED
      BY ZenonT(60), <1>0, <1>3, <2>3, <2>4
         DEF VmInv, HatInv, KernPd, KernTables, KernTable, Zero, Frames, Hats, Procs, Index
  <1>9. RegionInv'
    BY <1>0, <1>5, RegionSame DEF VmInv
  <1>10. ListInv' /\ HashInv'
    <2>1. Cached' = Cached
      BY <1>0, <1>5, <1>6 DEF Cached
    <2> QED
      BY <1>0, <2>1, CacheSame DEF VmInv
  <1>11. StageInv' /\ LoaderInv'
    BY <1>0, <1>3, LoaderSame DEF VmInv
  <1>12. UserInv'
    BY <1>0, <1>3, UserSame DEF VmInv
  <1> QED
    BY <1>6, <1>7, <1>8, <1>9, <1>10, <1>11, <1>12 DEF VmInv

(* hat_insert() has a table.                                               *)
LEMMA InsertKeepsHat ==
  ASSUME FrameInv, HatInv, NEW p \in Procs, NEW v \in UserPages, HasTable(p, v),
         NEW f \in Int, Insert(p, v, f), pd' = pd, pa_pd' = pa_pd
  PROVE  HatInv'
  BY InsertPte DEF HatInv, KernPd, KernTables, KernTable, Zero, Frames, Hats, Procs, Index

(* page_fault() enters the page, or allocates the table it needs.          *)
LEMMA FaultInsertKeeps ==
  ASSUME VmInv, NEW p \in Procs, FaultInsert(p)
  PROVE  VmInv' /\ \A pv \in Mapped : Pte(pv[1], pv[2])' = Pte(pv[1], pv[2])
  <1>1. /\ state[p] = "insert"
        /\ pa_pd' = pa_pd /\ rg_list' = rg_list /\ last_reg' = last_reg /\ UNCHANGED cache
        /\ kstack' = kstack /\ UNCHANGED loader /\ hung' = hung
        /\ lpc' = lpc /\ c' = c /\ lva' = lva /\ lnew' = lnew
    BY DEF FaultInsert, loader
  <1>2. /\ va[p] \in UserPages /\ Within(last_reg[p], va[p]) /\ Pte(p, va[p]) = None
        /\ new[p] # None /\ new[p] \in Frames /\ pa_pd[p] # None
        /\ Pte(p, VA_USER_VIDEO) = VideoPage
        /\ last_reg[p] \in Members(rg_list[p]) \cup {NoRegion}
    BY <1>1 DEF VmInv, UserInv
  <1>3. PICK v \in UserPages : v = va[p]
    BY <1>2
  <1>4. PICK f \in Frames : f = new[p] /\ f # None /\ f \in Int
    BY <1>2, VmNumbers DEF Frames
  <1>5. v # VA_USER_VIDEO /\ Pte(p, v) = None
    BY <1>2, <1>3, VmNumbers
  <1>6. CASE ~HasTable(p, v)
    <2>1. free # << >> /\ NewTable(p, v) /\ UNCHANGED user
      BY <1>3, <1>6 DEF FaultInsert
    <2> QED
      BY <1>1, <1>2, <1>6, <2>1, NewTableKeeps
  <1>7. CASE HasTable(p, v)
    <2>1. /\ Insert(p, v, f) /\ state' = [state EXCEPT ![p] = "user"]
          /\ new' = [new EXCEPT ![p] = None] /\ va' = [va EXCEPT ![p] = 0]
          /\ free' = free /\ pd' = pd
      BY <1>3, <1>4, <1>7 DEF FaultInsert
    <2>2. \A q \in Procs, w \in UserPages :
            Pte(q, w)' = IF q = p /\ w = v THEN f ELSE Pte(q, w)
      BY <1>4, <1>7, <2>1, InsertPte DEF VmInv
    <2>3. /\ Mapped' = Mapped \cup {<<p, v>>} /\ <<p, v>> \notin Mapped
          /\ MappedPages' = MappedPages \cup {<<f, "mapped", <<p, v>>>>}
          /\ \A pv \in Mapped : Pte(pv[1], pv[2])' = Pte(pv[1], pv[2])
      BY <1>1, <1>2, <1>4, <1>5, <2>2, MappedGrows
    <2>4. /\ new' \in [Procs -> Frames] /\ new'[p] = None
          /\ \A q \in Procs \ {p} : new'[q] = new[q]
      BY <2>1, VmNumbers, FrameFacts, <1>4 DEF VmInv, UserInv, Frames, None
    <2>5. Faulting' = Faulting \ {<<f, "fault", p>>} /\ <<f, "fault", p>> \in Faulting
      <3>1. \A u : u \in Faulting <=> \E q \in Procs : new[q] # None /\ u = <<new[q], "fault", q>>
        BY DEF Faulting
      <3>2. \A u : u \in Faulting' <=> \E q \in Procs : new'[q] # None /\ u = <<new'[q], "fault", q>>
        BY DEF Faulting, Procs
      <3>3. <<f, "fault", p>> \in Faulting
        BY <1>4, <3>1
      <3>4. \A u : u \in Faulting' <=> u \in Faulting /\ u # <<f, "fault", p>>
        BY <1>4, <2>4, <3>1, <3>2
      <3> QED
        BY <3>3, <3>4
    <2>6. FrameInv'
      <3>1. /\ <<f, "fault", p>> \notin Directories \cup KernelTables \cup Tables
                   \cup MappedPages \cup Stacks \cup Committed \cup Unread
        BY DEF Directories, KernelTables, Tables, MappedPages, Stacks, Committed, Unread
      <3>2. /\ Owners' = (Owners \ {<<f, "fault", p>>}) \cup {<<f, "mapped", <<p, v>>>>}
            /\ <<f, "fault", p>> \in Owners
        BY <1>1, <2>1, <2>3, <2>5, <3>1, PartsSame DEF Owners
      <3> QED
        BY <2>1, <3>2, OwnerMoved DEF VmInv
    <2>7. HatInv'
      BY <1>1, <1>4, <1>7, <2>1, InsertKeepsHat DEF VmInv
    <2>8. RegionInv'
      <3>1. last_reg[p] \in Members(rg_list[p]) /\ Within(last_reg[p], v)
        BY <1>2, <1>3, VmNumbers DEF Within, NoRegion, UserPages
      <3>2. \A pv \in Mapped' : \E rg \in Members(rg_list'[pv[1]]) : Within(rg, pv[2])
        BY <1>1, <2>3, <3>1 DEF VmInv, RegionInv
      <3> QED
        BY <1>1, <3>2 DEF VmInv, RegionInv, Apart, Members, Within, Region
    <2>9. ListInv' /\ HashInv'
      <3>1. f \in Cached
        BY <1>4 DEF Cached
      <3>2. Cached' \subseteq Cached
        BY <1>1, <2>2, <2>3, <2>4, <3>1 DEF Cached
      <3> QED
        BY <1>1, <3>2, CacheSame DEF VmInv
    <2>10. /\ state' \in [Procs -> {"none", "user", "page", "insert", "dead"}]
           /\ state'[p] = "user" /\ \A q \in Procs \ {p} : state'[q] = state[q]
      BY <2>1 DEF VmInv, UserInv
    <2>11. StageInv' /\ LoaderInv'
      <3>1. \A q \in Procs : q >= c => state[q] = "none"
        BY DEF VmInv, StageInv
      <3>2. p # c
        <4>1. p = c => p >= c
          BY DEF VmInv, StageInv
        <4> QED
          BY <1>1, <3>1, <4>1
      <3>3. /\ \A q \in Procs : q >= c => state'[q] = state[q]
            /\ \A q \in Procs : q = c => \A w \in UserPages : Pte(q, w)' = Pte(q, w)
        BY <1>1, <2>2, <2>10, <3>1, <3>2
      <3> QED
        BY <1>1, <3>3, LoaderSame DEF VmInv
    <2>12. UserInv'
      <3>1. ASSUME NEW q \in Procs
            PROVE  /\ state'[q] = "insert" <=> new'[q] # None
                   /\ state'[q] = "none" <=> kstack'[q] = None
                   /\ last_reg'[q] \in Members(rg_list'[q]) \cup {NoRegion}
        BY <1>1, <2>4, <2>10 DEF VmInv, UserInv
      <3>2. ASSUME NEW q \in Procs, state'[q] # "none"
            PROVE  /\ Recognized(Images[q]) /\ pa_pd'[q] # None
                   /\ Pte(q, VA_USER_VIDEO)' = VideoPage
                   /\ \A w \in Loaded(q) : Pte(q, w)' # None
        <4>1. state[q] # "none"
          BY <1>1, <2>10, <3>2
        <4>2. VA_USER_VIDEO \in UserPages /\ Loaded(q) \subseteq UserPages
          BY VmNumbers DEF UserPages, Loaded
        <4> QED
          BY <1>1, <1>4, <1>5, <2>2, <4>1, <4>2 DEF VmInv, UserInv
      <3>3. ASSUME NEW q \in Procs, state'[q] \in {"page", "insert"}
            PROVE  /\ va'[q] \in UserPages /\ Within(last_reg'[q], va'[q])
                   /\ Pte(q, va[q])' = None
        <4>1. q # p /\ state[q] \in {"page", "insert"} /\ va'[q] = va[q]
          BY <2>1, <2>10, <3>3 DEF VmInv, UserInv
        <4>2. va[q] \in UserPages /\ Within(last_reg[q], va[q]) /\ Pte(q, va[q]) = None
          BY <4>1 DEF VmInv, UserInv
        <4>3. PICK w \in UserPages : w = va[q]
          BY <4>2
        <4>4. Pte(q, w)' = None
          BY <2>2, <4>1, <4>2, <4>3
        <4> QED
          BY <1>1, <4>1, <4>2, <4>3, <4>4 DEF Pte
      <3>4. va' \in [Procs -> Int]
        BY <2>1 DEF VmInv, UserInv
      <3> QED
        BY <1>1, <2>4, <2>10, <3>1, <3>2, <3>3, <3>4, ConstantsSame
           DEF VmInv, UserInv, Within, Region, Frames, Members
    <2> QED
      BY <2>3, <2>6, <2>7, <2>8, <2>9, <2>11, <2>12 DEF VmInv
  <1> QED
    BY <1>6, <1>7

(* No page is left: nobody may touch page 0, and that is the end.          *)
LEMMA HangKeeps ==
  ASSUME VmInv, Hang
  PROVE  VmInv' /\ \A pv \in Mapped : Pte(pv[1], pv[2])' = Pte(pv[1], pv[2])
  <1>1. /\ free' = free /\ UNCHANGED hat /\ rg_list' = rg_list /\ last_reg' = last_reg
        /\ UNCHANGED cache /\ UNCHANGED user /\ kstack' = kstack /\ UNCHANGED loader /\ hung'
        /\ state' = state /\ va' = va /\ new' = new
        /\ lpc' = lpc /\ c' = c /\ lva' = lva /\ lnew' = lnew
        /\ pa_pd' = pa_pd /\ pd' = pd
    BY DEF Hang, user, loader, hat
  <1>2. /\ HatInv' /\ Mapped' = Mapped /\ MappedPages' = MappedPages
        /\ \A q \in Procs, w \in UserPages : Pte(q, w)' = Pte(q, w)
    BY <1>1, HatSame DEF VmInv
  <1>3. \A pv \in Mapped : Pte(pv[1], pv[2])' = Pte(pv[1], pv[2])
    BY <1>2 DEF Mapped, UserPages
  <1>4. FrameInv'
    BY <1>1, <1>2, PartsSame, OwnersSame DEF Owners, VmInv
  <1>5. RegionInv'
    BY <1>1, <1>2, RegionSame DEF VmInv
  <1>6. ListInv' /\ HashInv'
    <2>1. Cached' = Cached
      BY <1>1, <1>2, <1>3 DEF Cached
    <2> QED
      BY <1>1, <2>1, CacheSame DEF VmInv
  <1>7. StageInv' /\ LoaderInv'
    BY <1>1, <1>2, LoaderSame DEF VmInv
  <1>8. UserInv'
    BY <1>1, <1>2, UserSame DEF VmInv
  <1> QED
    BY <1>2, <1>3, <1>4, <1>5, <1>6, <1>7, <1>8 DEF VmInv

-----------------------------------------------------------------------------
(* elf_header(): where text and data of a module lie.                      *)
LEMMA HeaderIs ==
  ASSUME NEW p \in Procs, Recognized(Images[p])
  PROVE  /\ Text(p) \in Region /\ Data(p) \in Region /\ ExecHeader(Images[p]).bss_end \in Int
         /\ Text(p).start \in Nat /\ Text(p).size \in Nat
         /\ Data(p).start \in Nat /\ Data(p).size \in Nat
         /\ USER_BASE <= Text(p).start /\ Text(p).start < Data(p).start
         /\ 0 < Text(p).size /\ 0 < Data(p).size
         /\ Text(p).start + Text(p).size <= VA_USER_VIDEO
         /\ Data(p).start + Data(p).size <= ExecHeader(Images[p]).bss_end
         /\ ExecHeader(Images[p]).bss_end <= VA_USER_VIDEO
         /\ \A v \in Int : Within(Text(p), v) \/ Within(Data(p), v) =>
              v \in UserPages \ {VA_USER_VIDEO} /\ v \in Loaded(p)
  <1> DEFINE e == ExecHeader(Images[p])
  <1>1. Images[p].ph[1] \in Header /\ Images[p].ph[2] \in Header
    <2>1. Images[p].ph \in Seq(Header) /\ Len(Images[p].ph) >= 2
      BY ImagesAssumption DEF Module, Recognized
    <2> QED
      BY <2>1
  <1>2. \A v \in Nat : UserVa(v) \in Nat /\ UserVa(v) >= USER_BASE
    BY VmNumbers DEF UserVa
  <1>3. /\ e.text \in Nat /\ e.data \in Nat /\ e.bss_end \in Nat /\ e.tsize \in Nat /\ e.dsize \in Nat
        /\ e.text >= USER_BASE
    BY <1>1, <1>2 DEF ExecHeader, Header
  <1>4. /\ e.text < e.data /\ e.data + e.dsize <= e.bss_end
        /\ 0 < e.tsize /\ 0 < e.dsize
        /\ e.bss_end <= VA_USER_VIDEO /\ e.text + e.tsize <= VA_USER_VIDEO
    BY ImagesAssumption
  <1>5. /\ Text(p) = [start |-> e.text, size |-> e.tsize]
        /\ Data(p) = [start |-> e.data, size |-> e.dsize]
    BY DEF Text, Data
  <1> HIDE DEF e
  <1>6. /\ Text(p) \in Region /\ Data(p) \in Region
        /\ Text(p).start = e.text /\ Text(p).size = e.tsize
        /\ Data(p).start = e.data /\ Data(p).size = e.dsize
    BY <1>3, <1>5 DEF Region
  <1>7. ASSUME NEW v \in Int, Within(Text(p), v) \/ Within(Data(p), v)
        PROVE  v \in UserPages \ {VA_USER_VIDEO} /\ v \in Loaded(p)
    <2>1. v >= USER_BASE /\ v < VA_USER_VIDEO
      BY <1>3, <1>4, <1>6, <1>7, VmNumbers DEF Within
    <2>2. v \in UserPages \ {VA_USER_VIDEO}
      BY <2>1, VmNumbers DEF UserPages
    <2> QED
      BY <1>7, <2>2 DEF Loaded
  <1> QED
    BY <1>3, <1>4, <1>6, <1>7 DEF e

(* A step that only brings create_bootproc() on, or creates regions.       *)
LEMMA StageMoves ==
  ASSUME VmInv, UNCHANGED <<free, hat, last_reg, cache, user, kstack>>,
         lnew = None, lnew' = None, Unread' = Unread, RegionInv',
         \A p \in Procs : Members(rg_list[p]) \subseteq Members(rg_list'[p]),
         StageInv', LoaderInv'
  PROVE  VmInv' /\ \A pv \in Mapped : Pte(pv[1], pv[2])' = Pte(pv[1], pv[2])
  <1>1. /\ free' = free /\ UNCHANGED hat /\ last_reg' = last_reg
        /\ UNCHANGED cache /\ UNCHANGED user /\ kstack' = kstack
        /\ state' = state /\ va' = va /\ new' = new /\ pa_pd' = pa_pd /\ pd' = pd
    BY DEF user, hat
  <1>2. /\ HatInv' /\ Mapped' = Mapped /\ MappedPages' = MappedPages
        /\ \A q \in Procs, w \in UserPages : Pte(q, w)' = Pte(q, w)
    BY <1>1, HatSame DEF VmInv
  <1>3. \A pv \in Mapped : Pte(pv[1], pv[2])' = Pte(pv[1], pv[2])
    BY <1>2 DEF Mapped, UserPages
  <1>4. FrameInv'
    BY <1>1, <1>2, PartsSame, OwnersSame DEF Owners, VmInv
  <1>5. ListInv' /\ HashInv'
    <2>1. Cached' = Cached
      BY <1>1, <1>2, <1>3 DEF Cached
    <2> QED
      BY <1>1, <2>1, CacheSame DEF VmInv
  <1>6. UserInv'
    BY <1>1, <1>2, UserSame DEF VmInv
  <1> QED
    BY <1>2, <1>3, <1>4, <1>5, <1>6 DEF VmInv

(* create_bootproc() passes over a module.                                 *)
LEMMA LoaderSkipsKeeps ==
  ASSUME VmInv, LoaderSkips
  PROVE  VmInv' /\ \A pv \in Mapped : Pte(pv[1], pv[2])' = Pte(pv[1], pv[2])
  <1>1. /\ lpc = "proc" /\ c <= NBoot /\ ~Recognized(Images[c]) /\ c' = c + 1
        /\ lpc' = lpc /\ lva' = lva /\ lnew' = lnew /\ rg_list' = rg_list /\ pa_pd' = pa_pd
        /\ state' = state
        /\ UNCHANGED <<free, hat, last_reg, cache, user, kstack>>
    BY DEF LoaderSkips, LoaderAt, hat, user
  <1>2. c \in Nat /\ lnew = None
    BY <1>1 DEF VmInv, StageInv
  <1>3. \A p \in Procs : p \in Nat
    BY VmNumbers DEF Procs
  <1>4. Unread' = Unread
    <2>1. ASSUME NEW p \in Procs
          PROVE  (ImageKept(p)' <=> ImageKept(p)) /\ ImageFrom(p)' = ImageFrom(p)
      BY <1>1, <1>2, <1>3 DEF ImageKept, ImageFrom
    <2> QED
      BY <2>1, UnreadSame
  <1>5. StageInv'
    BY <1>1, <1>2, <1>3 DEF VmInv, StageInv, Frames, Procs
  <1>6. LoaderInv'
    BY <1>1 DEF LoaderInv
  <1>7. RegionInv'
    <2>1. Mapped' = Mapped
      BY <1>1, HatSame DEF VmInv
    <2> QED
      BY <1>1, <2>1, RegionSame DEF VmInv
  <1> QED
    BY <1>1, <1>2, <1>4, <1>5, <1>6, <1>7, StageMoves

(* create_bootproc(): a process with an address space of its own.          *)
LEMMA NewProcKeeps ==
  ASSUME VmInv, NewProc
  PROVE  VmInv' /\ \A pv \in Mapped : Pte(pv[1], pv[2])' = Pte(pv[1], pv[2])
  <1>1. PICK p : p = c
    OBVIOUS
  <1> DEFINE f == Head(free)
  <1>2. /\ lpc = "proc" /\ Recognized(Images[p]) /\ free # << >>
        /\ pa_pd' = [pa_pd EXCEPT ![p] = f] /\ pd' = [pd EXCEPT ![p] = pd[0]]
        /\ free' = Tail(free) /\ lpc' = "regions"
        /\ pt' = pt /\ rg_list' = rg_list /\ last_reg' = last_reg /\ UNCHANGED cache
        /\ UNCHANGED user /\ state' = state /\ va' = va /\ new' = new /\ kstack' = kstack
        /\ c' = c /\ lva' = lva /\ lnew' = lnew /\ hung' = hung
    BY <1>1 DEF NewProc, LoaderAt, user
  <1>3. p \in Procs /\ Procs \subseteq Hats /\ 0 \in Hats \ {p} /\ \A q \in Procs : q \in Nat
    BY SMTT(60), <1>1, VmNumbers DEF NewProc, LoaderAt, VmInv, StageInv, Procs, Hats
  <1>4. f \in Members(free) /\ f \in Frames /\ f # None
    BY <1>2, FreePage DEF VmInv
  <1> HIDE DEF f
  <1>5. pa_pd[p] = None /\ rg_list[p] = << >> /\ state[p] = "none"
    BY <1>1, <1>2, <1>3 DEF VmInv, StageInv
  <1>6. /\ pa_pd' \in [Hats -> Frames] /\ pa_pd'[p] = f
        /\ \A q \in Hats \ {p} : pa_pd'[q] = pa_pd[q]
        /\ pd' \in [Hats -> [Index -> Frames]] /\ pd'[p] = KernPd
        /\ \A q \in Hats \ {p} : pd'[q] = pd[q]
        /\ pd[p] = Zero
    BY <1>2, <1>3, <1>4, <1>5 DEF VmInv, HatInv
  <1>7. /\ \A d \in KernTables : KernPd[d] = KernTable(d)
        /\ \A d \in Index \ KernTables : KernPd[d] = None
        /\ \A d \in Index : Zero[d] = None
    BY KernelBelow DEF KernPd, Zero
  <1>8. \A v \in UserPages : Pte(p, v) = None /\ Pte(p, v)' = None
    <2> SUFFICES ASSUME NEW v \in UserPages PROVE Pte(p, v) = None /\ Pte(p, v)' = None
      OBVIOUS
    <2>1. va2ipd(v) \in Index \ KernTables
      BY KernelBelow DEF UserPages
    <2> QED
      BY <1>6, <1>7, <2>1 DEF Pte
  <1>9. \A q \in Procs \ {p}, v \in UserPages : Pte(q, v)' = Pte(q, v)
    BY <1>2, <1>3, <1>6 DEF Pte
  <1>10. Mapped' = Mapped
    <2>1. \A pv : pv \in Mapped <=>
            \E q \in Procs, v \in UserPages \ {VA_USER_VIDEO} :
              pv = <<q, v>> /\ pa_pd[q] # None /\ Pte(q, v) # None
      BY DEF Mapped, UserPages
    <2>2. \A pv : pv \in Mapped' <=>
            \E q \in Procs, v \in UserPages \ {VA_USER_VIDEO} :
              pv = <<q, v>> /\ pa_pd'[q] # None /\ Pte(q, v)' # None
      BY DEF Mapped, UserPages, VaTop
    <2>3. \A pv : pv \in Mapped' <=> pv \in Mapped
      BY <1>3, <1>6, <1>8, <1>9, <2>1, <2>2
    <2> QED
      BY <2>3
  <1>11. \A pv \in Mapped : Pte(pv[1], pv[2])' = Pte(pv[1], pv[2])
    BY <1>8, <1>9 DEF Mapped, UserPages
  <1>12. MappedPages' = MappedPages
    BY <1>10, <1>11 DEF MappedPages
  <1>13. Tables' = Tables
    <2>1. \A u : u \in Tables <=>
            \E q \in Procs, x \in Index \ KernTables :
              pd[q][x] # None /\ u = <<pd[q][x], "table", <<q, x>>>>
      BY DEF Tables
    <2>2. \A u : u \in Tables' <=>
            \E q \in Procs, x \in Index \ KernTables :
              pd'[q][x] # None /\ u = <<pd'[q][x], "table", <<q, x>>>>
      BY DEF Tables, Index, KernTables
    <2>3. \A q \in Procs, x \in Index \ KernTables : pd'[q][x] = pd[q][x]
      BY <1>3, <1>6, <1>7
    <2>4. \A u : u \in Tables' <=> u \in Tables
      BY <2>1, <2>2, <2>3
    <2> QED
      BY <2>4
  <1>14. Directories' = Directories \cup {<<f, "directory", p>>}
    <2>1. \A u : u \in Directories <=>
            \E h \in Hats : pa_pd[h] # None /\ u = <<pa_pd[h], "directory", h>>
      BY DEF Directories
    <2>2. \A u : u \in Directories' <=>
            \E h \in Hats : pa_pd'[h] # None /\ u = <<pa_pd'[h], "directory", h>>
      BY DEF Directories, Hats
    <2>3. \A u : u \in Directories' <=> u \in Directories \/ u = <<f, "directory", p>>
      BY <1>3, <1>4, <1>5, <1>6, <2>1, <2>2
    <2> QED
      BY <2>3
  <1>15. Unread' = Unread
    <2>1. ASSUME NEW q \in Procs
          PROVE  (ImageKept(q)' <=> ImageKept(q)) /\ ImageFrom(q)' = ImageFrom(q)
      BY <1>2 DEF ImageKept, ImageFrom
    <2> QED
      BY <2>1, UnreadSame
  <1>16. FrameInv'
    <2>1. Owners' = Owners \cup {<<f, "directory", p>>}
      BY <1>2, <1>12, <1>13, <1>14, <1>15, PartsSame DEF Owners
    <2> QED
      BY <1>2, <2>1, OwnerTaken DEF VmInv, f
  <1>17. HatInv'
    <2>1. ASSUME NEW q \in Procs
          PROVE  IF pa_pd'[q] = None THEN pd'[q] = Zero
                 ELSE \A x \in KernTables : pd'[q][x] = KernTable(x)
      <3>1. CASE q = p
        BY <1>4, <1>6, <1>7, <3>1
      <3>2. CASE q # p
        <4>1. q \in Hats \ {p} /\ pa_pd'[q] = pa_pd[q] /\ pd'[q] = pd[q]
          BY <1>3, <1>6, <3>2
        <4> QED
          BY <4>1 DEF VmInv, HatInv
      <3> QED
        BY <3>1, <3>2
    <2> QED
      BY <1>2, <1>3, <1>6, <2>1
         DEF VmInv, HatInv, KernPd, KernTables, KernTable, Zero, Frames, Hats, Procs, Index
  <1>18. RegionInv'
    BY <1>2, <1>10, RegionSame DEF VmInv
  <1>19. ListInv' /\ HashInv'
    <2>1. Cached' = Cached
      BY <1>2, <1>10, <1>11 DEF Cached
    <2> QED
      BY <1>2, <2>1, CacheSame DEF VmInv
  <1>20. StageInv'
    BY <1>1, <1>2, <1>3, <1>4, <1>6 DEF VmInv, StageInv, Frames, Procs
  <1>21. LoaderInv'
    BY <1>1, <1>2, <1>5, <1>8 DEF LoaderInv, Loading, UserPages, VaTop
  <1>22. UserInv'
    <2>1. \A q \in Procs : state[q] # "none" => q # p /\ q \in Hats
      BY <1>3, <1>5
    <2> QED
      BY <1>2, <1>6, <1>9, <2>1, UserSame DEF VmInv
  <1> QED
    BY <1>11, <1>16, <1>17, <1>18, <1>19, <1>20, <1>21, <1>22 DEF VmInv

(* The regions of text, data and bss.                                      *)
LEMMA CreateRegionsKeeps ==
  ASSUME VmInv, CreateRegions
  PROVE  VmInv' /\ \A pv \in Mapped : Pte(pv[1], pv[2])' = Pte(pv[1], pv[2])
  <1>1. PICK p : p = c
    OBVIOUS
  <1> DEFINE e == ExecHeader(Images[p])
             bss == e.data + e.dsize
             text == RegionCreate(<< >>, e.text, e.tsize)
             data == RegionCreate(text, e.data, e.dsize)
             all == IF e.bss_end > bss THEN RegionCreate(data, bss, e.bss_end - bss) ELSE data
  <1>2. /\ lpc = "regions" /\ rg_list' = [rg_list EXCEPT ![p] = all] /\ lpc' = "video"
        /\ UNCHANGED <<free, hat, last_reg, cache, user, kstack>>
        /\ pa_pd' = pa_pd /\ pd' = pd /\ pt' = pt /\ state' = state
        /\ c' = c /\ lva' = lva /\ lnew' = lnew /\ hung' = hung
    BY <1>1 DEF CreateRegions, LoaderAt, hat, user
  <1>3. /\ p \in Procs /\ Recognized(Images[p]) /\ pa_pd[p] # None /\ lnew = None
        /\ \A q \in Procs : q \in Nat
    BY <1>1, <1>2, VmNumbers DEF VmInv, StageInv, Procs
  <1>4. /\ Loading(p) /\ rg_list[p] = << >> /\ \A v \in UserPages : Pte(p, v) = None
    BY <1>1, <1>2, <1>3 DEF VmInv, LoaderInv, Loading
  <1>5. /\ Text(p) = [start |-> e.text, size |-> e.tsize] /\ Text(p) \in Region
        /\ Data(p) = [start |-> e.data, size |-> e.dsize] /\ Data(p) \in Region
        /\ Text(p).start = e.text /\ Text(p).size = e.tsize
        /\ Data(p).start = e.data /\ Data(p).size = e.dsize
        /\ e.text \in Nat /\ e.tsize \in Nat /\ e.data \in Nat /\ e.dsize \in Nat /\ e.bss_end \in Int
        /\ USER_BASE <= e.text /\ e.text < e.data /\ 0 < e.tsize /\ 0 < e.dsize
    BY <1>3, HeaderIs DEF Text, Data
  <1>6. text = << Text(p) >>
    BY ZenonT(60), <1>5 DEF RegionCreate
  <1> HIDE DEF e
  <1>7. /\ text \in Seq(Region) /\ Len(text) = 1 /\ text[1] = Text(p) /\ text # << >>
        /\ DOMAIN text = 1 .. 1
    <2> HIDE DEF text
    <2>1. PICK t \in Region : t = Text(p)
      BY <1>5
    <2>2. text = << t >>
      BY <1>6, <2>1
    <2> QED
      BY ONLY <2>1, <2>2
  <1> HIDE DEF text
  <1>8. Apart(text) /\ Members(text) = {Text(p)}
    BY <1>7 DEF Apart, Members
  <1>9. data = IF e.text + e.tsize > e.data THEN text ELSE Append(text, Data(p))
    <2>1. \A k \in 1 .. Len(text) : text[k].start <= e.data
      BY <1>5, <1>7
    <2>2. data = IF text[Len(text)].start + text[Len(text)].size > e.data THEN text
                 ELSE Append(text, [start |-> e.data, size |-> e.dsize])
      <3>1. text \in Seq(Region) /\ e.data \in Int /\ e.dsize \in Int /\ text # << >>
        BY <1>5, <1>7
      <3> QED
        BY ONLY <2>1, <3>1, RegionLast DEF data
    <2> HIDE DEF data
    <2> QED
      BY <1>5, <1>7, <2>2
  <1>10. /\ data \in Seq(Region) /\ Apart(data) /\ Members(text) \subseteq Members(data)
         /\ Members(data) \subseteq Members(text) \cup {Data(p)}
    BY <1>5, <1>7, <1>8, RegionCreateIs
  <1>11. e.text + e.tsize <= e.data => Data(p) \in Members(data)
    <2> SUFFICES ASSUME e.text + e.tsize <= e.data PROVE Data(p) \in Members(data)
      OBVIOUS
    <2>1. data = Append(text, Data(p))
      BY <1>5, <1>9
    <2>2. Append(text, Data(p))[2] = Data(p) /\ 2 \in DOMAIN Append(text, Data(p))
      <3>1. PICK t \in Region : t = Data(p)
        BY <1>5
      <3>2. Append(text, t)[2] = t /\ 2 \in DOMAIN Append(text, t)
        BY ONLY <1>7, <3>1
      <3> QED
        BY <3>1, <3>2
    <2> QED
      BY <2>1, <2>2 DEF Members
  <1>12. e.text + e.tsize > e.data => data = text
    BY <1>9
  <1> HIDE DEF data
  <1>13. bss \in Int /\ bss > e.data
    BY <1>5
  <1>14. /\ all \in Seq(Region) /\ Apart(all) /\ Members(data) \subseteq Members(all)
         /\ \A rg \in Members(all) : rg \in Members(data) \/ rg.start = bss
    <2>1. CASE e.bss_end > bss
      <3>1. all = RegionCreate(data, bss, e.bss_end - bss) /\ e.bss_end - bss \in Int
        BY <1>5, <1>13, <2>1
      <3> HIDE DEF all, bss
      <3>2. /\ all \in Seq(Region) /\ Apart(all) /\ Members(data) \subseteq Members(all)
            /\ Members(all) \subseteq Members(data) \cup {[start |-> bss, size |-> e.bss_end - bss]}
        BY <1>10, <1>13, <3>1, RegionCreateIs
      <3> QED
        BY <3>2
    <2>2. CASE ~(e.bss_end > bss)
      BY <1>10, <2>2
    <2> QED
      BY <2>1, <2>2
  <1> HIDE DEF all, bss
  <1>15. /\ Text(p) \in Members(all)
         /\ \A rg \in Members(all) : rg.start >= USER_BASE
         /\ \A rg \in Members(all) : rg.start = e.data => Data(p) \in Members(all) /\ e.text + e.tsize <= e.data
    <2>1. Text(p) \in Members(all)
      BY <1>8, <1>10, <1>14
    <2>2. ASSUME NEW rg \in Members(all)
          PROVE  rg = Text(p) \/ rg = Data(p) \/ rg.start = bss
      BY <1>8, <1>10, <1>14
    <2>3. \A rg \in Members(all) : rg.start >= USER_BASE
      BY <1>5, <1>13, <2>2, VmNumbers
    <2>4. ASSUME NEW rg \in Members(all), rg.start = e.data
          PROVE  Data(p) \in Members(all) /\ e.text + e.tsize <= e.data
      <3>1. rg \in Members(data)
        BY <1>5, <1>13, <1>14, <2>4
      <3>2. rg # Text(p)
        BY <1>5, <2>4
      <3>3. data # text
        BY <1>8, <3>1, <3>2
      <3> QED
        BY <1>5, <1>11, <1>12, <1>14, <3>3
    <2> QED
      BY <2>1, <2>3, <2>4
  <1>16. /\ rg_list' \in [Procs -> Seq(Region)] /\ rg_list'[p] = all
         /\ \A q \in Procs \ {p} : rg_list'[q] = rg_list[q]
    BY <1>2, <1>3, <1>14 DEF VmInv, RegionInv
  <1>17. /\ Mapped' = Mapped /\ \A q \in Procs, v \in UserPages : Pte(q, v)' = Pte(q, v)
    BY <1>2, HatSame DEF VmInv
  <1>18. \A q \in Procs : Members(rg_list[q]) \subseteq Members(rg_list'[q])
    <2>1. Members(rg_list[p]) = {}
      BY <1>4 DEF Members
    <2> QED
      BY <1>16, <2>1
  <1>19. RegionInv'
    <2>1. ASSUME NEW q \in Procs
          PROVE  Apart(rg_list'[q]) /\ \A rg \in Members(rg_list'[q]) : rg.start >= USER_BASE
      BY <1>14, <1>15, <1>16 DEF VmInv, RegionInv
    <2>2. \A pv \in Mapped : \E rg \in Members(rg_list'[pv[1]]) : Within(rg, pv[2])
      <3>1. \A pv \in Mapped : pv[1] \in Procs
        BY DEF Mapped
      <3> QED
        BY <1>18, <3>1 DEF VmInv, RegionInv
    <2> QED
      BY <1>16, <1>17, <2>1, <2>2 DEF RegionInv, Apart, Members, Within, Region
  <1>20. Unread' = Unread
    <2>1. ASSUME NEW q \in Procs
          PROVE  (ImageKept(q)' <=> ImageKept(q)) /\ ImageFrom(q)' = ImageFrom(q)
      BY <1>2 DEF ImageKept, ImageFrom
    <2> QED
      BY <2>1, UnreadSame
  <1>21. StageInv'
    <2>1. \A q \in Procs : q > c => q # p
      BY <1>1, <1>3
    <2> QED
      BY <1>1, <1>2, <1>3, <1>16, <2>1 DEF VmInv, StageInv, Frames, Procs
  <1>22. LoaderInv'
    <2>1. HasData(p)' <=> Data(p) \in Members(all) /\ Text(p).start + Text(p).size <= Data(p).start
      BY <1>16, ConstantsSame, <1>3 DEF HasData
    <2>2. Loading(p)'
      <3>1. /\ Text(p)' = Text(p) /\ Data(p)' = Data(p)
        BY ONLY <1>3, ConstantsSame
      <3>2. \A rg \in Members(rg_list'[p]) : rg.start = Data(p).start => HasData(p)'
        BY <1>5, <1>15, <1>16, <2>1
      <3> QED
        BY <1>2, <1>4, <1>15, <1>16, <1>17, <3>1, <3>2 DEF Loading, UserPages, VaTop
    <2> QED
      BY <1>1, <1>2, <2>2 DEF LoaderInv
  <1> QED
    BY <1>2, <1>3, <1>18, <1>19, <1>20, <1>21, <1>22, StageMoves

(* The threads do not see what create_bootproc() maps for a new process.   *)
LEMMA OthersRun ==
  ASSUME StageInv, NEW p \in Procs, p = c,
         NEW q \in Procs, state[q] # "none"
  PROVE  q # p /\ q < c
  <1>1. p \in Nat /\ q \in Nat
    BY VmNumbers DEF Procs
  <1> QED
    BY <1>1 DEF StageInv

(* hat_map() of the page of video memory.                                  *)
LEMMA MapVideoKeeps ==
  ASSUME VmInv, MapVideo
  PROVE  VmInv' /\ \A pv \in Mapped : Pte(pv[1], pv[2])' = Pte(pv[1], pv[2])
  <1>1. PICK p : p = c
    OBVIOUS
  <1> DEFINE V == VA_USER_VIDEO
  <1>2. /\ lpc = "video" /\ ~hung /\ hung' = hung
        /\ pa_pd' = pa_pd /\ rg_list' = rg_list /\ last_reg' = last_reg
        /\ UNCHANGED cache /\ UNCHANGED user /\ kstack' = kstack /\ c' = c /\ lnew' = lnew
        /\ state' = state /\ new' = new
    BY DEF MapVideo, LoaderAt, user
  <1>3. /\ p \in Procs /\ Recognized(Images[p]) /\ pa_pd[p] # None /\ lnew = None
        /\ V \in UserPages /\ VideoPage \in Int /\ VideoPage # None
    BY <1>1, <1>2, VmNumbers DEF VmInv, StageInv, UserPages
  <1>4. Loading(p) /\ \A v \in UserPages : Pte(p, v) = None
    BY <1>1, <1>2, <1>3 DEF VmInv, LoaderInv, Loading
  <1>5. CASE ~HasTable(p, V)
    <2>1. free # << >> /\ NewTable(p, V) /\ UNCHANGED loader
      BY <1>1, <1>2, <1>5 DEF MapVideo, loader
    <2> QED
      BY <1>2, <1>3, <1>5, <2>1, NewTableKeeps
  <1>6. CASE HasTable(p, V)
    <2>1. /\ Insert(p, V, VideoPage) /\ lpc' = "commit" /\ lva' = Text(p).start
          /\ free' = free /\ pd' = pd
      BY <1>1, <1>6 DEF MapVideo, Text
    <2>2. \A q \in Procs, w \in UserPages :
            Pte(q, w)' = IF q = p /\ w = V THEN VideoPage ELSE Pte(q, w)
      BY <1>3, <1>6, <2>1, InsertPte DEF VmInv
    <2>3. Mapped' = Mapped /\ MappedPages' = MappedPages
      BY <1>2, <2>2, MappedSame
    <2>4. \A pv \in Mapped : Pte(pv[1], pv[2])' = Pte(pv[1], pv[2])
      BY <2>2 DEF Mapped, UserPages
    <2>5. Unread' = Unread
      <3>1. ASSUME NEW q \in Procs
            PROVE  (ImageKept(q)' <=> ImageKept(q)) /\ ImageFrom(q)' = ImageFrom(q)
        BY <1>2, <2>1 DEF ImageKept, ImageFrom
      <3> QED
        BY <3>1, UnreadSame
    <2>6. FrameInv'
      <3>1. Owners' = Owners
        BY <1>2, <2>1, <2>3, <2>5, PartsSame DEF Owners
      <3> QED
        BY <2>1, <3>1, OwnersSame DEF VmInv
    <2>7. HatInv'
      BY <1>2, <1>3, <1>6, <2>1, InsertKeepsHat DEF VmInv
    <2>8. RegionInv'
      BY <1>2, <2>3, RegionSame DEF VmInv
    <2>9. ListInv' /\ HashInv'
      <3>1. Cached' = Cached
        BY <1>2, <2>3, <2>4 DEF Cached
      <3> QED
        BY <1>2, <3>1, CacheSame DEF VmInv
    <2>10. Text(p).start \in Nat /\ Within(Text(p), Text(p).start)
      BY <1>3, HeaderIs DEF Within
    <2>11. StageInv'
      BY <1>1, <1>2, <1>3, <2>1, <2>10 DEF VmInv, StageInv, Frames, Procs
    <2>12. LoaderInv'
      <3>1. /\ Text(p)' = Text(p) /\ Data(p)' = Data(p) /\ (HasData(p)' <=> HasData(p))
        BY <1>2, <1>3, ConstantsSame DEF HasData, Members
      <3>2. /\ Text(p) \in Members(rg_list[p])
            /\ \A rg \in Members(rg_list[p]) : rg.start = Data(p).start => HasData(p)
        BY <1>2, <1>4 DEF Loading
      <3>3. Pte(p, V)' = VideoPage /\ \A v \in UserPages \ {V} : Pte(p, v)' = None
        BY <1>3, <1>4, <2>2
      <3>4. Loading(p)'
        BY <1>2, <2>1, <2>10, <3>1, <3>2, <3>3 DEF Loading, UserPages, VaTop, Within, Members
      <3> QED
        BY <1>1, <1>2, <3>4 DEF LoaderInv
    <2>13. UserInv'
      <3>1. ASSUME NEW q \in Procs, state[q] # "none"
            PROVE  \A v \in UserPages : Pte(q, v)' = Pte(q, v)
        BY <1>1, <1>3, <2>2, <3>1, OthersRun DEF VmInv
      <3> QED
        BY <1>2, <3>1, UserSame DEF VmInv
    <2> QED
      BY <2>4, <2>6, <2>7, <2>8, <2>9, <2>11, <2>12, <2>13 DEF VmInv
  <1> QED
    BY <1>5, <1>6

(* region_commit(): a page is taken and cached ...                         *)
LEMMA CommitPageKeeps ==
  ASSUME VmInv, CommitPage
  PROVE  VmInv' /\ \A pv \in Mapped : Pte(pv[1], pv[2])' = Pte(pv[1], pv[2])
  <1>1. PICK p : p = c
    OBVIOUS
  <1> DEFINE f == Head(free)
  <1>2. /\ lpc = "commit" /\ free # << >> /\ lnew' = f /\ free' = Tail(free) /\ CachePage(f)
        /\ lpc' = "insert" /\ UNCHANGED hat /\ rg_list' = rg_list /\ last_reg' = last_reg
        /\ UNCHANGED user /\ kstack' = kstack /\ c' = c /\ lva' = lva /\ hung' = hung
        /\ state' = state /\ new' = new /\ pa_pd' = pa_pd /\ pd' = pd /\ pt' = pt
    BY DEF CommitPage, LoaderAt, user, hat
  <1>3. p \in Procs /\ Recognized(Images[p]) /\ pa_pd[p] # None /\ lnew = None
    BY <1>1, <1>2 DEF VmInv, StageInv
  <1>4. f \in Members(free) /\ f \in Frames /\ f # None
    BY <1>2, FreePage DEF VmInv
  <1> HIDE DEF f
  <1>5. /\ HatInv' /\ Mapped' = Mapped /\ MappedPages' = MappedPages
        /\ \A q \in Procs, v \in UserPages : Pte(q, v)' = Pte(q, v)
    BY <1>2, HatSame DEF VmInv
  <1>6. \A pv \in Mapped : Pte(pv[1], pv[2])' = Pte(pv[1], pv[2])
    BY <1>5 DEF Mapped, UserPages
  <1>7. Unread' = Unread
    <2>1. ASSUME NEW q \in Procs
          PROVE  (ImageKept(q)' <=> ImageKept(q)) /\ ImageFrom(q)' = ImageFrom(q)
      BY <1>2 DEF ImageKept, ImageFrom
    <2> QED
      BY <2>1, UnreadSame
  <1>8. FrameInv'
    <2>1. Committed = {} /\ Committed' = {<<f, "commit", p>>}
      BY <1>1, <1>2, <1>3, <1>4 DEF Committed
    <2>2. Owners' = Owners \cup {<<f, "commit", p>>}
      BY <1>2, <1>5, <1>7, <2>1, PartsSame DEF Owners
    <2> QED
      BY <1>2, <2>2, OwnerTaken DEF VmInv, f
  <1>9. RegionInv'
    BY <1>2, <1>5, RegionSame DEF VmInv
  <1>10. ListInv' /\ HashInv'
    <2>1. Cached' \subseteq Cached \cup {f}
      BY <1>2, <1>5, <1>6 DEF Cached
    <2> QED
      BY <1>2, <1>4, <2>1, CachePageKeeps DEF VmInv
  <1>11. StageInv'
    BY <1>1, <1>2, <1>3, <1>4 DEF VmInv, StageInv, Frames, Procs
  <1>12. LoaderInv'
    <2>1. /\ Text(p)' = Text(p) /\ Data(p)' = Data(p) /\ (HasData(p)' <=> HasData(p))
      BY <1>2, <1>3, ConstantsSame DEF HasData, Members
    <2>2. Loading(p) /\ VA_USER_VIDEO \in UserPages
      BY <1>1, <1>2, <1>3, VmNumbers DEF VmInv, LoaderInv, UserPages
    <2>3. Loading(p)'
      BY <1>2, <1>3, <1>5, <2>1, <2>2 DEF Loading, UserPages, VaTop, Within, Members
    <2> QED
      BY <1>1, <1>2, <2>3 DEF LoaderInv
  <1>13. UserInv'
    BY <1>2, <1>5, UserSame DEF VmInv
  <1> QED
    BY <1>5, <1>6, <1>8, <1>9, <1>10, <1>11, <1>12, <1>13 DEF VmInv

(* ... and entered, the next one, or the first of the data, in its turn.   *)
LEMMA CommitInsertKeeps ==
  ASSUME VmInv, CommitInsert
  PROVE  VmInv' /\ \A pv \in Mapped : Pte(pv[1], pv[2])' = Pte(pv[1], pv[2])
  <1>1. PICK p : p = c
    OBVIOUS
  <1> DEFINE textDone == lva + 1 = Text(p).start + Text(p).size
             data == \E i \in DOMAIN rg_list[p] : rg_list[p][i].start = Data(p).start
  <1>2. /\ lpc = "insert" /\ ~hung
        /\ pa_pd' = pa_pd /\ rg_list' = rg_list /\ last_reg' = last_reg
        /\ UNCHANGED cache /\ UNCHANGED user /\ kstack' = kstack /\ c' = c
        /\ state' = state /\ new' = new
    BY DEF CommitInsert, LoaderAt, user
  <1>3. /\ p \in Procs /\ Recognized(Images[p]) /\ pa_pd[p] # None
        /\ lnew # None /\ lnew \in Frames /\ lva \in Nat
    BY <1>1, <1>2 DEF VmInv, StageInv
  <1>4. /\ Text(p) \in Members(rg_list[p])
        /\ \A rg \in Members(rg_list[p]) : rg.start = Data(p).start => HasData(p)
        /\ Pte(p, VA_USER_VIDEO) = VideoPage
        /\ Within(Text(p), lva) \/ (HasData(p) /\ Within(Data(p), lva))
        /\ \A v \in UserPages \ {VA_USER_VIDEO} : v >= lva => Pte(p, v) = None
    BY <1>1, <1>2, <1>3 DEF VmInv, LoaderInv, Loading
  <1>5. PICK v \in UserPages : v = lva /\ v # VA_USER_VIDEO /\ v \in Nat
    <2>1. lva \in Int
      BY <1>3
    <2> QED
      BY <1>3, <1>4, <2>1, HeaderIs
  <1>6. v \in UserPages \ {VA_USER_VIDEO}
    BY <1>5
  <1>7. PICK f \in Frames : f = lnew /\ f # None /\ f \in Int
    BY <1>3, VmNumbers DEF Frames
  <1>8. CASE ~HasTable(p, v)
    <2>1. free # << >> /\ NewTable(p, v) /\ UNCHANGED loader /\ hung' = hung
      BY <1>1, <1>2, <1>5, <1>8 DEF CommitInsert, loader
    <2> QED
      BY <1>2, <1>3, <1>6, <1>8, <2>1, NewTableKeeps
  <1>9. CASE HasTable(p, v)
    <2>1. /\ Insert(p, v, f) /\ lnew' = None /\ free' = free /\ pd' = pd
          /\ lva' = (IF textDone THEN Data(p).start ELSE v + 1)
          /\ lpc' = (IF data /\ ~textDone /\ v + 1 = Data(p).start + Data(p).size
                     THEN "copy" ELSE "commit")
          /\ hung' = (textDone /\ ~data)
      BY <1>1, <1>5, <1>7, <1>9 DEF CommitInsert, Text, Data
    <2>2. \A q \in Procs, w \in UserPages :
            Pte(q, w)' = IF q = p /\ w = v THEN f ELSE Pte(q, w)
      BY <1>3, <1>6, <1>7, <1>9, <2>1, InsertPte DEF VmInv
    <2>3. Pte(p, v) = None
      BY <1>4, <1>5, <1>6
    <2>4. /\ Mapped' = Mapped \cup {<<p, v>>} /\ <<p, v>> \notin Mapped
          /\ MappedPages' = MappedPages \cup {<<f, "mapped", <<p, v>>>>}
          /\ \A pv \in Mapped : Pte(pv[1], pv[2])' = Pte(pv[1], pv[2])
      BY <1>2, <1>3, <1>5, <1>7, <2>2, <2>3, MappedGrows
    <2>5. Unread' = Unread
      <3>1. ASSUME NEW q \in Procs
            PROVE  (ImageKept(q)' <=> ImageKept(q)) /\ ImageFrom(q)' = ImageFrom(q)
        BY <1>2, <2>1 DEF ImageKept, ImageFrom
      <3> QED
        BY <3>1, UnreadSame
    <2>6. FrameInv'
      <3>1. Committed = {<<f, "commit", p>>} /\ Committed' = {}
        BY <1>1, <1>7, <2>1 DEF Committed
      <3>2. /\ <<f, "commit", p>> \notin Directories \cup KernelTables \cup Tables
                   \cup MappedPages \cup Stacks \cup Faulting \cup Unread
        BY DEF Directories, KernelTables, Tables, MappedPages, Stacks, Faulting, Unread
      <3>3. /\ Owners' = (Owners \ {<<f, "commit", p>>}) \cup {<<f, "mapped", <<p, v>>>>}
            /\ <<f, "commit", p>> \in Owners
        BY <1>2, <2>1, <2>4, <2>5, <3>1, <3>2, PartsSame DEF Owners
      <3> QED
        BY <2>1, <3>3, OwnerMoved DEF VmInv
    <2>7. HatInv'
      BY <1>2, <1>3, <1>6, <1>7, <1>9, <2>1, InsertKeepsHat DEF VmInv
    <2>8. RegionInv'
      <3>1. \E rg \in Members(rg_list[p]) : Within(rg, v)
        BY <1>4, <1>5 DEF HasData
      <3>2. \A pv \in Mapped' : \E rg \in Members(rg_list'[pv[1]]) : Within(rg, pv[2])
        BY <1>2, <2>4, <3>1 DEF VmInv, RegionInv
      <3> QED
        BY <1>2, <3>2 DEF VmInv, RegionInv, Apart, Members, Within, Region
    <2>9. ListInv' /\ HashInv'
      <3>1. f \in Cached
        BY <1>7 DEF Cached
      <3>2. Pte(p, v)' = f
        BY <1>3, <1>6, <2>2
      <3>3. ASSUME NEW pv \in Mapped' PROVE Pte(pv[1], pv[2])' \in Cached
        <4>1. CASE pv \in Mapped
          BY <2>4, <4>1 DEF Cached
        <4>2. CASE pv = <<p, v>>
          BY <3>1, <3>2, <4>2
        <4> QED
          BY <2>4, <4>1, <4>2
      <3>4. Cached' \subseteq Cached
        BY <1>2, <2>1, <3>3 DEF Cached
      <3> QED
        BY <1>2, <3>4, CacheSame DEF VmInv
    <2>10. /\ Text(p).start \in Nat /\ Text(p).size \in Nat /\ Data(p).start \in Nat
           /\ Data(p).size \in Nat /\ 0 < Data(p).size
      BY <1>3, HeaderIs
    <2>11. StageInv'
      <3>1. lva' \in Nat /\ lpc' \in {"copy", "commit"}
        BY <1>5, <2>1, <2>10
      <3>2. None \in Frames
        BY VmNumbers DEF Frames, None
      <3> QED
        BY <1>1, <1>2, <1>3, <2>1, <3>1, <3>2 DEF VmInv, StageInv, Frames, Procs
    <2>12. LoaderInv'
      <3>1. /\ Text(p)' = Text(p) /\ Data(p)' = Data(p) /\ (HasData(p)' <=> HasData(p))
        BY <1>2, <1>3, ConstantsSame DEF HasData, Members
      <3>2. data => HasData(p)
        BY <1>4 DEF Members
      <3>3. HasData(p) => data /\ Text(p).start + Text(p).size <= Data(p).start
        BY DEF HasData, Members
      <3>4. ASSUME lpc' = "commit", ~hung'
            PROVE  /\ Within(Text(p), lva') \/ (HasData(p) /\ Within(Data(p), lva'))
                   /\ lva' > v
        <4>1. CASE textDone
          <5>1. HasData(p) /\ lva' = Data(p).start
            BY <2>1, <3>2, <3>4, <4>1
          <5>2. Within(Data(p), lva')
            BY <2>10, <5>1 DEF Within
          <5>3. lva' > v
            BY <1>5, <2>10, <3>3, <4>1, <5>1
          <5> QED
            BY <5>1, <5>2, <5>3
        <4>2. CASE ~textDone
          <5>1. lva' = v + 1 /\ ~(data /\ v + 1 = Data(p).start + Data(p).size)
            BY <2>1, <3>4, <4>2
          <5>2. CASE Within(Text(p), v)
            BY <1>5, <2>10, <4>2, <5>1, <5>2 DEF Within
          <5>3. CASE HasData(p) /\ Within(Data(p), v)
            BY <1>5, <2>10, <3>3, <5>1, <5>3 DEF Within
          <5> QED
            BY <1>4, <1>5, <5>2, <5>3
        <4> QED
          BY <4>1, <4>2
      <3>5. ASSUME lpc' = "commit", ~hung', NEW w \in UserPages \ {VA_USER_VIDEO}, w >= lva'
            PROVE  Pte(p, w)' = None
        <4>1. lva' > v /\ lva' \in Nat
          BY <1>5, <2>1, <2>10, <3>4, <3>5
        <4>2. w \in Int /\ w > v
          BY <3>5, <4>1, VmNumbers DEF UserPages
        <4> QED
          BY <1>3, <1>4, <1>5, <2>2, <4>2
      <3>6. Pte(p, VA_USER_VIDEO)' = VideoPage
        <4>1. VA_USER_VIDEO \in UserPages
          BY VmNumbers DEF UserPages
        <4> QED
          BY <1>3, <1>4, <1>6, <2>2, <4>1
      <3>7. lpc' \in {"copy", "commit"}
        BY <2>1
      <3>8. Loading(p)'
        BY <1>2, <1>4, <3>1, <3>4, <3>5, <3>6, <3>7 DEF Loading, UserPages, VaTop, Within, Members
      <3> QED
        BY <1>1, <1>2, <3>8 DEF LoaderInv
    <2>13. UserInv'
      <3>1. ASSUME NEW q \in Procs, state[q] # "none"
            PROVE  \A w \in UserPages : Pte(q, w)' = Pte(q, w)
        BY <1>1, <1>3, <2>2, <3>1, OthersRun DEF VmInv
      <3> QED
        BY <1>2, <3>1, UserSame DEF VmInv
    <2> QED
      BY <2>4, <2>6, <2>7, <2>8, <2>9, <2>11, <2>12, <2>13 DEF VmInv
  <1> QED
    BY <1>8, <1>9

(* The image is copied: everything it is written to is there, or the idle  *)
(* thread has no vas to fault it in.                                       *)
LEMMA CopyImageKeeps ==
  ASSUME VmInv, CopyImage
  PROVE  VmInv' /\ \A pv \in Mapped : Pte(pv[1], pv[2])' = Pte(pv[1], pv[2])
  <1>1. PICK p : p = c
    OBVIOUS
  <1> DEFINE e == ExecHeader(Images[p])
             to == (e.text .. e.text + e.tsize - 1) \cup (e.data .. e.data + e.dsize - 1)
  <1>2. /\ lpc = "copy" /\ ~hung /\ hung' = (\E v \in to : Pte(p, v) = None)
        /\ lpc' = "reclaim" /\ lva' = Images[p].first
        /\ UNCHANGED <<free, hat, last_reg, cache, user, kstack>>
        /\ rg_list' = rg_list /\ c' = c /\ lnew' = lnew
        /\ pa_pd' = pa_pd /\ state' = state
    BY <1>1 DEF CopyImage, LoaderAt, hat, user
  <1>3. /\ p \in Procs /\ Recognized(Images[p]) /\ pa_pd[p] # None /\ lnew = None
        /\ \A q \in Procs : q \in Nat
    BY <1>1, <1>2, VmNumbers DEF VmInv, StageInv, Procs
  <1>4. /\ Images[p].first \in Nat /\ Images[p].last \in Nat /\ Images[p].first <= Images[p].last
    BY <1>3, ImagesAssumption DEF Module
  <1>5. Mapped' = Mapped /\ \A q \in Procs, v \in UserPages : Pte(q, v)' = Pte(q, v)
    BY <1>2, HatSame DEF VmInv
  <1>6. Unread' = Unread
    <2>1. ASSUME NEW q \in Procs
          PROVE  (ImageKept(q)' <=> ImageKept(q)) /\ ImageFrom(q)' = ImageFrom(q)
      BY <1>1, <1>2 DEF ImageKept, ImageFrom
    <2> QED
      BY <2>1, UnreadSame
  <1>7. StageInv'
    BY <1>1, <1>2, <1>3, <1>4 DEF VmInv, StageInv, Frames, Procs
  <1>8. Loaded(p) \subseteq to
    <2>1. /\ Text(p).start = e.text /\ Text(p).size = e.tsize
          /\ Data(p).start = e.data /\ Data(p).size = e.dsize
      BY DEF Text, Data
    <2>2. e.text \in Nat /\ e.tsize \in Nat /\ e.data \in Nat /\ e.dsize \in Nat
      BY <1>3, <2>1, HeaderIs
    <2> HIDE DEF e
    <2>3. ASSUME NEW v \in Loaded(p) PROVE v \in to
      <3>1. v \in Int /\ (Within(Text(p), v) \/ Within(Data(p), v))
        BY VmNumbers DEF Loaded, UserPages
      <3> QED
        BY <2>1, <2>2, <3>1 DEF Within
    <2> QED
      BY <2>3
  <1> HIDE DEF to
  <1>9. LoaderInv'
    <2>1. /\ Text(p)' = Text(p) /\ Data(p)' = Data(p) /\ (HasData(p)' <=> HasData(p))
          /\ Loaded(p)' = Loaded(p)
      BY <1>2, <1>3, ConstantsSame DEF HasData, Members
    <2>2. Loading(p)
      BY <1>1, <1>2, <1>3 DEF VmInv, LoaderInv
    <2>3. ~hung' => \A v \in Loaded(p) : Pte(p, v)' # None
      BY <1>2, <1>3, <1>5, <1>8 DEF Loaded
    <2>4. VA_USER_VIDEO \in UserPages
      BY VmNumbers DEF UserPages
    <2>5. Loading(p)'
      BY <1>2, <1>3, <1>5, <2>1, <2>2, <2>3, <2>4 DEF Loading, Members
    <2> QED
      BY <1>1, <1>2, <2>5 DEF LoaderInv
  <1>10. RegionInv'
    BY <1>2, <1>5, RegionSame DEF VmInv
  <1> QED
    BY <1>2, <1>3, <1>6, <1>7, <1>9, <1>10, StageMoves

(* reclaim_region(): a page of the image is free from here on.             *)
LEMMA ReclaimKeeps ==
  ASSUME VmInv, Reclaim
  PROVE  VmInv' /\ \A pv \in Mapped : Pte(pv[1], pv[2])' = Pte(pv[1], pv[2])
  <1>1. PICK p : p = c
    OBVIOUS
  <1>2. /\ lpc = "reclaim" /\ ~hung /\ free' = << lva >> \o free
        /\ IF lva = Images[p].last THEN lpc' = "thread" /\ lva' = 0
           ELSE lpc' = lpc /\ lva' = lva + 1
        /\ UNCHANGED hat /\ UNCHANGED cache /\ UNCHANGED user /\ kstack' = kstack
        /\ rg_list' = rg_list /\ last_reg' = last_reg
        /\ c' = c /\ lnew' = lnew /\ hung' = hung
        /\ pa_pd' = pa_pd /\ pd' = pd /\ state' = state /\ new' = new
    BY <1>1 DEF Reclaim, LoaderAt, hat, user
  <1>3. /\ p \in Procs /\ Recognized(Images[p]) /\ pa_pd[p] # None /\ lnew = None
        /\ \A q \in Procs : q \in Nat
        /\ lva \in Images[p].first .. Images[p].last /\ lva \in Nat
    BY <1>1, <1>2, VmNumbers DEF VmInv, StageInv, Procs
  <1>4. /\ Images[p].first \in Nat /\ Images[p].last \in Nat
        /\ Images[p].first <= lva /\ lva <= Images[p].last
    BY <1>3, ImagesAssumption DEF Module
  <1>5. /\ HatInv' /\ Mapped' = Mapped /\ MappedPages' = MappedPages
        /\ \A q \in Procs, v \in UserPages : Pte(q, v)' = Pte(q, v)
    BY <1>2, HatSame DEF VmInv
  <1>6. \A pv \in Mapped : Pte(pv[1], pv[2])' = Pte(pv[1], pv[2])
    BY <1>5 DEF Mapped, UserPages
  <1> DEFINE u == <<lva, "image", p>>
  <1>7. u \in Unread /\ Unread' = Unread \ {u}
    <2>1. ASSUME NEW q \in Procs, q # p
          PROVE  (ImageKept(q)' <=> ImageKept(q)) /\ ImageFrom(q)' = ImageFrom(q)
      BY <1>1, <1>2, <2>1 DEF ImageKept, ImageFrom
    <2>2. ImageKept(p) /\ ImageFrom(p) = lva
      BY <1>1, <1>2 DEF ImageKept, ImageFrom
    <2>3. lva = Images[p].last => ~ImageKept(p)'
      BY <1>1, <1>2, <1>3 DEF ImageKept
    <2>4. lva # Images[p].last => ImageKept(p)' /\ ImageFrom(p)' = lva + 1
      BY <1>1, <1>2 DEF ImageKept, ImageFrom
    <2>5. \A x : x \in Unread' <=>
            \E q \in Procs : /\ ImageKept(q)'
                             /\ \E f \in ImageFrom(q)' .. Images[q].last : x = <<f, "image", q>>
      BY DEF Unread, ImageKept, ImageFrom
    <2>6. u \in Unread
      BY <1>3, <1>4, <2>2, UnreadIs
    <2>7. ASSUME NEW x \in Unread' PROVE x \in Unread /\ x # u
      <3>1. PICK q \in Procs : /\ ImageKept(q)'
                               /\ \E f \in ImageFrom(q)' .. Images[q].last : x = <<f, "image", q>>
        BY <2>5
      <3>2. PICK f \in ImageFrom(q)' .. Images[q].last : x = <<f, "image", q>>
        BY <3>1
      <3>3. CASE q # p
        <4>1. ImageKept(q) /\ f \in ImageFrom(q) .. Images[q].last
          BY <2>1, <3>1, <3>3
        <4>2. x \in Unread
          BY <3>2, <4>1, UnreadIs
        <4> QED
          BY <3>2, <3>3, <4>2
      <3>4. CASE q = p
        <4>1. ImageFrom(p)' = lva + 1
          BY <2>3, <2>4, <3>1, <3>4
        <4>2. f \in lva .. Images[p].last /\ f # lva
          BY <1>3, <1>4, <3>4, <4>1
        <4>3. x \in Unread
          BY <2>2, <3>2, <3>4, <4>2, UnreadIs
        <4> QED
          BY <3>2, <4>2, <4>3
      <3> QED
        BY <3>3, <3>4
    <2>8. ASSUME NEW x \in Unread, x # u PROVE x \in Unread'
      <3>1. PICK q \in Procs : /\ ImageKept(q)
                               /\ \E f \in ImageFrom(q) .. Images[q].last : x = <<f, "image", q>>
        BY UnreadIs
      <3>2. PICK f \in ImageFrom(q) .. Images[q].last : x = <<f, "image", q>>
        BY <3>1
      <3>3. CASE q # p
        BY <2>1, <2>5, <3>1, <3>2, <3>3
      <3>4. CASE q = p
        <4>1. f \in lva .. Images[p].last /\ f # lva
          BY <2>2, <2>8, <3>2, <3>4
        <4>2. lva # Images[p].last /\ f \in lva + 1 .. Images[p].last
          BY <1>3, <1>4, <4>1
        <4> QED
          BY <2>4, <2>5, <3>2, <3>4, <4>2
      <3> QED
        BY <3>3, <3>4
    <2> QED
      BY <2>6, <2>7, <2>8
  <1>8. FrameInv'
    <2>1. u \notin Directories \cup KernelTables \cup Tables
                   \cup MappedPages \cup Stacks \cup Faulting \cup Committed
      BY DEF Directories, KernelTables, Tables, MappedPages, Stacks, Faulting, Committed
    <2>2. u[1] = lva
      OBVIOUS
    <2> HIDE DEF u
    <2>3. Owners' = Owners \ {u} /\ u \in Owners
      BY <1>2, <1>5, <1>7, <2>1, PartsSame DEF Owners
    <2> QED
      BY <1>2, <2>2, <2>3, OwnerGives DEF VmInv
  <1>9. RegionInv'
    BY <1>2, <1>5, RegionSame DEF VmInv
  <1>10. ListInv' /\ HashInv'
    <2>1. Cached' = Cached
      BY <1>2, <1>5, <1>6 DEF Cached
    <2> QED
      BY <1>2, <2>1, CacheSame DEF VmInv
  <1>11. StageInv'
    <2>1. lpc' \in {"reclaim", "thread"} /\ lva' \in Nat
      BY <1>2, <1>3
    <2>2. lpc' = "reclaim" => lva' \in Images[p].first .. Images[p].last
      BY <1>2, <1>3, <1>4
    <2> QED
      BY <1>1, <1>2, <1>3, <2>1, <2>2 DEF VmInv, StageInv, Frames, Procs
  <1>12. LoaderInv'
    <2>1. /\ Text(p)' = Text(p) /\ Data(p)' = Data(p) /\ (HasData(p)' <=> HasData(p))
          /\ Loaded(p)' = Loaded(p) /\ Loaded(p) \subseteq UserPages
      BY <1>2, <1>3, ConstantsSame DEF HasData, Members, Loaded
    <2>2. Loading(p) /\ VA_USER_VIDEO \in UserPages
      BY <1>1, <1>2, <1>3, VmNumbers DEF VmInv, LoaderInv, UserPages
    <2>3. lpc' \in {"reclaim", "thread"}
      BY <1>2
    <2>4. Loading(p)'
      BY <1>2, <1>3, <1>5, <2>1, <2>2, <2>3 DEF Loading, Members
    <2> QED
      BY <1>1, <1>2, <2>4 DEF LoaderInv
  <1>13. UserInv'
    BY <1>2, <1>5, UserSame DEF VmInv
  <1> QED
    BY <1>5, <1>6, <1>8, <1>9, <1>10, <1>11, <1>12, <1>13 DEF VmInv

(* create_thread() and proc_attach_thread(): from here on the process runs.*)
LEMMA CreateThreadKeeps ==
  ASSUME VmInv, CreateThread
  PROVE  VmInv' /\ \A pv \in Mapped : Pte(pv[1], pv[2])' = Pte(pv[1], pv[2])
  <1>1. PICK p : p = c
    OBVIOUS
  <1> DEFINE f == Head(free)
             l == RegionCreate(rg_list[p], VaTop - MAX_STACK, MAX_STACK)
  <1>2. /\ lpc = "thread" /\ ~hung /\ free # << >>
        /\ kstack' = [kstack EXCEPT ![p] = f] /\ pt' = [pt EXCEPT ![f] = Zero]
        /\ free' = Tail(free)
        /\ rg_list' = [rg_list EXCEPT ![p] = l]
        /\ state' = [state EXCEPT ![p] = "user"]
        /\ c' = c + 1 /\ lpc' = "proc"
        /\ pa_pd' = pa_pd /\ pd' = pd /\ last_reg' = last_reg /\ UNCHANGED cache
        /\ va' = va /\ new' = new /\ lva' = lva /\ lnew' = lnew /\ hung' = hung
    BY <1>1 DEF CreateThread, LoaderAt
  <1>3. /\ p \in Procs /\ Recognized(Images[p]) /\ pa_pd[p] # None /\ lnew = None
        /\ p \in Nat /\ \A q \in Procs : q \in Nat
    BY <1>1, <1>2, VmNumbers DEF VmInv, StageInv, Procs
  <1>4. /\ Pte(p, VA_USER_VIDEO) = VideoPage /\ VA_USER_VIDEO \in UserPages
        /\ \A v \in Loaded(p) : Pte(p, v) # None
    BY <1>1, <1>2, <1>3, VmNumbers DEF VmInv, LoaderInv, Loading, UserPages
  <1>5. f \in Members(free) /\ f \in Frames /\ f # None
    BY <1>2, FreePage DEF VmInv
  <1>6. /\ pt' \in [Frames -> [Index -> Int]]
        /\ \A q \in Procs, w \in UserPages : Pte(q, w)' = Pte(q, w)
    BY <1>2, <1>5, ClearKeepsPte DEF VmInv
  <1> HIDE DEF f
  <1>7. Mapped' = Mapped /\ MappedPages' = MappedPages
    BY <1>2, <1>6, MappedSame
  <1>8. \A pv \in Mapped : Pte(pv[1], pv[2])' = Pte(pv[1], pv[2])
    BY <1>6 DEF Mapped, UserPages
  <1>9. /\ state \in [Procs -> {"none", "user", "page", "insert", "dead"}]
        /\ state[p] = "none" /\ kstack[p] = None
    <2>1. state[p] = "none"
      BY <1>1, <1>3 DEF VmInv, StageInv
    <2> QED
      BY <1>3, <2>1 DEF VmInv, UserInv
  <1>10. /\ l \in Seq(Region) /\ Apart(l) /\ Members(rg_list[p]) \subseteq Members(l)
         /\ \A rg \in Members(l) : rg.start >= USER_BASE
    <2>1. rg_list[p] \in Seq(Region) /\ Apart(rg_list[p]) /\ \A rg \in Members(rg_list[p]) : rg.start >= USER_BASE
      BY <1>3 DEF VmInv, RegionInv
    <2>2. VaTop - MAX_STACK \in Int /\ MAX_STACK \in Int /\ VaTop - MAX_STACK >= USER_BASE
      BY VmNumbers
    <2>3. PICK s \in Int : s = VaTop - MAX_STACK
      BY <2>2
    <2>4. l = RegionCreate(rg_list[p], s, MAX_STACK)
      BY <2>3
    <2> HIDE DEF l
    <2>5. /\ l \in Seq(Region) /\ Apart(l) /\ Members(rg_list[p]) \subseteq Members(l)
          /\ Members(l) \subseteq Members(rg_list[p]) \cup {[start |-> s, size |-> MAX_STACK]}
      BY <2>1, <2>2, <2>4, RegionCreateIs
    <2> QED
      BY <2>1, <2>2, <2>3, <2>5
  <1> HIDE DEF l
  <1>11. /\ rg_list' \in [Procs -> Seq(Region)] /\ rg_list'[p] = l
         /\ \A q \in Procs \ {p} : rg_list'[q] = rg_list[q]
         /\ kstack' \in [Procs -> Frames] /\ kstack'[p] = f
         /\ \A q \in Procs \ {p} : kstack'[q] = kstack[q]
         /\ state' \in [Procs -> {"none", "user", "page", "insert", "dead"}]
         /\ state'[p] = "user" /\ \A q \in Procs \ {p} : state'[q] = state[q]
    BY <1>2, <1>3, <1>5, <1>9, <1>10 DEF VmInv, RegionInv, UserInv
  <1>12. Stacks' = Stacks \cup {<<f, "stack", p>>}
    <2>1. \A u : u \in Stacks <=> \E q \in Procs : kstack[q] # None /\ u = <<kstack[q], "stack", q>>
      BY DEF Stacks
    <2>2. \A u : u \in Stacks' <=> \E q \in Procs : kstack'[q] # None /\ u = <<kstack'[q], "stack", q>>
      BY DEF Stacks, Procs
    <2>3. \A u : u \in Stacks' <=> u \in Stacks \/ u = <<f, "stack", p>>
      BY SMTT(60), <1>3, <1>5, <1>9, <1>11, <2>1, <2>2
    <2> QED
      BY <2>3
  <1>13. Unread' = Unread
    <2>1. ASSUME NEW q \in Procs
          PROVE  (ImageKept(q)' <=> ImageKept(q)) /\ (ImageKept(q) => ImageFrom(q)' = ImageFrom(q))
      <3>1. q \in Nat /\ c \in Nat
        BY <1>1, <1>3
      <3> QED
        BY <1>1, <1>2, <1>3, <3>1 DEF ImageKept, ImageFrom
    <2> QED
      BY <2>1, UnreadSame
  <1>14. FrameInv'
    <2>1. Owners' = Owners \cup {<<f, "stack", p>>}
      BY <1>2, <1>3, <1>7, <1>12, <1>13, PartsSame DEF Owners
    <2> QED
      BY <1>2, <2>1, OwnerTaken DEF VmInv, f
  <1>15. HatInv'
    BY <1>2, <1>6 DEF VmInv, HatInv, KernPd, KernTables, KernTable, Zero, Frames, Hats, Procs, Index
  <1>16. \A q \in Procs : Members(rg_list[q]) \subseteq Members(rg_list'[q])
    BY <1>10, <1>11
  <1>17. RegionInv'
    <2>1. ASSUME NEW q \in Procs
          PROVE  Apart(rg_list'[q]) /\ \A rg \in Members(rg_list'[q]) : rg.start >= USER_BASE
      BY <1>10, <1>11 DEF VmInv, RegionInv
    <2>2. \A pv \in Mapped : \E rg \in Members(rg_list'[pv[1]]) : Within(rg, pv[2])
      <3>1. \A pv \in Mapped : pv[1] \in Procs
        BY DEF Mapped
      <3> QED
        BY <1>16, <3>1 DEF VmInv, RegionInv
    <2> QED
      BY <1>7, <1>11, <2>1, <2>2 DEF RegionInv, Apart, Members, Within, Region
  <1>18. ListInv' /\ HashInv'
    <2>1. Cached' = Cached
      BY <1>2, <1>7, <1>8 DEF Cached
    <2> QED
      BY <1>2, <2>1, CacheSame DEF VmInv
  <1>19. StageInv'
    <2>1. ASSUME NEW q \in Procs
          PROVE  /\ q > c + 1 \/ q = c + 1 => pa_pd[q] = None /\ rg_list'[q] = << >>
                 /\ q >= c + 1 => state'[q] = "none"
      <3>1. q >= c + 1 => q # p /\ q > c /\ q >= c
        BY <1>1, <1>3
      <3>2. q > c + 1 \/ q = c + 1 => q >= c + 1
        BY <1>1, <1>3
      <3> QED
        BY <1>11, <3>1, <3>2 DEF VmInv, StageInv
    <2> QED
      BY <1>1, <1>2, <1>3, <2>1 DEF VmInv, StageInv, Frames, Procs
  <1>20. LoaderInv'
    BY <1>2 DEF LoaderInv
  <1>21. UserInv'
    <2>1. ASSUME NEW q \in Procs
          PROVE  /\ state'[q] = "insert" <=> new'[q] # None
                 /\ state'[q] = "none" <=> kstack'[q] = None
                 /\ last_reg'[q] \in Members(rg_list'[q]) \cup {NoRegion}
      BY <1>2, <1>5, <1>9, <1>11, <1>16 DEF VmInv, UserInv
    <2>2. ASSUME NEW q \in Procs, state'[q] # "none"
          PROVE  /\ Recognized(Images[q]) /\ pa_pd'[q] # None
                 /\ Pte(q, VA_USER_VIDEO)' = VideoPage
                 /\ \A w \in Loaded(q) : Pte(q, w)' # None
      <3>1. Loaded(q) \subseteq UserPages
        BY DEF Loaded
      <3>2. CASE q = p
        BY <1>2, <1>3, <1>4, <1>6, <3>1, <3>2
      <3>3. CASE q # p
        <4>1. state[q] # "none"
          BY <1>11, <2>2, <3>3
        <4> QED
          BY <1>2, <1>4, <1>6, <3>1, <4>1 DEF VmInv, UserInv
      <3> QED
        BY <3>2, <3>3
    <2>3. ASSUME NEW q \in Procs, state'[q] \in {"page", "insert"}
          PROVE  /\ va'[q] \in UserPages /\ Within(last_reg'[q], va'[q])
                 /\ Pte(q, va[q])' = None
      <3>1. state[q] \in {"page", "insert"}
        BY <1>11, <2>3
      <3>2. va[q] \in UserPages /\ Within(last_reg[q], va[q]) /\ Pte(q, va[q]) = None
        BY <3>1 DEF VmInv, UserInv
      <3>3. PICK w \in UserPages : w = va[q]
        BY <3>2
      <3>4. Pte(q, w)' = None
        BY <1>6, <3>2, <3>3
      <3> QED
        BY <1>2, <3>2, <3>3, <3>4 DEF Pte
    <2> QED
      BY <1>2, <1>11, <2>1, <2>2, <2>3, ConstantsSame
         DEF VmInv, UserInv, Within, Region, Frames, Members
  <1> QED
    BY <1>8, <1>14, <1>15, <1>17, <1>18, <1>19, <1>20, <1>21 DEF VmInv

(* No page is left for create_bootproc().                                  *)
LEMMA LoaderStarvedKeeps ==
  ASSUME VmInv, LoaderStarved
  PROVE  VmInv' /\ \A pv \in Mapped : Pte(pv[1], pv[2])' = Pte(pv[1], pv[2])
  <1>1. PICK p : p = c
    OBVIOUS
  <1>2. UNCHANGED <<free, hat, rg_list, last_reg, cache, user, kstack>>
    BY DEF LoaderStarved
  <1>3. rg_list' = rg_list /\ pa_pd' = pa_pd /\ pd' = pd /\ state' = state
    BY <1>2 DEF hat, user
  <1>4. Mapped' = Mapped /\ \A q \in Procs, v \in UserPages : Pte(q, v)' = Pte(q, v)
    BY <1>2, HatSame DEF VmInv
  <1>5. RegionInv'
    BY <1>3, <1>4, RegionSame DEF VmInv
  <1>6. \A q \in Procs : q \in Nat
    BY VmNumbers DEF Procs
  <1>7. CASE lpc = "commit" /\ lpc' = "copy" /\ UNCHANGED <<c, lva, lnew, hung>>
    <2>1. /\ p \in Procs /\ Recognized(Images[p]) /\ pa_pd[p] # None /\ lnew = None
      BY <1>1, <1>7 DEF VmInv, StageInv
    <2>2. Unread' = Unread
      <3>1. ASSUME NEW q \in Procs
            PROVE  (ImageKept(q)' <=> ImageKept(q)) /\ ImageFrom(q)' = ImageFrom(q)
        BY <1>7 DEF ImageKept, ImageFrom
      <3> QED
        BY <3>1, UnreadSame
    <2>3. StageInv'
      BY <1>1, <1>3, <1>7, <2>1 DEF VmInv, StageInv, Frames, Procs
    <2>4. LoaderInv'
      <3>1. /\ Text(p)' = Text(p) /\ Data(p)' = Data(p) /\ (HasData(p)' <=> HasData(p))
        BY <1>3, <2>1, ConstantsSame DEF HasData, Members
      <3>2. Loading(p) /\ VA_USER_VIDEO \in UserPages
        BY <1>1, <1>7, <2>1, VmNumbers DEF VmInv, LoaderInv, UserPages
      <3>3. Loading(p)'
        BY <1>3, <1>4, <1>7, <2>1, <3>1, <3>2 DEF Loading, Members
      <3> QED
        BY <1>1, <1>7, <3>3 DEF LoaderInv
    <2> QED
      BY <1>2, <1>3, <1>5, <1>7, <2>1, <2>2, <2>3, <2>4, StageMoves
  <1>8. CASE lpc = "thread" /\ lpc' = "proc" /\ c' = c + 1 /\ UNCHANGED <<lva, lnew, hung>>
    <2>1. /\ p \in Procs /\ Recognized(Images[p]) /\ lnew = None /\ p \in Nat
      BY <1>1, <1>6, <1>8 DEF VmInv, StageInv
    <2>2. Unread' = Unread
      <3>1. ASSUME NEW q \in Procs
            PROVE  (ImageKept(q)' <=> ImageKept(q)) /\ (ImageKept(q) => ImageFrom(q)' = ImageFrom(q))
        BY <1>1, <1>6, <1>8, <2>1 DEF ImageKept, ImageFrom
      <3> QED
        BY <3>1, UnreadSame
    <2>3. StageInv'
      BY <1>1, <1>3, <1>6, <1>8, <2>1 DEF VmInv, StageInv, Frames, Procs
    <2>4. LoaderInv'
      BY <1>8 DEF LoaderInv
    <2> QED
      BY <1>2, <1>3, <1>5, <1>8, <2>1, <2>2, <2>3, <2>4, StageMoves
  <1>9. CASE hung' = TRUE /\ UNCHANGED loader
    <2>1. Hang
      BY <1>2, <1>9 DEF Hang
    <2> QED
      BY <2>1, HangKeeps
  <1> QED
    BY <1>7, <1>8, <1>9 DEF LoaderStarved

-----------------------------------------------------------------------------
(* The kernel's tables lie behind its directory, and start-up's own pages  *)
(* behind them.                                                            *)
LEMMA StartIs ==
  /\ va2ipd(MemPages) \in Nat /\ FirstFree = TopMemory + 2 + va2ipd(MemPages) + EarlyPages
  /\ FirstFree \in Nat /\ FirstFree <= MemPages
  /\ KernTables = 0 .. va2ipd(MemPages)
  /\ \A d \in KernTables : d \in Nat /\ KernTable(d) = TopMemory + 1 + d /\ KernTable(d) \in Frames
  <1>1. PICK m \in Nat : m = va2ipd(MemPages)
    BY KernelBelow
  <1>2. KernTables = 0 .. m /\ Cardinality(0 .. m) = m + 1
    <2>1. 0 \in Int /\ m \in Int
      OBVIOUS
    <2>2. Cardinality(0 .. m) = IF 0 > m THEN 0 ELSE m - 0 + 1
      BY <2>1, FS_Interval
    <2> QED
      BY <1>1, <2>2 DEF KernTables
  <1>3. FirstFree = TopMemory + 2 + m + EarlyPages
    BY <1>2, VmNumbers DEF FirstFree
  <1>4. FirstFree \in Nat /\ FirstFree <= MemPages
    BY <1>3, VmNumbers, MemoryAssumption
  <1>5. ASSUME NEW d \in KernTables
        PROVE  d \in Nat /\ KernTable(d) = TopMemory + 1 + d /\ KernTable(d) \in Frames
    BY <1>2, <1>3, <1>4, VmNumbers DEF KernTable, Frames
  <1> QED
    BY <1>1, <1>2, <1>3, <1>4, <1>5

(* The image of a module is below the kernel's directory.                  *)
LEMMA ImagesBelow ==
  \A p \in Procs : /\ Images[p].first \in Nat /\ Images[p].last \in Nat
                   /\ KernStart <= Images[p].first /\ Images[p].first <= Images[p].last
                   /\ Images[p].last < TopMemory
  BY ImagesAssumption DEF Module

(* At first the kernel, the boot modules and what start-up took are in use.*)
LEMMA InitFrames ==
  ASSUME Init
  PROVE  FrameInv
  <1> DEFINE m == va2ipd(MemPages)
             F == FirstFree
  <1>0. /\ m \in Nat /\ F \in Nat /\ F = TopMemory + 2 + m + EarlyPages /\ F <= MemPages
        /\ KernTables = 0 .. m /\ TopMemory \in Nat /\ TopMemory > 0
        /\ MemPages \in Nat /\ EarlyPages \in Nat
    BY StartIs, VmNumbers
  <1>1. free = [i \in 1 .. MemPages - F |-> F + i - 1]
    BY DEF Init
  <1> HIDE DEF F, m
  <1>2. /\ MemPages - F \in Nat /\ free \in Seq(Frames) /\ Len(free) = MemPages - F
        /\ \A i \in 1 .. MemPages - F : free[i] = F + i - 1
    <2>1. MemPages - F \in Nat
      BY <1>0
    <2>2. \A i \in 1 .. MemPages - F : F + i - 1 \in Frames
      BY <1>0 DEF Frames
    <2> QED
      BY <1>1, <2>1, <2>2
  <1>3. Distinct(free) /\ Members(free) = F .. MemPages - 1
    <2>1. Distinct(free)
      BY <1>0, <1>2 DEF Distinct
    <2>2. ASSUME NEW x \in F .. MemPages - 1 PROVE x \in Members(free)
      <3>1. x - F + 1 \in DOMAIN free /\ free[x - F + 1] = x
        BY <1>0, <1>2
      <3> QED
        BY <3>1 DEF Members
    <2>3. \A i \in DOMAIN free : free[i] \in F .. MemPages - 1
      BY <1>0, <1>2
    <2> QED
      BY <2>1, <2>2, <2>3 DEF Members
  <1>4. Directories = {<<TopMemory, "directory", 0>>}
    <2>1. pa_pd = [h \in Hats |-> IF h = 0 THEN TopMemory ELSE None] /\ 0 \in Hats
      BY VmNumbers DEF Init, Hats
    <2>2. {h \in Hats : pa_pd[h] # None} = {0} /\ pa_pd[0] = TopMemory
      BY <1>0, <2>1 DEF None
    <2> QED
      BY <2>2 DEF Directories
  <1>5. Tables = {} /\ MappedPages = {}
    <2>1. \A p \in Procs : p \in Hats /\ pd[p] = Zero /\ pa_pd[p] = None
      BY VmNumbers DEF Init, Procs, Hats
    <2>2. \A y \in Procs \X (Index \ KernTables) : pd[y[1]][y[2]] = None
      BY <2>1 DEF Zero
    <2>3. Mapped = {}
      BY <2>1 DEF Mapped
    <2> QED
      BY <2>2, <2>3 DEF Tables, MappedPages
  <1>6. Faulting = {} /\ Stacks = {} /\ Committed = {}
    BY DEF Init, Faulting, Stacks, Committed
  <1>7. \A u : u \in Unread <=>
          \E p \in Procs : \E f \in Images[p].first .. Images[p].last : u = <<f, "image", p>>
    <2>1. ASSUME NEW p \in Procs PROVE ImageKept(p) /\ ImageFrom(p) = Images[p].first
      <3>1. p \in Nat /\ p >= 1 /\ c = 1 /\ lpc = "proc"
        BY VmNumbers DEF Init, Procs
      <3> QED
        BY <3>1 DEF ImageKept, ImageFrom
    <2> QED
      BY <2>1, UnreadIs
  <1>8. \A u : u \in KernelTables <=> \E d \in KernTables : u = <<TopMemory + 1 + d, "kernel table", d>>
    BY StartIs DEF KernelTables
  <1>9. \A u : u \in Owners <=>
          \/ u = <<TopMemory, "directory", 0>> \/ u \in KernelTables \/ u \in Unread
    BY <1>4, <1>5, <1>6 DEF Owners
  <1>10. ASSUME NEW u \in KernelTables PROVE u[1] \in TopMemory + 1 .. F - EarlyPages - 1
    <2>1. PICK d \in KernTables : u = <<TopMemory + 1 + d, "kernel table", d>>
      BY <1>8
    <2>2. u[1] = TopMemory + 1 + d
      BY <2>1
    <2> QED
      BY <1>0, <2>2
  <1>11. ASSUME NEW u \in Unread
         PROVE  u[1] < TopMemory /\ u[1] \in Nat /\ u[1] \in ImagePages
    <2>1. PICK p \in Procs : \E f \in Images[p].first .. Images[p].last : u = <<f, "image", p>>
      BY <1>7
    <2>2. u[1] \in Images[p].first .. Images[p].last
      BY <2>1
    <2> QED
      BY <1>0, <2>2, ImagesBelow DEF ImagePages
  <1>12. ASSUME NEW u \in Owners, NEW w \in Owners, u[1] = w[1] PROVE u = w
    <2>1. CASE u \in KernelTables /\ w \in KernelTables
      <3>1. PICK d \in KernTables : u = <<TopMemory + 1 + d, "kernel table", d>>
        BY <1>8, <2>1
      <3>2. PICK x \in KernTables : w = <<TopMemory + 1 + x, "kernel table", x>>
        BY <1>8, <2>1
      <3>3. TopMemory + 1 + d = TopMemory + 1 + x /\ d \in Nat /\ x \in Nat
        <4>1. u[1] = TopMemory + 1 + d /\ w[1] = TopMemory + 1 + x
          BY <3>1, <3>2
        <4>2. d \in Nat /\ x \in Nat
          BY <1>0
        <4> QED
          BY <1>12, <4>1, <4>2
      <3>4. d = x
        BY <1>0, <3>3
      <3> QED
        BY <3>1, <3>2, <3>4
    <2>2. CASE u \in Unread /\ w \in Unread
      <3>1. PICK p \in Procs :
              \E f \in Images[p].first .. Images[p].last : u = <<f, "image", p>>
        BY <1>7, <2>2
      <3>2. PICK q \in Procs :
              \E f \in Images[q].first .. Images[q].last : w = <<f, "image", q>>
        BY <1>7, <2>2
      <3> PICK f \in Images[p].first .. Images[p].last : u = <<f, "image", p>>
        BY <3>1
      <3> PICK g \in Images[q].first .. Images[q].last : w = <<g, "image", q>>
        BY <3>2
      <3>3. f = g
        BY <1>12
      <3>4. p = q
        <4> SUFFICES ASSUME p # q PROVE FALSE
          OBVIOUS
        <4>1. Images[p].last < Images[q].first \/ Images[q].last < Images[p].first
          BY ImagesAssumption
        <4> QED
          BY <3>3, <4>1, ImagesBelow
      <3> QED
        BY <3>3, <3>4
    <2>3. u \in KernelTables => u[1] > TopMemory
      BY <1>0, <1>10
    <2>4. w \in KernelTables => w[1] > TopMemory
      BY <1>0, <1>10
    <2>5. (u \in Unread => u[1] < TopMemory /\ u[1] \in Nat) /\ (w \in Unread => w[1] < TopMemory /\ w[1] \in Nat)
      BY <1>11
    <2>6. (u \in KernelTables => u[1] \in Nat) /\ (w \in KernelTables => w[1] \in Nat)
      BY <1>0, <1>10
    <2>7. CASE u = <<TopMemory, "directory", 0>>
      <3>1. u[1] = TopMemory
        BY <2>7
      <3> QED
        BY <1>0, <1>9, <1>12, <2>4, <2>5, <2>6, <2>7, <3>1
    <2>8. CASE w = <<TopMemory, "directory", 0>>
      <3>1. w[1] = TopMemory
        BY <2>8
      <3> QED
        BY <1>0, <1>9, <1>12, <2>3, <2>5, <2>6, <2>8, <3>1
    <2>9. ~(u \in KernelTables /\ w \in Unread) /\ ~(w \in KernelTables /\ u \in Unread)
      BY <1>0, <1>12, <2>3, <2>4, <2>5, <2>6
    <2> QED
      BY <1>9, <2>1, <2>2, <2>7, <2>8, <2>9
  <1>13. ASSUME NEW u \in Owners
         PROVE  /\ u[1] \notin F .. MemPages - 1
                /\ u[1] \in TopMemory .. F - EarlyPages - 1 \/ u[1] \in ImagePages
    <2>1. CASE u = <<TopMemory, "directory", 0>>
      <3>1. u[1] = TopMemory
        BY <2>1
      <3> QED
        BY <1>0, <3>1
    <2>2. CASE u \in KernelTables
      BY <1>0, <1>10, <2>2
    <2>3. CASE u \in Unread
      BY <1>0, <1>11, <2>3
    <2> QED
      BY <1>9, <2>1, <2>2, <2>3
  <1>14. PoolPages = (TopMemory .. F - EarlyPages - 1) \cup (F .. MemPages - 1)
    BY <1>0 DEF PoolPages, F
  <1>15. ASSUME NEW x \in TopMemory .. F - EarlyPages - 1 PROVE \E u \in Owners : x = u[1]
    <2>1. CASE x = TopMemory
      <3>1. <<TopMemory, "directory", 0>> \in Owners /\ <<TopMemory, "directory", 0>>[1] = x
        BY <1>9, <2>1
      <3> QED
        BY <3>1
    <2>2. CASE x # TopMemory
      <3>1. x - TopMemory - 1 \in 0 .. m /\ x = TopMemory + 1 + (x - TopMemory - 1)
        BY <1>0, <2>2
      <3>2. PICK d \in 0 .. m : x = TopMemory + 1 + d
        BY <3>1
      <3>3. <<x, "kernel table", d>> \in KernelTables
        BY <1>0, <1>8, <3>2
      <3>4. <<x, "kernel table", d>> \in Owners /\ <<x, "kernel table", d>>[1] = x
        BY <1>9, <3>3
      <3> QED
        BY <3>4
    <2> QED
      BY <2>1, <2>2
  <1>16. InUse \cap Members(free) = {}
    BY <1>3, <1>13 DEF InUse
  <1>17. PoolPages \subseteq Members(free) \cup InUse
    BY <1>3, <1>14, <1>15 DEF InUse
  <1>18. Members(free) \cup InUse \subseteq PoolPages \cup ImagePages
    BY <1>3, <1>13, <1>14 DEF InUse
  <1> QED
    BY <1>2, <1>3, <1>12, <1>16, <1>17, <1>18 DEF FrameInv

(* hat_init(): the kernel's directory, its tables, and no process.         *)
LEMMA InitHat ==
  ASSUME Init
  PROVE  HatInv
  <1>1. /\ Index \subseteq Int /\ None \in Frames /\ TopMemory \in Frames /\ TopMemory # None
        /\ 0 \in Hats /\ Procs \subseteq Hats /\ 0 \notin Procs /\ Frames \subseteq Int
    BY VmNumbers, StartIs DEF Index, None, Frames, Hats, Procs
  <1>2. KernPd \in [Index -> Frames] /\ Zero \in [Index -> Frames]
    BY <1>1, StartIs DEF KernPd, Zero
  <1>3. \A f \in Frames : HatInit(f) \in [Index -> Int]
    <2> SUFFICES ASSUME NEW f \in Frames PROVE HatInit(f) \in [Index -> Int]
      OBVIOUS
    <2>1. CASE \E d \in KernTables : f = KernTable(d)
      <3>1. PICK d \in KernTables : d = CHOOSE e \in KernTables : f = KernTable(e)
        BY <2>1
      <3>2. HatInit(f) = [i \in Index |-> LET v == d * NPTE + i IN
                                          IF v = 0 \/ v > MemPages THEN None ELSE v]
        BY <2>1, <3>1 DEF HatInit
      <3>3. d \in Nat /\ NPTE \in Nat /\ d * NPTE \in Int
        BY StartIs, VmNumbers
      <3>4. \A i \in Index : d * NPTE + i \in Int
        BY <1>1, <3>3
      <3> QED
        BY <1>1, <3>2, <3>4
    <2>2. CASE ~ \E d \in KernTables : f = KernTable(d)
      <3>1. HatInit(f) = [i \in Index |-> Junk]
        BY <2>2 DEF HatInit
      <3> QED
        BY <3>1 DEF Junk
    <2> QED
      BY <2>1, <2>2
  <1>4. /\ pa_pd = [h \in Hats |-> IF h = 0 THEN TopMemory ELSE None]
        /\ pd = [h \in Hats |-> IF h = 0 THEN KernPd ELSE Zero]
        /\ pt = [f \in Frames |-> HatInit(f)]
    BY DEF Init
  <1> QED
    BY <1>1, <1>2, <1>3, <1>4 DEF HatInv

(* init_pages() has cached the kernel and the boot modules, each once.     *)
LEMMA InitCache ==
  ASSUME Init
  PROVE  ListInv /\ HashInv
  <1>1. /\ TopMemory - KernStart \in Nat /\ KernStart \in Nat /\ KernStart > 1
        /\ TopMemory \in Nat /\ TopMemory < MemPages /\ MemPages \in Nat
    <2>1. 1 \in Procs
      BY VmAssumption DEF Procs
    <2>2. PICK p \in Procs : p = 1
      BY <2>1
    <2>3. KernStart <= TopMemory
      BY <2>2, ImagesBelow, VmNumbers
    <2>4. TopMemory < MemPages
      BY StartIs, VmNumbers
    <2> QED
      BY <2>3, <2>4, VmNumbers
  <1>2. PICK n \in Nat : n = TopMemory - KernStart
    BY <1>1
  <1> DEFINE a == [i \in 1 .. n |-> KernStart + i - 1]
             b == <<0, 1>>
  <1>3. /\ a \in Seq(Frames) /\ Len(a) = n /\ \A i \in 1 .. n : a[i] = KernStart + i - 1
    <2>1. \A i \in 1 .. n : KernStart + i - 1 \in Frames
      BY <1>1, <1>2 DEF Frames
    <2> QED
      BY <2>1
  <1>4. b \in Seq(Frames) /\ Len(b) = 2 /\ b[1] = 0 /\ b[2] = 1
    <2>1. 0 \in Frames /\ 1 \in Frames
      BY <1>1 DEF Frames
    <2> QED
      BY <2>1
  <1>5. Wired = a \o b
    BY <1>2 DEF Wired
  <1> HIDE DEF a, b
  <1>6. /\ a \o b \in Seq(Frames) /\ Len(a \o b) = Len(a) + Len(b)
        /\ \A k \in 1 .. Len(a) + Len(b) : (a \o b)[k] = IF k <= Len(a) THEN a[k] ELSE b[k - Len(a)]
    BY <1>3, <1>4, JoinIs
  <1>7. /\ Wired \in Seq(Frames) /\ Len(Wired) = n + 2 /\ DOMAIN Wired = 1 .. n + 2
        /\ \A i \in 1 .. n : Wired[i] = KernStart + i - 1
        /\ Wired[n + 1] = 0 /\ Wired[n + 2] = 1
    <2>1. Wired \in Seq(Frames) /\ Len(Wired) = n + 2
      BY <1>3, <1>4, <1>5, <1>6
    <2>2. \A i \in 1 .. n : Wired[i] = KernStart + i - 1
      BY <1>3, <1>4, <1>5, <1>6
    <2>3. Wired[n + 1] = 0 /\ Wired[n + 2] = 1
      BY <1>3, <1>4, <1>5, <1>6
    <2> QED
      BY <2>1, <2>2, <2>3
  <1>8. Distinct(Wired)
    <2> SUFFICES ASSUME NEW i \in 1 .. n + 2, NEW j \in 1 .. n + 2, Wired[i] = Wired[j]
                 PROVE  i = j
      BY <1>7 DEF Distinct
    <2>1. \A k \in 1 .. n + 2 : k \in 1 .. n \/ k = n + 1 \/ k = n + 2
      OBVIOUS
    <2> QED
      BY <1>1, <1>7, <2>1
  <1>9. \A i \in 1 .. n + 2 : Wired[i] \in Frames
    BY <1>7
  <1>10. next_cache = [f \in Frames |->
           LET at == {i \in DOMAIN Wired : Wired[i] = f /\ i < Len(Wired)}
           IN IF at = {} THEN NoPage ELSE Wired[(CHOOSE i \in at : TRUE) + 1]]
    BY DEF Init
  <1>11. ASSUME NEW i \in 1 .. n + 1 PROVE next_cache[Wired[i]] = Wired[i + 1]
    <2> DEFINE at == {j \in DOMAIN Wired : Wired[j] = Wired[i] /\ j < Len(Wired)}
    <2>1. at = {i}
      BY <1>7, <1>8 DEF Distinct
    <2>2. (CHOOSE j \in at : TRUE) = i
      BY <2>1
    <2>3. Wired[i] \in Frames
      BY <1>9
    <2>4. next_cache[Wired[i]] = IF at = {} THEN NoPage ELSE Wired[(CHOOSE j \in at : TRUE) + 1]
      BY <1>10, <2>3
    <2> QED
      BY <2>1, <2>2, <2>4
  <1>12. next_cache[Wired[n + 2]] = NoPage
    <2> DEFINE at == {j \in DOMAIN Wired : Wired[j] = Wired[n + 2] /\ j < Len(Wired)}
    <2>1. at = {}
      BY <1>7, <1>8 DEF Distinct
    <2>2. Wired[n + 2] \in Frames
      BY <1>9
    <2>3. next_cache[Wired[n + 2]] = IF at = {} THEN NoPage ELSE Wired[(CHOOSE j \in at : TRUE) + 1]
      BY <1>10, <2>2
    <2> QED
      BY <2>1, <2>3
  <1>13. next_cache \in [Frames -> Int]
    <2> SUFFICES ASSUME NEW f \in Frames PROVE next_cache[f] \in Int
      BY <1>10
    <2>1. Frames \subseteq Int /\ NoPage \in Int
      BY VmNumbers DEF Frames, NoPage
    <2>2. CASE \E i \in 1 .. n + 1 : Wired[i] = f
      <3>1. PICK i \in 1 .. n + 1 : Wired[i] = f
        BY <2>2
      <3>2. i + 1 \in 1 .. n + 2
        OBVIOUS
      <3> QED
        BY <1>9, <1>11, <2>1, <3>1, <3>2
    <2>3. CASE ~ \E i \in 1 .. n + 1 : Wired[i] = f
      <3> DEFINE at == {j \in DOMAIN Wired : Wired[j] = f /\ j < Len(Wired)}
      <3>1. at = {}
        BY <1>7, <2>3
      <3>2. next_cache[f] = IF at = {} THEN NoPage ELSE Wired[(CHOOSE j \in at : TRUE) + 1]
        BY <1>10
      <3> QED
        BY <2>1, <3>1, <3>2
    <2> QED
      BY <2>2, <2>3
  <1>14. head = Wired[1] /\ tail = Wired[n + 2]
    BY <1>7 DEF Init, Last
  <1>15. IsCacheList(Wired, head, tail, next_cache)
    <2>1. Wired # << >> /\ \A i \in 1 .. Len(Wired) - 1 : next_cache[Wired[i]] = Wired[i + 1]
      BY <1>7, <1>11
    <2> QED
      BY <1>7, <1>8, <1>12, <1>14, <2>1 DEF IsCacheList
  <1>16. HashInv
    <2>1. Mapped = {}
      <3>1. \A p \in Procs : pa_pd[p] = None
        BY VmNumbers DEF Init, Procs, Hats
      <3> QED
        BY <3>1 DEF Mapped
    <2>2. Cached = {}
      BY <2>1 DEF Cached, Init
    <2>3. hash_map \in [Frames -> Int]
      BY VmNumbers DEF Init, Frames, NoPage
    <2> QED
      BY <2>2, <2>3 DEF HashInv
  <1> QED
    BY <1>13, <1>15, <1>16 DEF ListInv

(* The invariant holds when create_bootproc() begins.                      *)
LEMMA InitVmInv ==
  ASSUME Init
  PROVE  VmInv
  <1>1. /\ rg_list = [p \in Procs |-> << >>] /\ last_reg = [p \in Procs |-> NoRegion]
        /\ state = [p \in Procs |-> "none"] /\ va = [p \in Procs |-> 0]
        /\ new = [p \in Procs |-> None] /\ kstack = [p \in Procs |-> None]
        /\ lpc = "proc" /\ c = 1 /\ lva = 0 /\ lnew = None
        /\ \A p \in Procs : pa_pd[p] = None
    BY VmNumbers DEF Init, Procs, Hats
  <1>2. None \in Frames /\ NoRegion \in Region
    <2>1. None \in Frames
      BY StartIs, VmNumbers DEF None, Frames
    <2> QED
      BY <2>1 DEF NoRegion, Region
  <1>3. StageInv
    BY <1>1, <1>2 DEF StageInv
  <1>4. LoaderInv
    BY <1>1 DEF LoaderInv
  <1>5. UserInv
    BY <1>1, <1>2 DEF UserInv
  <1>6. RegionInv
    <2>1. Mapped = {}
      BY <1>1 DEF Mapped
    <2>2. Members(<< >>) = {} /\ << >> \in Seq(Region) /\ Apart(<< >>)
      BY DEF Members, Apart
    <2>3. \A p \in Procs : rg_list[p] = << >>
      BY <1>1
    <2> QED
      BY <1>1, <2>1, <2>2, <2>3 DEF RegionInv
  <1> QED
    BY <1>3, <1>4, <1>5, <1>6, InitFrames, InitHat, InitCache DEF VmInv

(* Every step keeps the invariant, and each translation that is there.     *)
LEMMA NextKeeps ==
  ASSUME VmInv, [Next]_vars
  PROVE  VmInv' /\ \A pv \in Mapped : Pte(pv[1], pv[2])' = Pte(pv[1], pv[2])
  <1>1. ASSUME Loader
        PROVE  VmInv' /\ \A pv \in Mapped : Pte(pv[1], pv[2])' = Pte(pv[1], pv[2])
    BY <1>1, LoaderSkipsKeeps, NewProcKeeps, CreateRegionsKeeps, MapVideoKeeps, CommitPageKeeps,
       CommitInsertKeeps, CopyImageKeeps, ReclaimKeeps, CreateThreadKeeps, LoaderStarvedKeeps
       DEF Loader
  <1>2. ASSUME NEW p \in Procs, PageFault(p) \/ FaultPage(p) \/ FaultInsert(p) \/ FaultStarved(p)
        PROVE  VmInv' /\ \A pv \in Mapped : Pte(pv[1], pv[2])' = Pte(pv[1], pv[2])
    <2>1. FaultStarved(p) => Hang
      BY DEF FaultStarved
    <2> QED
      BY <1>2, <2>1, PageFaultKeeps, FaultPageKeeps, FaultInsertKeeps, HangKeeps
  <1>3. CASE UNCHANGED vars
    <2>1. /\ free' = free /\ UNCHANGED hat /\ rg_list' = rg_list /\ last_reg' = last_reg
          /\ UNCHANGED cache /\ UNCHANGED user /\ kstack' = kstack /\ UNCHANGED loader /\ hung' = hung
          /\ state' = state /\ new' = new /\ lpc' = lpc /\ c' = c /\ lva' = lva /\ lnew' = lnew
          /\ pa_pd' = pa_pd /\ pd' = pd
      BY <1>3 DEF vars, user, loader, hat
    <2>2. /\ HatInv' /\ Mapped' = Mapped /\ MappedPages' = MappedPages
          /\ \A q \in Procs, w \in UserPages : Pte(q, w)' = Pte(q, w)
      BY <2>1, HatSame DEF VmInv
    <2>3. \A pv \in Mapped : Pte(pv[1], pv[2])' = Pte(pv[1], pv[2])
      BY <2>2 DEF Mapped, UserPages
    <2>4. FrameInv'
      BY <2>1, <2>2, PartsSame, OwnersSame DEF Owners, VmInv
    <2>5. RegionInv'
      BY <2>1, <2>2, RegionSame DEF VmInv
    <2>6. ListInv' /\ HashInv'
      <3>1. Cached' = Cached
        BY <2>1, <2>2, <2>3 DEF Cached
      <3> QED
        BY <2>1, <3>1, CacheSame DEF VmInv
    <2>7. StageInv' /\ LoaderInv'
      BY <2>1, <2>2, LoaderSame DEF VmInv
    <2>8. UserInv'
      BY <2>1, <2>2, UserSame DEF VmInv
    <2> QED
      BY <2>2, <2>3, <2>4, <2>5, <2>6, <2>7, <2>8 DEF VmInv
  <1> QED
    BY <1>1, <1>2, <1>3 DEF Next

-----------------------------------------------------------------------------
(* What the invariant says of regions, pages and translations.             *)
LEMMA InvRegions ==
  ASSUME VmInv
  PROVE  RegionsDisjoint
  BY DEF VmInv, RegionInv, Apart, RegionsDisjoint

(* One owner for each page: as many pages as uses.                         *)
LEMMA InvFrames ==
  ASSUME VmInv
  PROVE  FramesAccounted
  <1> DEFINE FreeUses == {<<free[i], "free", i>> : i \in DOMAIN free}
             used == {u[1] : u \in Uses}
  <1>1. Uses = FreeUses \cup Owners
    <2>1. Uses = FreeUses \cup Directories \cup KernelTables \cup Tables \cup MappedPages
                   \cup Faulting \cup Stacks \cup Committed \cup Unread
      BY DEF Uses, Directories, KernelTables, Tables, MappedPages, Faulting, Stacks, Committed,
             Unread
    <2> HIDE DEF FreeUses
    <2> QED
      BY <2>1 DEF Owners
  <1>2. ASSUME NEW u \in FreeUses PROVE \E i \in DOMAIN free : u = <<free[i], "free", i>> /\ u[1] = free[i]
    OBVIOUS
  <1>3. ASSUME NEW i \in DOMAIN free
        PROVE  <<free[i], "free", i>> \in FreeUses /\ <<free[i], "free", i>>[1] = free[i]
    OBVIOUS
  <1> HIDE DEF FreeUses
  <1>4. ASSUME NEW u \in Uses, NEW w \in Uses, u[1] = w[1] PROVE u = w
    <2>1. CASE u \in FreeUses /\ w \in FreeUses
      <3>1. PICK i \in DOMAIN free : u = <<free[i], "free", i>> /\ u[1] = free[i]
        BY <1>2, <2>1
      <3>2. PICK j \in DOMAIN free : w = <<free[j], "free", j>> /\ w[1] = free[j]
        BY <1>2, <2>1
      <3>3. i = j
        BY <1>4, <3>1, <3>2 DEF VmInv, FrameInv, Distinct
      <3> QED
        BY <3>1, <3>2, <3>3
    <2>2. CASE u \in Owners /\ w \in Owners
      BY <1>4, <2>2 DEF VmInv, FrameInv
    <2>3. ASSUME NEW x \in FreeUses, NEW y \in Owners PROVE x[1] # y[1]
      <3>1. x[1] \in Members(free)
        BY <1>2 DEF Members
      <3> QED
        BY <3>1, FrameFacts DEF VmInv
    <2> QED
      BY <1>1, <1>4, <2>1, <2>2, <2>3
  <1>5. used = Members(free) \cup InUse
    <2>1. ASSUME NEW x \in used PROVE x \in Members(free) \cup InUse
      <3>1. PICK u \in Uses : x = u[1]
        OBVIOUS
      <3> QED
        BY <1>1, <1>2, <3>1 DEF Members, InUse
    <2>2. ASSUME NEW x \in Members(free) PROVE x \in used
      <3>1. PICK i \in DOMAIN free : x = free[i]
        BY DEF Members
      <3> QED
        BY <1>1, <1>3, <3>1
    <2>3. ASSUME NEW x \in InUse PROVE x \in used
      BY <1>1 DEF InUse
    <2> QED
      BY <2>1, <2>2, <2>3
  <1>6. IsFiniteSet(used)
    <2>1. used \subseteq Frames
      <3> HIDE DEF used
      <3> QED
        BY <1>5, FrameFacts DEF VmInv, FrameInv, InUse
    <2>2. IsFiniteSet(Frames)
      <3>1. 0 \in Int /\ MemPages - 1 \in Int
        BY VmNumbers
      <3> QED
        BY <3>1, FS_Interval DEF Frames
    <2> HIDE DEF used
    <2> QED
      BY <2>1, <2>2, FS_Subset
  <1> DEFINE use == [x \in used |-> CHOOSE u \in Uses : u[1] = x]
  <1>7. use \in Bijection(used, Uses)
    <2>1. ASSUME NEW x \in used PROVE use[x] \in Uses /\ use[x][1] = x
      <3>1. \E u \in Uses : u[1] = x
        OBVIOUS
      <3> QED
        BY <3>1
    <2>2. \A u \in Uses : u[1] \in used
      OBVIOUS
    <2>3. use = [x \in used |-> use[x]]
      OBVIOUS
    <2> HIDE DEF use, used
    <2>4. \A x, y \in used : use[x] = use[y] => x = y
      BY <2>1
    <2>5. ASSUME NEW u \in Uses PROVE u[1] \in used /\ use[u[1]] = u
      BY <1>4, <2>1, <2>2
    <2>6. use \in [used -> Uses]
      BY <2>1, <2>3
    <2> QED
      BY <2>4, <2>5, <2>6 DEF Bijection, Injection, Surjection, IsInjective
  <1>8. Cardinality(used) = Cardinality(Uses)
    <2> HIDE DEF use, used
    <2>1. ExistsBijection(used, Uses)
      BY <1>7 DEF ExistsBijection
    <2> QED
      BY <1>6, <2>1, FS_Bijection
  <1>9. PoolPages \subseteq used /\ used \subseteq PoolPages \cup ImagePages
    <2> HIDE DEF used
    <2> QED
      BY <1>5 DEF VmInv, FrameInv
  <1> QED
    BY <1>8, <1>9 DEF FramesAccounted, PoolPages, ImagePages

(* What is mapped lies in a region; a thread has its text and data.        *)
LEMMA InvTranslated ==
  ASSUME VmInv
  PROVE  Translated
  <1>1. \A pv \in Mapped : \E i \in DOMAIN rg_list[pv[1]] : Within(rg_list[pv[1]][i], pv[2])
    BY DEF VmInv, RegionInv, Members
  <1>2. ASSUME NEW p \in Procs, pa_pd[p] # None, NEW d \in KernTables
        PROVE  pd[p][d] = pd[0][d]
    <2>1. pd[p][d] = KernTable(d) /\ pd[0] = KernPd
      BY <1>2 DEF VmInv, HatInv
    <2> QED
      BY <2>1, KernelBelow DEF KernPd
  <1>3. ASSUME NEW p \in Procs, state[p] # "none"
        PROVE  LET e == ExecHeader(Images[p]) IN
               /\ Pte(p, VA_USER_VIDEO) = VideoPage
               /\ \A v \in (e.text .. e.text + e.tsize - 1) \cup (e.data .. e.data + e.dsize - 1) :
                    <<p, v>> \in Mapped
    <2> DEFINE e == ExecHeader(Images[p])
    <2>1. /\ Recognized(Images[p]) /\ pa_pd[p] # None /\ Pte(p, VA_USER_VIDEO) = VideoPage
          /\ \A v \in Loaded(p) : Pte(p, v) # None
      BY <1>3 DEF VmInv, UserInv
    <2>2. /\ Text(p).start = e.text /\ Text(p).size = e.tsize
          /\ Data(p).start = e.data /\ Data(p).size = e.dsize
      BY DEF Text, Data
    <2>3. e.text \in Nat /\ e.tsize \in Nat /\ e.data \in Nat /\ e.dsize \in Nat
      BY <2>1, <2>2, HeaderIs
    <2> HIDE DEF e
    <2>4. ASSUME NEW v \in (e.text .. e.text + e.tsize - 1) \cup (e.data .. e.data + e.dsize - 1)
          PROVE  <<p, v>> \in Mapped
      <3>1. v \in Int /\ (Within(Text(p), v) \/ Within(Data(p), v))
        BY <2>2, <2>3 DEF Within
      <3>2. v \in UserPages \ {VA_USER_VIDEO} /\ v \in Loaded(p)
        BY <2>1, <3>1, HeaderIs
      <3> QED
        BY <2>1, <3>2 DEF Mapped, UserPages
    <2> QED
      BY <2>1, <2>4 DEF e
  <1> QED
    BY <1>1, <1>2, <1>3 DEF Translated

(* f follows the reserved cache from its head.                             *)
IsCacheWalk(f) ==
  f = [i \in 0 .. MemPages |->
         IF i = 0 THEN head
         ELSE LET x == f[i - 1] IN IF x \in Frames THEN next_cache[x] ELSE x]

(* The walk is along the list, and then at the null pointer.               *)
LEMMA CacheWalkIs ==
  ASSUME NEW s, IsCacheList(s, head, tail, next_cache), Len(s) <= MemPages
  PROVE  LET At(i) == IF i < Len(s) THEN s[i + 1] ELSE NoPage
         IN  /\ \E f : IsCacheWalk(f)
             /\ \A f : IsCacheWalk(f) => \A i \in 0 .. MemPages : f[i] = At(i)
  <1> DEFINE w == [i \in 0 .. MemPages |-> IF i < Len(s) THEN s[i + 1] ELSE NoPage]
  <1>1. /\ s \in Seq(Frames) /\ Len(s) \in Nat /\ Len(s) >= 1 /\ MemPages \in Nat
        /\ s[1] = head /\ next_cache[s[Len(s)]] = NoPage
        /\ \A i \in 1 .. Len(s) : s[i] \in Frames
        /\ \A i \in 1 .. Len(s) - 1 : next_cache[s[i]] = s[i + 1]
    BY VmNumbers DEF IsCacheList
  <1>2. NoPage \notin Frames
    BY VmNumbers DEF NoPage, Frames
  <1>3. w[0] = head
    BY <1>1
  <1>4. ASSUME NEW i \in 0 .. MemPages, i < MemPages
        PROVE  w[i + 1] = IF w[i] \in Frames THEN next_cache[w[i]] ELSE w[i]
    <2>0. i \in Nat /\ i + 1 \in 0 .. MemPages
      BY <1>1, <1>4
    <2>1. CASE i + 1 < Len(s)
      <3>1. w[i] = s[i + 1] /\ w[i + 1] = s[i + 1 + 1] /\ i + 1 \in 1 .. Len(s) - 1
        BY <1>1, <2>0, <2>1
      <3>2. i + 1 \in 1 .. Len(s)
        BY <1>1, <3>1
      <3> HIDE DEF w
      <3> QED
        BY <1>1, <3>1, <3>2
    <2>2. CASE i + 1 = Len(s)
      <3>1. w[i] = s[Len(s)] /\ w[i + 1] = NoPage /\ Len(s) \in 1 .. Len(s)
        BY <1>1, <2>0, <2>2
      <3> HIDE DEF w
      <3> QED
        BY <1>1, <3>1
    <2>3. CASE i + 1 > Len(s)
      <3>1. w[i] = NoPage /\ w[i + 1] = NoPage
        BY <1>1, <2>0, <2>3
      <3> HIDE DEF w
      <3> QED
        BY <1>2, <3>1
    <2> QED
      BY <1>1, <2>0, <2>1, <2>2, <2>3
  <1>5. w = [i \in 0 .. MemPages |-> w[i]]
    OBVIOUS
  <1> HIDE DEF w
  <1>6. IsCacheWalk(w)
    <2>1. ASSUME NEW i \in 0 .. MemPages
          PROVE  w[i] = IF i = 0 THEN head
                        ELSE LET x == w[i - 1] IN IF x \in Frames THEN next_cache[x] ELSE x
      <3>1. CASE i = 0
        BY <1>3, <3>1
      <3>2. CASE i # 0
        <4>1. i - 1 \in 0 .. MemPages /\ i - 1 < MemPages /\ (i - 1) + 1 = i
          BY <1>1, <3>2
        <4> QED
          BY <1>4, <3>2, <4>1
      <3> QED
        BY <3>1, <3>2
    <2> QED
      BY <1>5, <2>1 DEF IsCacheWalk
  <1>7. ASSUME NEW f, IsCacheWalk(f)
        PROVE  \A i \in 0 .. MemPages : f[i] = w[i]
    <2> DEFINE P == {i \in 0 .. MemPages : f[i] = w[i]}
    <2>1. \A i \in 0 .. MemPages :
            f[i] = IF i = 0 THEN head
                   ELSE LET x == f[i - 1] IN IF x \in Frames THEN next_cache[x] ELSE x
      BY <1>7 DEF IsCacheWalk
    <2>2. 0 \in P
      BY <1>1, <1>3, <2>1
    <2>3. ASSUME NEW i \in 0 .. MemPages, i < MemPages, i \in P PROVE i + 1 \in P
      <3>1. i + 1 \in 0 .. MemPages /\ i + 1 # 0 /\ (i + 1) - 1 = i
        BY <1>1, <2>3
      <3>2. f[i + 1] = IF f[i] \in Frames THEN next_cache[f[i]] ELSE f[i]
        BY <2>1, <3>1
      <3> QED
        BY <1>4, <2>3, <3>1, <3>2
    <2> HIDE DEF P
    <2>4. 0 .. MemPages \subseteq P
      BY <1>1, <2>2, <2>3, UpTo
    <2> QED
      BY <2>4 DEF P
  <1>8. \A i \in 0 .. MemPages : w[i] = IF i < Len(s) THEN s[i + 1] ELSE NoPage
    BY DEF w
  <1> QED
    BY <1>6, <1>7, <1>8

(* The list of the cache, followed from its head, ends at its tail.        *)
LEMMA InvCache ==
  ASSUME VmInv
  PROVE  CacheSound
  <1> DEFINE At_[i \in 0 .. MemPages] ==
               IF i = 0 THEN head
               ELSE LET f == At_[i - 1] IN IF f \in Frames THEN next_cache[f] ELSE f
  <1>1. PICK s : IsCacheList(s, head, tail, next_cache)
    BY DEF VmInv, ListInv
  <1>2. s \in Seq(Frames) /\ Distinct(s) /\ Len(s) \in Nat /\ Len(s) >= 1 /\ MemPages \in Nat
    BY <1>1, VmNumbers DEF IsCacheList
  <1>3. Len(s) <= MemPages
    <2>1. IsFiniteSet(Frames) /\ Cardinality(Frames) = MemPages
      <3>1. 0 \in Int /\ MemPages - 1 \in Int
        BY VmNumbers
      <3>2. /\ IsFiniteSet(0 .. MemPages - 1)
            /\ Cardinality(0 .. MemPages - 1) =
                 IF 0 > MemPages - 1 THEN 0 ELSE (MemPages - 1) - 0 + 1
        BY <3>1, FS_Interval
      <3> QED
        BY <1>2, <3>2 DEF Frames
    <2>2. /\ IsFiniteSet(Members(s)) /\ Cardinality(Members(s)) = Len(s)
          /\ Members(s) \subseteq Frames
      BY <1>2, DistinctLen
    <2>3. Cardinality(Members(s)) <= Cardinality(Frames)
      BY <2>1, <2>2, FS_Subset
    <2> QED
      BY <2>1, <2>2, <2>3
  <1>4. /\ \E f : IsCacheWalk(f)
        /\ \A f : IsCacheWalk(f) =>
             \A i \in 0 .. MemPages : f[i] = IF i < Len(s) THEN s[i + 1] ELSE NoPage
    <2> HIDE DEF At_
    <2> QED
      BY <1>1, <1>3, CacheWalkIs
  <1>5. IsCacheWalk(At_)
    BY <1>4 DEF IsCacheWalk
  <1> HIDE DEF At_
  <1>6. At_[Len(s) - 1] = tail /\ At_[Len(s)] = NoPage
    <2>1. Len(s) - 1 \in 0 .. MemPages /\ Len(s) \in 0 .. MemPages /\ s[Len(s)] = tail
      BY <1>1, <1>2, <1>3 DEF IsCacheList
    <2> QED
      BY <1>2, <1>4, <1>5, <2>1
  <1>7. \E i \in {j \in 0 .. MemPages - 1 : At_[j] = tail} : At_[i + 1] = NoPage
    <2>1. Len(s) - 1 \in 0 .. MemPages - 1 /\ (Len(s) - 1) + 1 = Len(s)
      BY <1>2, <1>3
    <2> QED
      BY <1>6, <2>1
  <1>8. \A pv \in Mapped : hash_map[Pte(pv[1], pv[2])] = Pte(pv[1], pv[2])
    BY DEF VmInv, HashInv, Cached
  <1> QED
    BY <1>7, <1>8 DEF CacheSound, At_

-----------------------------------------------------------------------------
(* The invariant holds throughout.                                         *)
LEMMA SpecVmInv == Spec => []VmInv
  <1>1. VmInv /\ [Next]_vars => VmInv'
    BY NextKeeps
  <1> QED
    BY <1>1, InitVmInv, PTL DEF Spec

(* vm/vas.c: the regions of an address space never overlap.                *)
THEOREM RegionsStayApart == Spec => []RegionsDisjoint
  BY InvRegions, SpecVmInv, PTL

(* vm/page.c: every page has one use at any time, and none is lost.        *)
THEOREM PagesAccounted == Spec => []FramesAccounted
  BY InvFrames, SpecVmInv, PTL

(* i386/hat.c: a process sees its own pages, inside its regions.           *)
THEOREM PagesTranslated == Spec => []Translated
  BY InvTranslated, SpecVmInv, PTL

(* The reserved cache finds what is in use, and its list ends at its tail. *)
THEOREM ReservedCacheSound == Spec => []CacheSound
  BY InvCache, SpecVmInv, PTL

(* hat_insert(): no translation of a process ever changes.                 *)
THEOREM TranslationsStay == Spec => MappingsStay
  <1>1. VmInv /\ [Next]_vars => [\A pv \in Mapped : Pte(pv[1], pv[2])' = Pte(pv[1], pv[2])]_vars
    BY NextKeeps
  <1> QED
    BY <1>1, SpecVmInv, PTL DEF Spec, MappingsStay
=============================================================================
