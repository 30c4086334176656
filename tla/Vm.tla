--------------------------------- MODULE Vm ---------------------------------
(***************************************************************************)
(* Address spaces: the regions of vm/vas.c, the page tables of i386/hat.c, *)
(* the reserved cache of vm/page.c, and the two that use them while the    *)
(* system starts, create_bootproc() of kern/proc.c and page_fault().       *)
(*                                                                         *)
(* Addresses, sizes and physical memory are counted in pages, a directory  *)
(* and a table have NPTE slots.  alloc_page() may put its caller to sleep, *)
(* so every call of it is a step of its own; descriptors come from pools   *)
(* that have their pages already.                                          *)
(***************************************************************************)
EXTENDS Integers, Sequences, FiniteSets, SequencesExt

CONSTANTS
  NBoot,         \* boot modules; module p becomes process p
  NPTE,
  MemPages,      \* pages of memory
  TopMemory,     \* pages from the kernel's first up to here are reserved
  KernStart,
  EarlyPages,    \* pages that start-up takes after the kernel's tables
  Images,        \* [1 .. NBoot -> the ELF header, and the pages of the module]
  USER_BASE, VA_USER_VIDEO, VideoPage, MAX_STACK,
  Touch          \* [1 .. NBoot -> the pages the process touches]

Procs  == 1 .. NBoot
Hats   == 0 .. NBoot         \* hat 0 is kern_hat
Frames == 0 .. MemPages - 1
Index  == 0 .. NPTE - 1
VaTop  == NPTE * NPTE - 1
NoPage == 0 - 1            \* the null pointer in a chain of pages
None   == 0                  \* page 0 is the null page: no frame
Junk   == 1                  \* what a page holds that nobody has cleared

(* elf_header() takes the first two program headers for text and data, and *)
(* sets the bit of USER_BASE in what they say; it turns down any other     *)
(* format, and a header with fewer of them.                                *)
Recognized(b) == b.elf /\ Len(b.ph) >= 2

UserVa(v) == IF v < USER_BASE THEN v + USER_BASE ELSE v

ExecHeader(b) ==
  [text |-> UserVa(b.ph[1].vaddr), tsize |-> b.ph[1].filesz,
   data |-> UserVa(b.ph[2].vaddr), dsize |-> b.ph[2].filesz,
   bss_end |-> UserVa(b.ph[2].vaddr + b.ph[2].memsz)]

Header == [vaddr : Nat, filesz : Nat, memsz : Nat]
Module == [elf : BOOLEAN, ph : Seq(Header), first : Nat, last : Nat]

ASSUME VmAssumption ==
  /\ {NBoot, NPTE, MemPages, TopMemory, EarlyPages, USER_BASE, VideoPage, MAX_STACK} \subseteq Nat \ {0}
  /\ {KernStart, VA_USER_VIDEO} \subseteq Nat \ {0, 1}
  /\ MemPages < USER_BASE /\ USER_BASE % NPTE = 0 /\ USER_BASE <= VA_USER_VIDEO
  /\ VA_USER_VIDEO + MAX_STACK <= VaTop
  /\ Touch \in [Procs -> SUBSET (0 .. VaTop)]

(* The modules lie behind the kernel, each in pages of its own.            *)
ASSUME ImagesAssumption ==
  /\ Images \in [Procs -> Module]
  /\ \A p, q \in Procs : p # q => Images[p].last < Images[q].first \/ Images[q].last < Images[p].first
  /\ \A p \in Procs :
       LET b == Images[p] IN
       /\ KernStart <= b.first /\ b.first <= b.last /\ b.last < TopMemory
       /\ Recognized(b) =>
            LET e == ExecHeader(b) IN
            /\ e.text < e.data /\ e.data + e.dsize <= e.bss_end
            /\ 0 < e.tsize /\ 0 < e.dsize
            /\ e.bss_end <= VA_USER_VIDEO /\ e.text + e.tsize <= VA_USER_VIDEO

VARIABLES
  free,          \* the pages of the list at free_pages, in its order
  pa_pd, pd,     \* the page of a directory, and what its slots point to
  pt,            \* what the slots of a page hold, when it is used as a table
  rg_list, last_reg,
  next_hash, hash_map, next_cache, head, tail,      \* the reserved cache
  state, va, new,    \* of the thread of a process: its page fault
  kstack,
  lpc, c, lva, lnew, \* create_bootproc()
  hung               \* the endless loop of page_fault()

cache  == <<next_hash, hash_map, next_cache, head, tail>>
hat    == <<pa_pd, pd, pt>>
user   == <<state, va, new>>
loader == <<lpc, c, lva, lnew>>
vars   == <<free, hat, rg_list, last_reg, cache, user, kstack, loader, hung>>

va2ipd(v) == v \div NPTE
va2ipt(v) == v % NPTE
Pte(h, v) == IF pd[h][va2ipd(v)] = None THEN None
             ELSE pt[pd[h][va2ipd(v)]][va2ipt(v)]
Zero == [i \in Index |-> None]

-----------------------------------------------------------------------------
(* The reserved cache.  The hash map has at least as many slots as there   *)
(* are pages, and a page is cached at its own address.                     *)
(* Mutant: a page that is on the list keeps its link.                      *)
EnqueueCacheLinked(f) ==
  /\ next_cache' = [next_cache EXCEPT ![tail] = f]
  /\ tail' = f
  /\ UNCHANGED head

EnqueueCache(f) ==
  /\ next_cache' = [next_cache EXCEPT ![tail] = f, ![f] = NoPage]
  /\ tail' = f
  /\ UNCHANGED head

CachePage(f) ==
  /\ EnqueueCache(f)
  /\ next_hash' = [next_hash EXCEPT ![f] = hash_map[f]]
  /\ hash_map' = [hash_map EXCEPT ![f] = f]

-----------------------------------------------------------------------------
(* hat_insert() and hat_map() find the table of an address missing: they   *)
(* allocate one and clear it.                                              *)
(* Mutant: the page is not cleared.                                        *)
NewTableDirty(h, v) ==
  /\ pd' = [pd EXCEPT ![h][va2ipd(v)] = Head(free)]
  /\ pt' = pt
  /\ free' = Tail(free)

NewTable(h, v) ==
  /\ pd' = [pd EXCEPT ![h][va2ipd(v)] = Head(free)]
  /\ pt' = [pt EXCEPT ![Head(free)] = Zero]
  /\ free' = Tail(free)

(* hat_insert(): the slot is filled in whatever it held.                   *)
Insert(h, v, f) == pt' = [pt EXCEPT ![pd[h][va2ipd(v)]][va2ipt(v)] = f]

HasTable(h, v) == pd[h][va2ipd(v)] # None

(* No page left: whoever needs one gets page 0, which nobody may touch.    *)
Hang == hung' = TRUE
        /\ UNCHANGED <<free, hat, rg_list, last_reg, cache, user, kstack, loader>>

-----------------------------------------------------------------------------
(* region_create(): the list is kept in order; the new region is compared  *)
(* with the first one behind it and the one before that, which is the last *)
(* of the ring if the new one comes first.                                 *)
Behind(l, start) == {i \in DOMAIN l : l[i].start > start}

(* Mutant: the region before is not looked at.                             *)
RegionCreateLax(l, start, size) ==
  LET i == Min(Behind(l, start))
      rg == [start |-> start, size |-> size]
  IN IF Behind(l, start) = {} THEN Append(l, rg)
     ELSE IF start + size > l[i].start THEN l ELSE InsertAt(l, i, rg)

RegionCreate(l, start, size) ==
  LET i == Min(Behind(l, start))
      prev == IF Behind(l, start) = {} \/ i = 1 THEN l[Len(l)] ELSE l[i - 1]
      rg == [start |-> start, size |-> size]
  IN IF l = << >> THEN << rg >>
     ELSE IF Behind(l, start) = {}
     THEN IF prev.start + prev.size > start THEN l ELSE Append(l, rg)
     ELSE IF start + size > l[i].start
             \/ (Len(l) > 1 /\ prev.start + prev.size > start)
          THEN l ELSE InsertAt(l, i, rg)

Within(rg, v) == rg.start <= v /\ v < rg.start + rg.size

NoRegion == [start |-> 0, size |-> 0]

(* vas_pagefault(): the hint first, then the list.                         *)
Lookup(p, v) ==
  LET hits == {i \in DOMAIN rg_list[p] : Within(rg_list[p][i], v)}
  IN IF Within(last_reg[p], v) THEN last_reg[p]
     ELSE IF hits = {} THEN NoRegion
     ELSE rg_list[p][Min(hits)]

-----------------------------------------------------------------------------
(* After main(): init_pages() has cached the kernel and the boot modules,  *)
(* hat_init() has mapped as many pages as there are, from the second on.   *)
KernTables == 0 .. va2ipd(MemPages)
KernTable(d) == TopMemory + 1 + d
FirstFree == TopMemory + 1 + Cardinality(KernTables) + EarlyPages

(* Start-up itself does not run out of memory.                             *)
ASSUME MemoryAssumption == FirstFree <= MemPages

KernPd == [d \in Index |-> IF d \in KernTables THEN KernTable(d) ELSE None]
Wired == [i \in 1 .. TopMemory - KernStart |-> KernStart + i - 1] \o <<0, 1>>

HatInit(f) ==
  CASE \E d \in KernTables : f = KernTable(d) ->
         LET d == CHOOSE e \in KernTables : f = KernTable(e) IN
         [i \in Index |-> LET v == d * NPTE + i IN
                          IF v = 0 \/ v > MemPages THEN None ELSE v]
    [] OTHER -> [i \in Index |-> Junk]

Init ==
  /\ free = [i \in 1 .. MemPages - FirstFree |-> FirstFree + i - 1]
  /\ pa_pd = [h \in Hats |-> IF h = 0 THEN TopMemory ELSE None]
  /\ pd = [h \in Hats |-> IF h = 0 THEN KernPd ELSE Zero]
  /\ pt = [f \in Frames |-> HatInit(f)]
  /\ rg_list = [p \in Procs |-> << >>]
  /\ last_reg = [p \in Procs |-> NoRegion]
  /\ hash_map = [f \in Frames |-> IF f \in ToSet(Wired) THEN f ELSE NoPage]
  /\ next_hash = [f \in Frames |-> NoPage]
  /\ next_cache = [f \in Frames |->
       LET at == {i \in DOMAIN Wired : Wired[i] = f /\ i < Len(Wired)}
       IN IF at = {} THEN NoPage ELSE Wired[(CHOOSE i \in at : TRUE) + 1]]
  /\ head = Wired[1] /\ tail = Last(Wired)
  /\ state = [p \in Procs |-> "none"]
  /\ va = [p \in Procs |-> 0] /\ new = [p \in Procs |-> None]
  /\ kstack = [p \in Procs |-> None]
  /\ lpc = "proc" /\ c = 1 /\ lva = 0 /\ lnew = None
  /\ hung = FALSE

-----------------------------------------------------------------------------
(* create_bootproc(), run by the idle thread: one module after the other.  *)
LoaderAt(l) == lpc = l /\ c <= NBoot /\ ~hung

(* A module that is not recognized is passed over, and stays in memory.    *)
LoaderSkips ==
  /\ LoaderAt("proc") /\ ~Recognized(Images[c])
  /\ c' = c + 1
  /\ UNCHANGED <<free, hat, rg_list, last_reg, cache, user, kstack, lpc, lva, lnew, hung>>

(* new_proc(), vas_alloc() and hat_create(): the kernel's directory is     *)
(* copied.                                                                 *)
NewProc ==
  /\ LoaderAt("proc") /\ Recognized(Images[c]) /\ free # << >>
  /\ pa_pd' = [pa_pd EXCEPT ![c] = Head(free)]
  /\ pd' = [pd EXCEPT ![c] = pd[0]]
  /\ free' = Tail(free)
  /\ lpc' = "regions"
  /\ UNCHANGED <<pt, rg_list, last_reg, cache, user, kstack, c, lva, lnew, hung>>

(* The regions of text, data and, where it goes beyond the pages of the    *)
(* data, bss.                                                              *)
CreateRegions ==
  LET e    == ExecHeader(Images[c])
      bss  == e.data + e.dsize
      text == RegionCreate(<< >>, e.text, e.tsize)
      data == RegionCreate(text, e.data, e.dsize)
  IN /\ LoaderAt("regions")
     /\ rg_list' = [rg_list EXCEPT ![c] =
          IF e.bss_end > bss THEN RegionCreate(data, bss, e.bss_end - bss) ELSE data]
     /\ lpc' = "video"
     /\ UNCHANGED <<free, hat, last_reg, cache, user, kstack, c, lva, lnew, hung>>

(* hat_map() of the page of video memory, with the table it needs.         *)
MapVideo ==
  /\ LoaderAt("video")
  /\ IF HasTable(c, VA_USER_VIDEO)
     THEN /\ Insert(c, VA_USER_VIDEO, VideoPage)
          /\ lpc' = "commit" /\ lva' = ExecHeader(Images[c]).text
          /\ UNCHANGED <<free, pd>>
     ELSE free # << >> /\ NewTable(c, VA_USER_VIDEO) /\ UNCHANGED <<lpc, lva>>
  /\ UNCHANGED <<pa_pd, rg_list, last_reg, cache, user, kstack, c, lnew, hung>>

(* region_commit() of text, then of data: a page for each of its slots ... *)
CommitPage ==
  /\ LoaderAt("commit") /\ free # << >>
  /\ lnew' = Head(free) /\ free' = Tail(free)
  /\ CachePage(Head(free))
  /\ lpc' = "insert"
  /\ UNCHANGED <<hat, rg_list, last_reg, user, kstack, c, lva, hung>>

(* ... which hat_insert() enters.  If the data begin in the last page of   *)
(* the text there is no region for them, and region_commit() is given      *)
(* none.                                                                   *)
CommitInsert ==
  LET e == ExecHeader(Images[c])
      textDone == lva + 1 = e.text + e.tsize
      data == \E i \in DOMAIN rg_list[c] : rg_list[c][i].start = e.data
  IN
  /\ LoaderAt("insert")
  /\ IF HasTable(c, lva)
     THEN /\ Insert(c, lva, lnew)
          /\ lnew' = None
          /\ lva' = IF textDone THEN e.data ELSE lva + 1
          /\ lpc' = IF data /\ ~textDone /\ lva + 1 = e.data + e.dsize THEN "copy" ELSE "commit"
          /\ hung' = (textDone /\ ~data)
          /\ UNCHANGED <<free, pd>>
     ELSE free # << >> /\ NewTable(c, lva) /\ UNCHANGED <<lpc, lva, lnew, hung>>
  /\ UNCHANGED <<pa_pd, rg_list, last_reg, cache, user, kstack, c>>

(* hat_enter(), bcopy() and setup_args(): the pages are written through    *)
(* the new address space; the idle thread has no vas to fault in.          *)
CopyImage ==
  LET e == ExecHeader(Images[c])
      to == (e.text .. e.text + e.tsize - 1) \cup (e.data .. e.data + e.dsize - 1)
  IN
  /\ LoaderAt("copy")
  /\ hung' = \E v \in to : Pte(c, v) = None
  /\ lpc' = "reclaim" /\ lva' = Images[c].first
  /\ UNCHANGED <<free, hat, rg_list, last_reg, cache, user, kstack, c, lnew>>

(* Mutant: the loop of reclaim_region() goes one page too far.             *)
ReclaimFar ==
  /\ LoaderAt("reclaim")
  /\ free' = << lva >> \o free
  /\ IF lva = Images[c].last + 1 THEN lpc' = "thread" /\ lva' = 0
     ELSE lpc' = lpc /\ lva' = lva + 1
  /\ UNCHANGED <<hat, rg_list, last_reg, cache, user, kstack, c, lnew, hung>>

(* reclaim_region(): free_page() of each page of the image.                *)
Reclaim ==
  /\ LoaderAt("reclaim")
  /\ free' = << lva >> \o free
  /\ IF lva = Images[c].last THEN lpc' = "thread" /\ lva' = 0
     ELSE lpc' = lpc /\ lva' = lva + 1
  /\ UNCHANGED <<hat, rg_list, last_reg, cache, user, kstack, c, lnew, hung>>

(* create_thread() with its cleared kernel stack, and proc_attach_thread() *)
(* with the region below the first stack's end (a page is left empty).     *)
CreateThread ==
  /\ LoaderAt("thread") /\ free # << >>
  /\ kstack' = [kstack EXCEPT ![c] = Head(free)]
  /\ pt' = [pt EXCEPT ![Head(free)] = Zero]
  /\ free' = Tail(free)
  /\ rg_list' = [rg_list EXCEPT ![c] = RegionCreate(@, VaTop - MAX_STACK, MAX_STACK)]
  /\ state' = [state EXCEPT ![c] = "user"]
  /\ c' = c + 1 /\ lpc' = "proc"
  /\ UNCHANGED <<pa_pd, pd, last_reg, cache, va, new, lva, lnew, hung>>

(* No page is left: region_commit() returns early, create_thread() without *)
(* a thread; hat_create() and hat_insert() go on with page 0.              *)
LoaderStarved ==
  /\ c <= NBoot /\ ~hung /\ free = << >>
  /\ \/ /\ lpc = "commit" /\ lpc' = "copy" /\ UNCHANGED <<c, lva, lnew, hung>>
     \/ /\ lpc = "thread" /\ lpc' = "proc" /\ c' = c + 1
        /\ UNCHANGED <<lva, lnew, hung>>
     \/ /\ \/ lpc = "proc" /\ Recognized(Images[c])
           \/ lpc = "video" /\ ~HasTable(c, VA_USER_VIDEO)
           \/ lpc = "insert" /\ ~HasTable(c, lva)
        /\ hung' = TRUE
        /\ UNCHANGED loader
  /\ UNCHANGED <<free, hat, rg_list, last_reg, cache, user, kstack>>

Loader == LoaderSkips \/ NewProc \/ CreateRegions \/ MapVideo \/ CommitPage \/ CommitInsert
            \/ CopyImage \/ Reclaim \/ CreateThread \/ LoaderStarved

-----------------------------------------------------------------------------
(* page_fault() and vas_pagefault(): a thread touches a page that is not   *)
(* mapped.  Outside of its regions this is the end of it, thread_die().    *)
PageFault(p) ==
  \E v \in Touch[p] :
    LET rg == Lookup(p, v) IN
    /\ state[p] = "user" /\ ~hung /\ Pte(p, v) = None
    /\ IF rg = NoRegion
       THEN state' = [state EXCEPT ![p] = "dead"] /\ UNCHANGED <<last_reg, va>>
       ELSE /\ last_reg' = [last_reg EXCEPT ![p] = rg]
            /\ state' = [state EXCEPT ![p] = "page"]
            /\ va' = [va EXCEPT ![p] = v]
    /\ UNCHANGED <<free, hat, rg_list, cache, new, kstack, loader, hung>>

(* alloc_page(), zero_page() and cache_page().                             *)
FaultPage(p) ==
  /\ state[p] = "page" /\ ~hung /\ free # << >>
  /\ new' = [new EXCEPT ![p] = Head(free)]
  /\ pt' = [pt EXCEPT ![Head(free)] = Zero]
  /\ free' = Tail(free)
  /\ CachePage(Head(free))
  /\ state' = [state EXCEPT ![p] = "insert"]
  /\ UNCHANGED <<pa_pd, pd, rg_list, last_reg, va, kstack, loader, hung>>

(* Mutant: the page goes to the start of the region.                       *)
FaultInsertStart(p) ==
  /\ state[p] = "insert" /\ ~hung
  /\ IF HasTable(p, va[p])
     THEN /\ Insert(p, last_reg[p].start, new[p])
          /\ state' = [state EXCEPT ![p] = "user"]
          /\ new' = [new EXCEPT ![p] = None] /\ va' = [va EXCEPT ![p] = 0]
          /\ UNCHANGED <<free, pd>>
     ELSE free # << >> /\ NewTable(p, va[p]) /\ UNCHANGED user
  /\ UNCHANGED <<pa_pd, rg_list, last_reg, cache, kstack, loader, hung>>

(* hat_insert(), which may have to allocate a table first.                 *)
FaultInsert(p) ==
  /\ state[p] = "insert" /\ ~hung
  /\ IF HasTable(p, va[p])
     THEN /\ Insert(p, va[p], new[p])
          /\ state' = [state EXCEPT ![p] = "user"]
          /\ new' = [new EXCEPT ![p] = None] /\ va' = [va EXCEPT ![p] = 0]
          /\ UNCHANGED <<free, pd>>
     ELSE free # << >> /\ NewTable(p, va[p]) /\ UNCHANGED user
  /\ UNCHANGED <<pa_pd, rg_list, last_reg, cache, kstack, loader, hung>>

(* No page: the fault counts as not handled, or page 0 is cleared.         *)
FaultStarved(p) ==
  /\ ~hung /\ free = << >>
  /\ state[p] = "page" \/ (state[p] = "insert" /\ ~HasTable(p, va[p]))
  /\ Hang

Next ==
  \/ Loader
  \/ \E p \in Procs : PageFault(p) \/ FaultPage(p) \/ FaultInsert(p) \/ FaultStarved(p)

Spec == Init /\ [][Next]_vars
-----------------------------------------------------------------------------
(* What a page is in use for.                                              *)
Mapped == {pv \in Procs \X (USER_BASE .. VaTop) :
             /\ pv[2] # VA_USER_VIDEO /\ pa_pd[pv[1]] # None
             /\ Pte(pv[1], pv[2]) # None}

Uses ==
  {<<free[i], "free", i>> : i \in DOMAIN free}
    \cup {<<pa_pd[h], "directory", h>> : h \in {g \in Hats : pa_pd[g] # None}}
    \cup {<<KernTable(d), "kernel table", d>> : d \in KernTables}
    \cup {<<pd[x[1]][x[2]], "table", x>> :
           x \in {y \in Procs \X (Index \ KernTables) : pd[y[1]][y[2]] # None}}
    \cup {<<Pte(pv[1], pv[2]), "mapped", pv>> : pv \in Mapped}
    \cup {<<new[p], "fault", p>> : p \in {q \in Procs : new[q] # None}}
    \cup {<<kstack[p], "stack", p>> : p \in {q \in Procs : kstack[q] # None}}
    \cup {<<lnew, "commit", c>> : x \in {lnew} \ {None}}
    \cup UNION {{<<f, "image", p>> :
             f \in (IF p = c /\ lpc = "reclaim" THEN lva ELSE Images[p].first)
                   .. Images[p].last} :
           p \in {q \in Procs : q > c \/ (q = c /\ lpc # "thread") \/ ~Recognized(Images[q])}}

(* Every page beyond the kernel's has exactly one use at any time: none is *)
(* lost and none is given out twice, neither between the steps of a fault  *)
(* nor while the image of a module still has to be read; the page of       *)
(* boot_info, behind the last image, goes with that image and not before.  *)
FramesAccounted ==
  LET used   == {u[1] : u \in Uses}
      early  == FirstFree - EarlyPages .. FirstFree - 1
      images == UNION {Images[p].first .. Images[p].last : p \in Procs}
  IN /\ Cardinality(used) = Cardinality(Uses)
     /\ (TopMemory .. MemPages - 1) \ early \subseteq used
     /\ used \subseteq ((TopMemory .. MemPages - 1) \ early) \cup images

(* The regions of an address space are in order and do not overlap.        *)
RegionsDisjoint ==
  \A p \in Procs : \A i \in 1 .. Len(rg_list[p]) - 1 :
    rg_list[p][i].start + rg_list[p][i].size <= rg_list[p][i + 1].start

(* A process sees its own pages, inside its regions, the video page where  *)
(* it was mapped, and the kernel's translations; a thread that runs finds  *)
(* its text and data present.                                              *)
Translated ==
  /\ \A pv \in Mapped : \E i \in DOMAIN rg_list[pv[1]] : Within(rg_list[pv[1]][i], pv[2])
  /\ \A p \in Procs : pa_pd[p] # None =>
       \A d \in KernTables : pd[p][d] = pd[0][d]
  /\ \A p \in Procs : state[p] # "none" =>
       LET e == ExecHeader(Images[p]) IN
       /\ Pte(p, VA_USER_VIDEO) = VideoPage
       /\ \A v \in (e.text .. e.text + e.tsize - 1) \cup (e.data .. e.data + e.dsize - 1) :
            <<p, v>> \in Mapped

(* cache_lookup() finds every page that is in use by the reserved cache,   *)
(* and the walk of its list ends at the tail, although the pages of boot   *)
(* images are entered a second time when they are used again.              *)
CacheSound ==
  LET At[i \in 0 .. MemPages] ==
        IF i = 0 THEN head
        ELSE LET f == At[i - 1] IN IF f \in Frames THEN next_cache[f] ELSE f
      last == {i \in 0 .. MemPages - 1 : At[i] = tail}
  IN /\ \E i \in last : At[i + 1] = NoPage
     /\ \A pv \in Mapped : hash_map[Pte(pv[1], pv[2])] = Pte(pv[1], pv[2])

(* A translation in a process never changes: no fault takes the place of   *)
(* a page that is there.                                                   *)
MappingsStay ==
  [][\A pv \in Mapped : Pte(pv[1], pv[2])' = Pte(pv[1], pv[2])]_vars
=============================================================================
