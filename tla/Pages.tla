------------------------------- MODULE Pages -------------------------------
(***************************************************************************)
(* The free page list of vm/page.c: init_pages() and reserve_region(),     *)
(* alloc_page() and free_page().                                           *)
(*                                                                         *)
(* freeq_lock is a semaphore used as a lock (module Threads shows that     *)
(* such a semaphore is one); who holds it is all that is kept of it.       *)
(***************************************************************************)
EXTENDS Integers, Sequences, FiniteSets

CONSTANTS
  Threads,
  None,                \* no thread
  MaxPages,            \* pages of memory, numbered from 0
  NPG_RESERVED,        \* the null page and the kernel's page directory
  ResStart, ResEnd,    \* reserve_region(): video memory up to top_memory
  MaxOwn               \* bound on the whole pages a thread keeps

PageNums == 0 .. MaxPages - 1
Nil == 0 - 1          \* the null pointer

ASSUME PagesAssumption ==
  /\ {MaxPages, NPG_RESERVED, ResStart, ResEnd, MaxOwn} \subseteq Nat
  /\ 0 < NPG_RESERVED /\ NPG_RESERVED + 1 < ResStart
  /\ ResStart < ResEnd /\ ResEnd < MaxPages
  /\ None \notin Threads

VARIABLES
  flags, next,         \* page_desc.flags, page_desc.next
  free_pages, free_count,
  freeq,               \* the holder of freeq_lock
  pc, ret,             \* what a thread does next, and after the call it is in
  page,                \* the page alloc_page() or free_page() is about
  own                  \* pages a thread got from alloc_page() and kept

list  == <<flags, next, free_pages, free_count>>
local == <<pc, ret, page>>
vars  == <<list, freeq, local, own>>

Reserved == 0 .. NPG_RESERVED - 1 \cup ResStart .. ResEnd - 1
First    == NPG_RESERVED

(* The links after init_pages() has chained all pages and reserve_region() *)
(* has led the chain around the region.                                    *)
InitNext ==
  [p \in PageNums |-> IF p < NPG_RESERVED \/ p = MaxPages - 1 THEN Nil
                      ELSE IF p = ResStart - 1 THEN ResEnd ELSE p + 1]

(* After init_pages(): its last act, cache_create(), has taken the first   *)
(* page for the pool that holds reserved_cache, for good.                  *)
Init ==
  /\ flags = [p \in PageNums |-> IF p \in Reserved THEN "RESERVED"
                                 ELSE IF p = First THEN "USED" ELSE "FREE"]
  /\ next = [InitNext EXCEPT ![First] = Nil]
  /\ free_pages = InitNext[First]
  /\ free_count = MaxPages - NPG_RESERVED - (ResEnd - ResStart) - 1
  /\ freeq = None
  /\ pc = [t \in Threads |-> "idle"]
  /\ ret = [t \in Threads |-> "idle"]
  /\ page = [t \in Threads |-> Nil]
  /\ own = [t \in Threads |-> {}]

-----------------------------------------------------------------------------
(* Mutant: the lock is given back before the head is taken off.            *)
AllocPageUnlocked(t) ==
  /\ pc[t] = "alloc" /\ freeq = None
  /\ page' = [page EXCEPT ![t] = free_pages]
  /\ pc' = [pc EXCEPT ![t] = "pop"]
  /\ UNCHANGED <<list, freeq, ret, own>>

(* alloc_page(): sema_p, and the head of the list is read.                 *)
AllocPage(t) ==
  /\ pc[t] = "alloc" /\ freeq = None
  /\ freeq' = t
  /\ page' = [page EXCEPT ![t] = free_pages]
  /\ pc' = [pc EXCEPT ![t] = "pop"]
  /\ UNCHANGED <<list, ret, own>>

(* alloc_page(): the head is taken off, if there is one and it is free.    *)
PopPage(t) ==
  LET p == page[t] IN
  /\ pc[t] = "pop"
  /\ freeq' = None
  /\ \/ /\ p # Nil /\ flags[p] = "FREE"
        /\ free_pages' = next[free_pages]
        /\ free_count' = free_count - 1
        /\ pc' = [pc EXCEPT ![t] = "mark"]
        /\ UNCHANGED <<flags, next, page>>
     \/ /\ ~(p # Nil /\ flags[p] = "FREE")
        /\ page' = [page EXCEPT ![t] = Nil]
        /\ pc' = [pc EXCEPT ![t] = ret[t]]
        /\ UNCHANGED list
  /\ UNCHANGED <<ret, own>>

(* alloc_page(): after sema_v the page is marked.                          *)
MarkPage(t) ==
  /\ pc[t] = "mark"
  /\ next' = [next EXCEPT ![page[t]] = Nil]
  /\ flags' = [flags EXCEPT ![page[t]] = "USED"]
  /\ pc' = [pc EXCEPT ![t] = ret[t]]
  /\ UNCHANGED <<free_pages, free_count, freeq, ret, page, own>>

(* free_page(): the test of the page number, sema_p, and the link.         *)
FreePage(t) ==
  LET p == page[t] IN
  /\ pc[t] = "free"
  /\ \/ /\ p > NPG_RESERVED /\ p < MaxPages
        /\ freeq = None
        /\ freeq' = t
        /\ next' = [next EXCEPT ![p] = free_pages]
        /\ pc' = [pc EXCEPT ![t] = "push"]
     \/ /\ ~(p > NPG_RESERVED /\ p < MaxPages)
        /\ pc' = [pc EXCEPT ![t] = ret[t]]
        /\ UNCHANGED <<freeq, next>>
  /\ UNCHANGED <<flags, free_pages, free_count, ret, page, own>>

(* Mutant: the count is forgotten.                                         *)
PushPageUncounted(t) ==
  /\ pc[t] = "push"
  /\ free_pages' = page[t]
  /\ flags' = [flags EXCEPT ![page[t]] = "FREE"]
  /\ freeq' = None
  /\ pc' = [pc EXCEPT ![t] = ret[t]]
  /\ UNCHANGED <<next, free_count, ret, page, own>>

(* free_page(): the rest, and sema_v.                                      *)
PushPage(t) ==
  /\ pc[t] = "push"
  /\ free_pages' = page[t]
  /\ flags' = [flags EXCEPT ![page[t]] = "FREE"]
  /\ free_count' = free_count + 1
  /\ freeq' = None
  /\ pc' = [pc EXCEPT ![t] = ret[t]]
  /\ UNCHANGED <<next, ret, page, own>>

PageStep(t) ==
  AllocPage(t) \/ PopPage(t) \/ MarkPage(t) \/ FreePage(t) \/ PushPage(t)

-----------------------------------------------------------------------------
(* A call is over, and its local variables with it.                        *)
Return(t) ==
  /\ page' = [page EXCEPT ![t] = Nil]
  /\ pc' = [pc EXCEPT ![t] = "idle"] /\ ret' = [ret EXCEPT ![t] = "idle"]

(* The callers that use whole pages: stacks, page tables, buffers.         *)
CallAlloc(t) ==
  /\ pc[t] = "idle" /\ Cardinality(own[t]) < MaxOwn
  /\ pc' = [pc EXCEPT ![t] = "alloc"] /\ ret' = [ret EXCEPT ![t] = "got"]
  /\ UNCHANGED <<list, freeq, page, own>>

GotPage(t) ==
  /\ pc[t] = "got"
  /\ own' = [own EXCEPT ![t] = IF page[t] = Nil THEN @ ELSE @ \cup {page[t]}]
  /\ Return(t)
  /\ UNCHANGED <<list, freeq>>

CallFree(t) ==
  /\ pc[t] = "idle"
  /\ \E p \in own[t] :
       /\ page' = [page EXCEPT ![t] = p]
       /\ own' = [own EXCEPT ![t] = @ \ {p}]
  /\ pc' = [pc EXCEPT ![t] = "free"] /\ ret' = [ret EXCEPT ![t] = "freed"]
  /\ UNCHANGED <<list, freeq>>

Freed(t) ==
  /\ pc[t] = "freed"
  /\ Return(t)
  /\ UNCHANGED <<list, freeq, own>>

Use(t) == CallAlloc(t) \/ GotPage(t) \/ CallFree(t) \/ Freed(t)

Next == \E t \in Threads : PageStep(t) \/ Use(t)

Spec == Init /\ [][Next]_vars
-----------------------------------------------------------------------------
(* Every value is of its kind.                                             *)
TypeOK ==
  /\ flags \in [PageNums -> {"FREE", "USED", "RESERVED"}]
  /\ next \in [PageNums -> PageNums \cup {Nil}]
  /\ free_pages \in PageNums \cup {Nil}
  /\ free_count \in 0 .. MaxPages
  /\ freeq \in Threads \cup {None}
  /\ page \in [Threads -> PageNums \cup {Nil}]
  /\ own \in [Threads -> SUBSET PageNums]

(* The pages on the free list: those the chain from free_pages leads to.   *)
FreeSet ==
  LET At[i \in PageNums] ==
        IF i = 0 THEN free_pages
        ELSE LET p == At[i - 1] IN IF p = Nil THEN Nil ELSE next[p]
  IN {At[i] : i \in PageNums} \ {Nil}

(* Pages in the hands of a thread inside alloc_page() or free_page().      *)
Handled(t) == IF pc[t] \in {"mark", "got", "free", "push", "newpool"} /\ page[t] # Nil
              THEN {page[t]} ELSE {}
Held(t) == own[t] \cup Handled(t)

(* No page is given out twice: a page is reserved, on the free list, or    *)
(* with one thread, and none of it two at a time, at every point of        *)
(* alloc_page() and free_page() and also while the lock is not held.       *)
PagesExclusive ==
  /\ \A t, u \in Threads : t # u => Held(t) \cap Held(u) = {}
  /\ \A t \in Threads : Held(t) \cap (FreeSet \cup Reserved) = {}
  /\ FreeSet \cap Reserved = {}

(* With the lock free, free_count is the length of the list, and exactly   *)
(* the pages on it are marked free (but for those about to be marked).     *)
FreeListExact ==
  freeq = None =>
    /\ free_count = Cardinality(FreeSet)
    /\ \A p \in FreeSet : flags[p] = "FREE"
    /\ \A t \in Threads : \A p \in own[t] : flags[p] = "USED"

(* The page list at every point of alloc_page() and free_page(): no page   *)
(* is given out twice, and list, flags and count agree while the lock is   *)
(* free (page.c:288-356).                                                  *)
PagesSound == PagesExclusive /\ FreeListExact
=============================================================================
