------------------------------ MODULE Session ------------------------------
(***************************************************************************)
(* Sessions of the console with the ext2 file system: mount, ls and the    *)
(* commands that read files, in any order, on devices that are there or    *)
(* not and hold a file system or not, while other threads take and give    *)
(* back pages.  What is modelled is who has which page (dev/ext2fs.c,      *)
(* dev/buf.c) and which device's superblock the file system goes by; what  *)
(* is read is in modules Ext2 and BufCache.                                *)
(***************************************************************************)
EXTENDS Naturals, Sequences, FiniteSets, SequencesExt

CONSTANTS
  Pages,       \* pages that are free before the first mount
  DevNos,      \* numbers a user may type
  Holds,       \* what a device that exists holds: "ext2", "corrupt" (a
               \* superblock whose descriptors are wrong) or "other"
  BufPages,    \* pages for the data of the buffers
  NoPage, Junk

ASSUME SessionAssumption ==
  /\ DOMAIN Holds \subseteq DevNos /\ \A d \in DOMAIN Holds : Holds[d] \in {"ext2", "corrupt", "other"}
  /\ IsFiniteSet(Pages) /\ BufPages \in Nat \ {0} /\ NoPage \notin Pages /\ Junk \notin DevNos

VARIABLES
  free_pages, others,     \* the list of alloc_page(), pages other threads have
  holds,                  \* a page: the device whose superblock it holds
  mounted, dev, sb,       \* mounted, fs_meta
  unread,                 \* the last mount did not get its superblock
  buffers, buf_pages,     \* the page of the buffer heads, those of the data
  listed,                 \* free_list is not null
  whole,                  \* the last buf_init() got all its pages
  ls_page,                \* the page ls keeps
  came                    \* "fine", or what a command came to

fs    == <<mounted, dev, sb, unread>>
bufs  == <<buffers, buf_pages, listed, whole>>
svars == <<free_pages, others, holds, fs, bufs, ls_page, came>>

SInit ==
  /\ free_pages = SetToSeq(Pages) /\ others = {}
  /\ holds = [p \in Pages |-> Junk]
  /\ mounted = FALSE /\ dev = 0 /\ sb = NoPage /\ unread = FALSE
  /\ buffers = NoPage /\ buf_pages = << >> /\ listed = FALSE /\ whole = TRUE
  /\ ls_page = NoPage /\ came = "fine"

Magic(c) == c # Junk /\ Holds[c] # "other"

(* buf_init(): as many of its pages as there are, the heads' first.        *)
BufInit(free) == SubSeq(free, 1, IF Len(free) <= BufPages THEN Len(free) ELSE BufPages + 1)

HeadsOf(taken) == IF taken = << >> THEN << >> ELSE <<Head(taken)>>
DataOf(taken) == SubSeq(taken, 2, Len(taken))

(* Mutant: the page of the heads is forgotten.                             *)
UmountKeepsHeads(p, taken, rest) == <<p>> \o Reverse(DataOf(taken)) \o rest

(* buf_destroy() and ext2fs_umount(): the pages of the data, that of the   *)
(* heads and that of the superblock go back, the last one first.  What     *)
(* buf_init() did not get is null, and free_page() leaves that alone.      *)
Umount(p, taken, rest) == <<p>> \o HeadsOf(taken) \o Reverse(DataOf(taken)) \o rest

(* ext2fs_mount() from the superblock on, which is in page p.  That        *)
(* buf_init() found too few pages is not looked at.  Without a list of an  *)
(* earlier mount buf_getblk() then waits for a buffer for ever; with one,  *)
(* the descriptors are read through heads that lie where that mount had    *)
(* its own: in pages that are somebody else's, or were taken again, and    *)
(* then the check may turn out either way.                                 *)
SetUp(d, p, content) ==
  LET taken == BufInit(Tail(free_pages))
      rest  == SubSeq(free_pages, Len(taken) + 2, Len(free_pages))
      keep  == /\ free_pages' = rest /\ buf_pages' = DataOf(taken)
               /\ buffers' = IF taken = << >> THEN buffers ELSE Head(taken)
  IN /\ sb' = p
     /\ whole' = (Len(taken) = BufPages + 1)
     /\ listed' = (listed \/ whole')
     /\ holds' = [q \in Pages |-> IF q = p THEN content ELSE IF q \in ToSet(taken) THEN Junk ELSE holds[q]]
     /\ \/ /\ IF whole' THEN d \in DOMAIN Holds /\ (content = d => Holds[d] = "ext2") ELSE listed
           /\ mounted' = TRUE /\ keep
           /\ UNCHANGED came
        \/ /\ listed'
           /\ free_pages' = Umount(p, taken, rest)
           /\ buffers' = NoPage /\ buf_pages' = << >>
           /\ UNCHANGED <<mounted, came>>
        \/ /\ ~whole'
           /\ came' = IF listed THEN "wild" ELSE "hung"
           /\ keep
           /\ UNCHANGED mounted

(* Mutant: a second mount is not refused.                                  *)
MountTwice(d) ==
  /\ came = "fine" /\ free_pages # << >>
  /\ \E got \in IF d \in DOMAIN Holds THEN BOOLEAN ELSE {FALSE} :
       LET p == Head(free_pages)
           content == IF got THEN d ELSE holds[p]
       IN /\ dev' = d /\ unread' = ~got
          /\ IF Magic(content) THEN SetUp(d, p, content)
             ELSE /\ holds' = [holds EXCEPT ![p] = content]
                  /\ sb' = NoPage /\ mounted' = FALSE
                  /\ UNCHANGED <<free_pages, bufs, came>>
  /\ UNCHANGED <<others, ls_page>>

(* ext2fs_mount().  Whether the superblock was read is not looked at: a    *)
(* page that held one before, and nobody cleared, will do.                 *)
Mount(d) ==
  /\ came = "fine" /\ ~mounted /\ free_pages # << >>
  /\ \E got \in IF d \in DOMAIN Holds THEN BOOLEAN ELSE {FALSE} :
       LET p == Head(free_pages)
           content == IF got THEN d ELSE holds[p]
       IN /\ dev' = d /\ unread' = ~got
          /\ IF Magic(content) THEN SetUp(d, p, content)
             ELSE /\ holds' = [holds EXCEPT ![p] = content]
                  /\ sb' = NoPage /\ mounted' = FALSE
                  /\ UNCHANGED <<free_pages, bufs, came>>
  /\ UNCHANGED <<others, ls_page>>

(* read, rpg and get do not ask whether anything is mounted: without a     *)
(* superblock they fault, after a mount that failed they go by one in a    *)
(* page that is somebody else's by now, and write into buffers that are.   *)
(* After a mount that did not get its buffers, these and ls may come to    *)
(* the pages of an earlier one.                                            *)
Read ==
  /\ came = "fine"
  /\ came' \in CASE mounted /\ whole -> {"fine"}
                 [] mounted /\ ~whole -> {"fine", "wild"}
                 [] OTHER -> {IF sb = NoPage THEN "fault" ELSE "wild"}
  /\ UNCHANGED <<free_pages, others, holds, fs, bufs, ls_page>>

(* ls does, and takes a page for good the first time.                      *)
Ls ==
  /\ came = "fine" /\ mounted /\ ls_page = NoPage /\ free_pages # << >>
  /\ ls_page' = Head(free_pages) /\ free_pages' = Tail(free_pages)
  /\ holds' = [holds EXCEPT ![Head(free_pages)] = Junk]
  /\ UNCHANGED <<others, fs, bufs, came>>

(* Other threads, which run on when the console waits for ever.            *)
Orderly == came \in {"fine", "hung"}

OtherTakes ==
  /\ Orderly /\ free_pages # << >>
  /\ others' = others \cup {Head(free_pages)}
  /\ free_pages' = Tail(free_pages)
  /\ holds' = [holds EXCEPT ![Head(free_pages)] = Junk]
  /\ UNCHANGED <<fs, bufs, ls_page, came>>

OtherGives ==
  /\ Orderly
  /\ \E p \in others :
       others' = others \ {p} /\ free_pages' = <<p>> \o free_pages
  /\ UNCHANGED <<holds, fs, bufs, ls_page, came>>

SNext == (\E d \in DevNos : Mount(d)) \/ Read \/ Ls \/ OtherTakes \/ OtherGives

SSpec == SInit /\ [][SNext]_svars
-----------------------------------------------------------------------------
(* As long as no command went through memory that is not its own, no page  *)
(* is lost and none is given back that is used: every page is free,        *)
(* another thread's, ls's or that of the file system that is mounted or    *)
(* waits for a buffer, and only one of these; so a mount that came to      *)
(* nothing has given back all it took, however much that was.  And a       *)
(* mounted file system goes by a superblock in a page of its own, that of  *)
(* its own device unless that could not be read.  A file system that got   *)
(* its buffers keeps to them; that one is mounted that did not, which the  *)
(* code accepts, takes an earlier mount that did.                          *)
MountsSound ==
  LET held == mounted \/ came = "hung"
      one  == {p \in {ls_page, buffers} : p # NoPage} \cup {p \in {sb} : held}
      uses == <<ToSet(free_pages), others, one, ToSet(buf_pages)>>
  IN /\ Orderly =>
          /\ UNION ToSet(uses) = Pages
          /\ Len(free_pages) + Cardinality(others) + Len(buf_pages) + (IF ls_page = NoPage THEN 0 ELSE 1)
               + (IF buffers = NoPage THEN 0 ELSE 1) + (IF held THEN 1 ELSE 0) = Cardinality(Pages)
          /\ mounted => (holds[sb] = dev \/ unread) /\ Magic(holds[sb])
     /\ mounted => IF whole THEN came = "fine" ELSE listed
=============================================================================
