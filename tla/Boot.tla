-------------------------------- MODULE Boot --------------------------------
(***************************************************************************)
(* From the boot loader to the page database: the DOS loader boot/dos/     *)
(* load.c, or a multiboot loader; dosboot_init() and multiboot_init() of   *)
(* kern/boot.c, which lay out what is known of the boot tasks in memory    *)
(* and move top_memory; and what init_pages() then takes as in use.        *)
(*                                                                         *)
(* Memory is counted in units, PageUnits to a page.  An area is            *)
(* <<from, to>>, to not included.                                          *)
(***************************************************************************)
EXTENDS Integers, Sequences, SequencesExt

CONSTANTS
  PageUnits,
  LowEnd,                 \* 0xa0000, where video memory begins
  LoadEnd,                \* 0x90000, above which the DOS loader gives up
  KernStart, KernEnd,     \* _start (0x100000) and end
  InfoSize, TaskSize,     \* sizes of boot_info_s and boot_task_s
  DescSize, SlotSize,     \* sizes of page_desc_t and hash_slot_t
  Chunk                   \* CHUNK_SIZE of the DOS loader

ASSUME BootAssumption ==
  /\ {PageUnits, LowEnd, LoadEnd, KernStart, KernEnd, InfoSize, TaskSize,
      DescSize, SlotSize, Chunk} \subseteq Nat \ {0}
  /\ LowEnd % PageUnits = 0 /\ KernStart % PageUnits = 0
  /\ LoadEnd <= LowEnd /\ LowEnd <= KernStart /\ KernStart < KernEnd

PageRound(x) == ((x + PageUnits - 1) \div PageUnits) * PageUnits
PageOf(x) == x \div PageUnits

Apart(a, b) == a[2] <= b[1] \/ b[2] <= a[1]

-----------------------------------------------------------------------------
(* A state of the DOS loader: cur_mem, the files of the info page and the  *)
(* kernel's image; ok ends with error().                                   *)

(* read_file(): chunks up to the first short one.                          *)
ReadAll(size) ==
  LET R[at \in 0 .. size] ==
        IF size - at < Chunk THEN size ELSE R[at + Chunk]
  IN R[0]

(* Mutant: the next file starts right behind.                              *)
LoadFilePacked(l, size) ==
  IF l.cur_mem >= LoadEnd THEN [l EXCEPT !.ok = FALSE]
  ELSE [l EXCEPT !.files = Append(@, [start |-> l.cur_mem, size |-> ReadAll(size)]),
                 !.cur_mem = @ + size]

(* load_file(): at cur_mem, which moves on to the next page.               *)
LoadFile(l, size) ==
  IF l.cur_mem >= LoadEnd THEN [l EXCEPT !.ok = FALSE]
  ELSE [l EXCEPT !.files = Append(@, [start |-> l.cur_mem, size |-> ReadAll(size)]),
                 !.cur_mem = PageRound(@ + ReadAll(size))]

(* load_coff(): each section goes as far behind text as it is linked.      *)
LoadCoff(l, coff) ==
  LET data == l.cur_mem + (coff.data - coff.text)
      bss  == data + (coff.bss - coff.data)
  IN [l EXCEPT !.ok = l.cur_mem < LoadEnd /\ data < LoadEnd,
               !.kernel = [start |-> l.cur_mem, data |-> data, size |-> bss + coff.bssSize - l.cur_mem],
               !.cur_mem = PageRound(bss + coff.bssSize)]

(* main(): a spare page, the info page and a page for the descriptor       *)
(* table, then the kernel and the files.                                   *)
DosLoad(base, coff, sizes) ==
  LET start == [cur_mem |-> PageRound(base) + 3 * PageUnits, ok |-> TRUE,
                files |-> << >>, kernel |-> << >>]
  IN FoldLeft(LAMBDA l, s : IF l.ok THEN LoadFile(l, s) ELSE l, LoadCoff(start, coff), sizes)

-----------------------------------------------------------------------------
(* What boot.c leaves: boot_info and what lies with it, the images of the  *)
(* boot tasks, boot_start, boot_end and top_memory.                        *)

(* dosboot_init(): boot_info and the tasks behind the kernel, top_memory   *)
(* behind the files, wherever those are.                                   *)
DosbootInit(files) ==
  LET info == <<KernEnd, KernEnd + InfoSize>>
      n == Len(files)
  IN [tables |-> <<info, <<info[2], info[2] + n * TaskSize>>>>,
      images |-> [c \in 1 .. n |-> <<files[c].start, files[c].start + files[c].size>>],
      top |-> IF n = 0 THEN info[2] ELSE PageRound(files[n].start + files[n].size)]

(* multiboot_init(): boot_info behind the last module, then the tasks and  *)
(* their command lines.  A module is [start, end, cmd]: cmd is the length  *)
(* of its command line with the 0.                                         *)
MultibootInit(mods) ==
  LET n == Len(mods)
      at == IF n = 0 THEN KernEnd ELSE mods[n].end
      tasks == at + InfoSize
      Cmd[c \in 1 .. n + 1] ==
        IF c = 1 THEN tasks + n * TaskSize ELSE Cmd[c - 1] + mods[c - 1].cmd
  IN [tables |-> <<<<at, tasks>>, <<tasks, tasks + n * TaskSize>>>>
                   \o [c \in 1 .. n |-> <<Cmd[c], Cmd[c + 1]>>],
      images |-> [c \in 1 .. n |-> <<mods[c].start, mods[c].end>>],
      top |-> IF n = 0 THEN tasks ELSE PageRound(Cmd[n + 1])]

(* Mutant: what is reserved ends where the hash map begins.                *)
InitPagesNoHash(b, maxPages) ==
  LET db  == PageRound(b.top)
      top == db + PageRound(maxPages * DescSize)
  IN [tables |-> b.tables \o <<<<db, db + maxPages * DescSize>>, <<top, top + maxPages * SlotSize>>>>,
      images |-> b.images, top |-> top,
      reserved |-> {0, 1} \cup PageOf(LowEnd) .. PageOf(top) - 1,
      free_count |-> maxPages - 2 - (PageOf(top) - PageOf(LowEnd))]

(* init_pages(): the page database and the hash map behind top_memory, and *)
(* then reserve_region(0xa0000, top_memory), whose loop takes no page when *)
(* top_memory lies below; free_count -= e - s then makes it grow (ulong).  *)
InitPages(b, maxPages) ==
  LET db   == PageRound(b.top)
      hash == db + PageRound(maxPages * DescSize)
      HashCount[n \in Nat] == IF n >= maxPages THEN n ELSE HashCount[2 * n]
      top  == hash + PageRound(HashCount[1] * SlotSize)
      region == PageOf(LowEnd) .. PageOf(top) - 1
  IN [tables |-> b.tables \o <<<<db, db + maxPages * DescSize>>,
                               <<hash, hash + HashCount[1] * SlotSize>>>>,
      images |-> b.images,
      top |-> top,
      reserved |-> {0, 1} \cup region,
      free_count |-> maxPages - 2 - (PageOf(top) - PageOf(LowEnd))]

PagesOf(a) == PageOf(a[1]) .. PageOf(a[2] - 1)

(* What is in use, in a memory that holds it: the kernel, what boot.c      *)
(* lays out, the page database, the boot tasks' images.                    *)
InUse(p) ==
  SelectSeq(<<<<KernStart, KernEnd>>>> \o p.tables \o p.images, LAMBDA a : a[1] < a[2])

Disjoint(areas) ==
  \A i, j \in 1 .. Len(areas) : i # j => Apart(areas[i], areas[j])

(* With top_memory above the kernel, as modules above the kernel and in    *)
(* ascending order leave it, or no files, what is in use does not overlap, *)
(* none of it is free memory, and free_count counts what is free.          *)
KeptAbove(p, maxPages) ==
  /\ Disjoint(InUse(p))
  /\ \A i \in 1 .. Len(InUse(p)) : PagesOf(InUse(p)[i]) \subseteq p.reserved
  /\ p.free_count = Cardinality((0 .. maxPages - 1) \ p.reserved)

(* With files of the DOS loader top_memory is behind the last of them, in  *)
(* low memory (boot.c:127).  What is in use is then still apart if the     *)
(* page database and the hash map end below the kernel.  But, other than   *)
(* page.c:112-114 and 215-217 say, nothing of it is reserved that does not *)
(* lie from the video memory to the end of the hash map: not the kernel,   *)
(* nor boot_info, an image or the page database itself.  free_count is     *)
(* more than the number of free pages when the hash map ends below the     *)
(* video memory.                                                           *)
KeptBelow(p, maxPages) ==
  /\ p.top <= KernStart => Disjoint(InUse(p))
  /\ \A i \in 1 .. Len(InUse(p)) :
       LET a == InUse(p)[i]
       IN p.top <= a[1] \/ a[2] <= LowEnd => PagesOf(a) \cap p.reserved = {}
  /\ p.free_count = Cardinality((0 .. maxPages - 1) \ p.reserved)
                      + (IF p.top < LowEnd THEN PageOf(LowEnd) - PageOf(p.top) ELSE 0)

(* The start-up of the page allocator, whichever loader went before it.    *)
BootKept(b, maxPages) ==
  LET p == InitPages(b, maxPages)
  IN p.top <= maxPages * PageUnits =>
       IF b.top >= KernEnd THEN KeptAbove(p, maxPages) ELSE KeptBelow(p, maxPages)

(* The files the DOS loader hands over are where it read them, each on     *)
(* pages of its own, whatever their sizes and the kernel's; only the last  *)
(* may reach above what it checks; the kernel's data lies as far from its  *)
(* text as it is linked.                                                   *)
DosLoaded(base, coff, sizes) ==
  LET l == DosLoad(base, coff, sizes)
      n == Len(l.files)
  IN /\ l.ok => [c \in 1 .. n |-> l.files[c].size] = sizes
     /\ \A i, j \in 1 .. n : i < j =>
          /\ l.files[i].start + l.files[i].size <= l.files[j].start
          /\ l.files[j].start % PageUnits = 0 /\ l.files[i].start + sizes[i] <= LoadEnd
     /\ n > 0 => l.kernel.start + l.kernel.size <= l.files[1].start
=============================================================================
