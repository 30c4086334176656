# TINOS in TLA+

TINOS is a small kernel for one x86 processor (about 12000 lines of C under
`src/src/kernel`): preemptive threads, semaphores, message ports, a page and
chunk allocator, demand-zero address spaces, an IDE driver with a buffer cache
and an ext2 reader, and a system console. This directory holds models of its
parts in TLA+, the TLC configurations that check them on small instances, and
machine-checked proofs about them. Paths below are relative to
`src/src/kernel` unless they say otherwise.

## Inventory: the system and what makes it hard

| component | state | operations | interacts with |
|---|---|---|---|
| threads (`kern/thread.c`) | tcb state, all-threads ring, ready ring, `ready_count` | create, sleep, wake, die, delete | scheduler reads the ready ring; semaphores and `get_key` sleep and wake; the console changes any thread |
| semaphores (`kern/sema.c`) | `count`, `wait_q` | `sema_p`, `sema_v` | used as locks by the allocators and IDE, as events by IDE, ports and timeouts |
| scheduler, clock (`kern/sched.c`) | `cur_thread`, usage, priority, quantum, `in_clock`, `sched_timer`, `sched_preempt`, timeout queue | `schedule`, `clock`, aging, timeouts | clock interrupts any code that runs with interrupts on |
| message ports (`kern/msg.c`) | queue, free list, `recv`, a lock per message | `m_send`, `m_receive`, `do_send` | client and server threads, interrupt handlers |
| keyboard (`pc/kb.c`) | ring of scan codes, `kb_waiter`, modifiers | `kb_isr`, `get_key`, `kb_getch` | interrupt handler and console thread |
| system console (`kern/syscon.c`) | line buffer, `argv`, `cur_inode` | line editing, parsing, some fifty commands | everything; it is the only user interface |
| chunk pools (`kern/pool.c`) | pool lists, hints, chunk free lists | `alloc_pool`, `free_pool` | takes pages from and gives pages to `vm/page.c` |
| pages (`vm/page.c`) | free list, reserved cache, global hash | `alloc_page`, `free_page`, `reclaim_region`, `cache_page` | everything that allocates; page faults |
| address spaces (`vm/vas.c`) | regions of a space | `region_create`, `region_commit`, `vas_pagefault` | page fault handler, caches, page tables |
| page tables (`i386/hat.c`) | directories and tables | map, insert, enter | faults; `context_switch` |
| processes (`kern/proc.c`), boot images (`i386/exec.c`) | address space, thread and stack of a process | `create_bootproc`, attach, detach | boot modules, pages, thread creation |
| IDE (`pc/ide.c`) | one request, `ide_lock`, `ide_busy`, drives found | `ide_init`, `ide_io`, `ide_interrupt` | the thread that asks and the handler |
| buffer cache (`dev/buf.c`) | hash, free list, buffers | `getblk`, `bread`, `brelse`, set-up at a mount | block devices, ext2 |
| block devices (`dev/blk.c`) | table of partitions | scan, read | IDE |
| ext2 reader (`dev/ext2fs.c`) | `fs_meta`, `mounted`, pages of `ls` | mount, read, list | buffer cache, console |
| hash table (`dev/hash.c`) | chains | insert, remove, look up | (variant of the buffer cache) |
| interrupts (`i386/idt.c`, `kern/irq.c`, `pc/pic.c`) | gates, handlers, mask registers | register, enable | every driver |
| display (`pc/cons.c`) | screen memory, cursor | put character, scroll, clear | console, `printf` |
| start-up (`kern/main.c`, `kern/boot.c`, `src/src/boot/dos`) | `boot_info` | take over modules, lay out memory | pages, processes |
| C functions (`c/`, `src/src/libc`) | `rand` state, `strtok` pointer | numbers, strings, sorting, random streams | everything; user programs |

What is hard to test in it:

- **Interleaving.** A thread can be preempted at any instruction outside a
  `splhi()` section; interrupt handlers run on the stack of whatever they
  interrupt; `clock()` itself runs with interrupts on and may be switched away
  in its middle.
- **Windows.** `sema_p()` goes to sleep in one section and calls `schedule()`
  after it; `get_key()` looks before it registers; `do_send()` signals before
  it sleeps.
- **Intrusive lists.** The ready ring, the wait queues, the port queue and the
  page and chunk lists are threaded through the objects, are written without a
  look at their state, and leave stale pointers behind.
- **Liveness.** Priorities fall with usage and recover by aging; locks are
  handed over in order; everything waits for interrupts.
- **Boundaries.** Counters that wrap, a ring that overflows, a free list that
  runs out, a list whose third element nobody reaches, the last block of a
  table of tables, the first page of a region.
- **Sequences of commands.** The console takes addresses and numbers as they
  are typed: threads are slept, deleted and relisted, file systems mounted and
  read in orders nobody tried.

`PROJECT.json` lists each hazard at its line with the properties that watch it.

## Modules

State machines:

| module | models | abstract specification |
|---|---|---|
| `Threads` | ready ring, semaphores and the choice of the next thread, `thread.c`, `sema.c`, the loop of `schedule()` | `FifoLocks`: first-come first-served locks |
| `Sched` (extends `Threads`) | `clock()`, `schedule()` with priorities, aging and quanta | `Threads` itself |
| `Port` | `msg.c` | `Mailbox`: a bounded first-in first-out mailbox with acknowledgement |
| `Keyboard` | the ring of `kb_isr()` and `get_key()` | `Typeahead`: a bounded queue that empties on overflow |
| `Console` (extends `Keyboard`) | modifier keys, translation, the line editor of `syscon()` | |
| `Life` | both rings of `thread.c` under the console's commands on threads | |
| `Session` | who has which page when file systems are mounted, read and listed | |
| `Pages` | the free page list of `page.c` | |
| `Pools` (extends `Pages`) | `pool.c` | |
| `Vm` | `create_bootproc()`, `region_create()`, `region_commit()`, page tables, page faults, the reserved cache | |
| `Ide` | `ide_io()`, `ide_interrupt()` and the request between them, `pc/ide.c` | |
| `BufCache` (extends `Ide`) | `dev/buf.c`, and one block of `devblk_read()` | `LruCache`: a least-recently-used cache |

Pure algorithms, each a set of operators with a reference definition beside it:

| module | models |
|---|---|
| `Ext2` | block mapping, reading, descriptors, inodes, listing of `dev/ext2fs.c` |
| `Partitions`, `HashTab` | the scan of `dev/blk.c`; `dev/hash.c` |
| `Boot`, `Args` | what the loaders hand over and `init_pages()` reserves; command lines and the arguments of a process |
| `Numbers`, `Strings`, `Sorting`, `RandomGen` | `vsprintf` numbers and strings, `strtol` and `strtoul` of kernel and library, `div`; string functions; `qsort`, `bsearch`; `random` |
| `Devices` | interrupt gates, mask registers and handlers, drives found at start-up, the screen |

`ThreadsProofs`, `SchedProofs`, `PortProofs`, `ConsoleProofs`, `PoolsProofs`,
`DiskProofs` and `VmProofs` hold the theorems about the state machines and
`Ext2`, and `Chains` the lemmas about linked lists that they share. `MC*` modules instantiate
all of these for TLC. The operators whose comment begins with "Mutant" are
faulty variants of the operator below them: putting one in its place makes the
named property fail (`PROJECT.json`, "mutants"), which shows that the property
depends on the code it is about. They are used by no specification.

### Threads

A step is one `splhi()` section. The ready queue is modelled pointer by pointer
(`next_ready`, `prev_ready`) because `link()` and `unlink()` write through the
neighbours of a tcb without a look at the list; the head is the idle thread.
`Scanned` is what the loop of `schedule()` visits; when the loop would never
come back to the head the model sets `spinning`. `at[t] = "p_sched"` marks the
window of `sema_p()` between `splx()` and `schedule()`, in which the clock may
switch the sleeping thread away or a `sema_v()` may wake it. The wait queue of a
semaphore is a sequence. Which semaphores a thread's code may call `sema_p` on
is the constant `Uses`; the order in which locks nest is `Nest`; semaphores set
to 0 and posted by interrupt handlers are `Events`. `schedule()` may choose any
thread of the ring but the head (the head if alone), which `Sched` refines.

### Sched

Adds `cnt`, `cur_prio`, `quantum` and the variables of `clock()`. Since
`schedule()` may switch away inside `clock()`, a thread's stack may hold frames
of clock handlers: `clk` counts them, `body` says that the current thread's
newest frame has not reached its call of `schedule()` yet. `sched_preempt` is
kept modulo `PreemptMod` so that its wrap-around is seen. Thread steps are
enabled when the thread has no such frame, interrupts aside.

The console command `prio` gives any thread a base priority and as much usage.
`Given` is what users may type, `granted` what they gave and has not aged away
(up to `MaxGranted`), so that the bound on usage can be stated. The command's
two writes are one step; a tick between them does one more computation of
`cur_prio` with the old base priority. A tcb is given by its address, which the
model takes to be that of a thread in use. The properties about numbers are
about users who type none below 0 (`NoNegativePrio`): `thread_sleep()` copies
the base priority to `cur_prio` without the floor (`kern/thread.c:145`), and
`schedule()`, which begins with `c = -1`, passes a ready thread with a negative
one over until the next aging. Numbers near 2^31, with which `cnt` would
overflow, are not modelled.

### Port

One action per `splhi()` section, semaphore call, or access that an interrupt
may come between. `Port` keeps `tail` as the code does, that is, stale after a
message is received, and `next` as a function on messages; the refinement to
`Mailbox` follows `next` from `head`. A client's message slot is never given a
time to live by the code, and a client that finds no slot drops its message.
`do_send()` of an interrupt message is modelled although its one caller
(`pc/kb.c:196`) is compiled out.

### Keyboard, Console

`Keyboard` is the ring, its two pointers and `kb_waiter`, with get_key() split
where a key may come in. `Console` adds what the codes mean. A key is a letter,
Enter or Backspace; Shift and Caps Lock change state in the handler, while the
translation happens when the console takes the code out of the ring. `meant`
remembers what each key meant when it was pressed (with an overflow of the ring
applied to it), and `stale` that a modifier changed while keys waited: the code
then gives the keys another meaning than they had, which is why `CommandsAsTyped`
excepts that case. The line buffer of 256 characters has no bound in the code:
the character that goes behind it, or the 0 that ends a line as long as the
buffer (`kern/syscon.c:1102`, `1086`), is written over the stack of `syscon()`.
The action `Overrun` takes the place of that write, and nothing follows it. What
is shown of lines is therefore about `syscon()` up to there, and about what it
takes to get there.

### Life

The console's commands `sample`, `wait`, `run`, `tdel`, `tready` and
`tready_del` on any thread. The all-threads ring and the ready ring have one
head, `ready_threads`; `remove_ready()` moves it to the next of *all* threads.
No routine checks that the thread is where it takes it to be: a blocked thread
that is deleted, the head that is put to sleep or taken off while the next
thread sleeps, a thread relisted twice. Such a command ends `clean`; the model
shows that every session without one keeps both rings whole. The console is
`cur_thread` in all of this; what `thread_die()` does after the rings is not
part of it.

### Session

Mounting takes a page for the superblock and pages for the buffers, and gives
them back when something fails. `holds` says which device's superblock a page
contains, also after it was freed, since nobody clears pages and
`ext2fs_mount()` looks at no return value: not that of `devblk_read()`, and not
that of `buf_init()`. The first may mount a device by the superblock of another.
After the second (`whole` is then false) the mount goes on. If no mount got its
buffers before, `free_list` is null and it waits for a buffer for ever
(`came = "hung"`, other threads running on). Otherwise the descriptors are read
through heads that lie where an earlier mount had its own, in pages that are
somebody else's by now or were taken again: the check may pass, so that a file
system without buffers of its own is mounted, or fail, so that the pages it did
get go back, or come to anything (`"wild"`). A file system so mounted is used on
by `read` and the others, which may come to that at any time. What memory looks
like after `"wild"` is left open; `MountsSound` says what holds up to there, and
that it takes an earlier mount that did get its buffers. `read`, `rpg`
and `get` do not ask whether anything is mounted: before a mount they fault,
after a failed one they go by a superblock in a page that is free or somebody
else's. `ls` asks. A file system that is mounted stays mounted: no command
calls `ext2fs_umount()`.

### Pages, Pools

`freeq_lock` and `s_lock` are locks whose holder is a variable: `Threads` shows
that the semaphores behave so, and the order of the waiters does not matter to
these properties. Between taking and giving back a lock there are separate
steps wherever the code can block or another thread could see a difference. The
first page after the reserved ones is taken at start-up and never freed, as the
pool of `reserved_cache` is in `init_pages()`; this matters because
`free_page()` would turn that page number down (`vm/page.c:333`).
A pool's descriptor and chunk links live in the page itself; when the page is
given up they are reset in the model, where the code leaves them to the page's
next user.

When a pool cannot get its page, `alloc_pool()` goes on with a null pool; the
model records that and stops.

### Vm

Addresses and memory are counted in pages; a directory and a table have `NPTE`
slots. The modules are those of a multiboot loader: the DOS loader's are not
reserved (see `Boot` below), so that nothing of this section could be said of
them. Every call of `alloc_page()` is a step of its own, because it may put its
caller to sleep: the loader (`create_bootproc()`, run by the idle thread) and
the page faults of the processes it has already started interleave there. A
page is `Junk` until somebody clears it, so that a page table that is not
cleared would show as translations. Chains of the reserved cache are kept
pointer by pointer: a page of a boot image is entered once by `init_pages()`
and again when it is used anew, which leaves it pointing to itself in its hash
chain, and `cache -l` of an address that is not cached would then not end.

What the model shows of the code beside its properties: `region_create()`
compares a region that comes first with the last one of the ring; data that
begin in the last page of the text get no region, and `region_commit()` is
handed a null pointer (the endless loop `hung`); `boot_info` lies in the last
page of the last module and is freed with it while the loop that reads
`boot_count` goes on; a module that is not an ELF executable of two program
headers is passed over and its pages stay reserved; the pages of a dead process
are never given back.

### Ide, BufCache

Interrupt handlers other than the clock's run with interrupts off, so that
`ide_interrupt()` is one step. The record `request` is the code's `struct
ide_request`; its buffer pointer is the caller (`buf`) and how far it has come
(`at`). A sector's data is its number, so that a sector in the wrong place
shows. The drive is external: it carries out a command block by block, and may
report an error instead of any block; `ide_ready()` may give up at any call.
The geometry has two heads or more.

`BufCache` keeps the hash chains and the free list pointer by pointer. After
`buf_init()` the free list is a chain whose head knows the tail, and the first
buffer that leaves it closes the ring; the pointers of buffers that are not on
it are null. `LruCache` is what is left when the pointers are gone: its `order`
is read off the free list by a walk from its head.

`buf_init()` sets the device, the block, the data and the free links of each
head, and leaves the flags and the hash links as the page holds them;
`alloc_page()` clears nothing, and between two mounts other threads may have had
the page. So both at the first mount and at a remount (one that found bad group
descriptors, then another, through `buf_destroy()`) the heads begin with what
any page of `HeadPages` has there: a page of zeroes, one with the chains of an
earlier mount, one of other data. `Wild` is a link that leaves the cache. The
flags do no harm: a buffer that is taken over for another block loses them. The
links may: `buf_remove_hash()` writes through them when the head is first taken
over. `tidy` says that they were in order, each the inverse of the other and
going round nowhere, as those of zeroes and of an earlier mount are. Then the
chains are right ever after. Else the free list and the data still are, but a
chain may lose a buffer, or a look-up not end or leave the cache; the action
`Astray` ends the behaviour there, since what the console does next depends on
memory the model has not got. A mount whose `buf_init()` got too few pages is
`Session`'s.

A head whose device and block are 0 names block 0 of device 0, the first
partition, for having been set up only. If that block is asked for, as it is for
a table that is missing (`dev/ext2fs.c:385`), `buf_getblk()` takes the head as
it is, on no chain and with its old flags (`dev/buf.c:296-297`): `bread()` may
return zeroes for it, or read it into a buffer nobody will find again. The
instance mounts device 0 and asks for block 0; `HashExact`, `DataFresh` and
`LruCache` (`Loose`) name this block as their exception.

`ext2fs_ls()` returns without its `brelse()` when it finds no page
(`LsReturns`); a failed `bread()` keeps its buffer too (`lost`). Data is read by
the console thread only (`ide_test()`, `ide_read()`, and the ext2 commands,
which hold two buffers at most and never the same block twice), so that the
cache needs no lock and the driver has one caller.

### The pure modules

They have no state of their own: `MCData` enumerates inputs, one a state, and
the invariants compare what the code computes with what it should compute, or
with what it does compute where that is known to differ: the reference
definitions name the exception. The exceptions are:

- `Ext2`: the middle index of a triple-indirect block is not masked, so that
  blocks beyond the first `K * K` of it are not found; a second-level table that
  is missing is read as block 0; `i_blocks` bounds block numbers although it
  counts sectors, which cuts off sparse files; a deleted first entry of a
  directory block hides the rest of that block. `ls` has room for
  `MAX_LS_PAGES` pages: a longer directory is listed up to there, but `nr_pages`
  goes on counting with each further block, and with more than one of them the
  loops that print run past `ls_pages[]` and `ls_page_count[]`
  (`dev/ext2fs.c:751-755`, `796-837`). When there is no page, `ls` returns with
  its counts as they are (`dev/ext2fs.c:760-763`), and every later call counts
  on from them and prints what is not there.
- `Partitions`: a gap in a partition table leads to an entry nobody wrote; the
  count of devices starts again with every disk; the base of an extended
  partition is kept from the first.
- `Boot`: with files of the DOS loader `top_memory` is in low memory, behind the
  last of them (`kern/boot.c:127`), and `reserve_region(0xa0000, top_memory)`
  has nothing, or only the end of its own tables, to reserve: not the kernel,
  nor `boot_info`, nor the images, nor the page database below 0xa0000. All of
  that is on the free list, although `vm/page.c:112-114` and `215-217` say that
  kernel and images are reserved, and `free_count` is too large by the pages
  between. `BootKept` says so; what it promises in that case is only that what
  is in use does not overlap, if the page database ends below the kernel.
  Without modules `boot_count` is never set; the loader's last file may lie
  above the 640 KB that are there.
- `Numbers`: `strtol()` of the kernel takes a second sign behind the first;
  `div()` has the wrong sign for a positive number and a negative divisor.
- `Strings`: `strcmp()` of the kernel tells equal from different only, and its
  `strncpy()` does not pad.
- `RandomGen`: `setstate()` with the array in use goes back to where it was put
  away last.
- `Devices`: clearing the last line on a scroll writes one cell behind the
  screen; a drive that refuses to identify itself leaves interrupts off; the
  handler of the coprocessor's exception, 16, is at vector 15.

The vsprintf and ctype of `src/src/libc` are copies of the kernel's.

## Runs

| run | instance | shows |
|---|---|---|
| `threads` | 4 threads, 2 nested locks, 1 event, `SYMMETRY` over the 2 user threads | ring, queues, blocked threads, exclusion, FIFO refinement |
| `threads_boot` | as above, with the idle thread using the locks | violation: the idle thread can be unlinked |
| `sched` | 3 threads, 1 lock, 1 event, clock frames up to 2, aging every 3 ticks, a thread's priority set to 0 or 2 by command | clock guard, types and usage bound, quantum, refinement of `Threads` |
| `sched_live` | 3 threads, 2 of equal base priority on one lock, aging every 5 ticks, quantum 2 | no ready thread starves; every waiter gets the lock |
| `port` | 3 clients, 2 slots, 2 servers, 1 interrupt message | mailbox refinement, slots, replies reach their senders |
| `keyboard_lost` | ring of 4, 2 keys | violation: a key is buffered and the console sleeps |
| `console` | ring of 2, line of 2, 4 keys typed; 5 threads, 7 commands; 4 devices, 4 pages | lines run as typed, waiter, queue refinement; rings agree; no mount loses a page |
| `pools` | 2 threads, 1 master, 2 chunks per page, whole pages too, 3 pages | chunks and pages exclusive; lists of three pools; hint; no page lost |
| `pools_search` | third pool of a list given up | violation: the search does not move |
| `vm` | 4 modules, 31 pages, 8 slots in a table | frames, regions, translations, cache |
| `disk` | 4 buffers, 4 blocks of 4 sectors on two chains, block 0 of device 0 and 1 past the disk's end among them, heads in pages of two contents, raw requests of no sectors | least-recently-used refinement, free ring, chains, data, completion |
| `data` | one input a state, about 215000 of them | the pure modules |

Bounds: `MaxPost`, `MaxRef`, `MaxFrames` and `MaxOwn` cap the count of an event, of
interrupts merged into one message, of clock frames on one stack and of whole
pages a thread keeps;
`AgePeriod`, `Quanta`, `Prio` and `PreemptMod` are scaled down from 100, 5, 50
and 2^32 so that aging, refills, the priority floor and the wrap-around all
happen within few ticks. Three to four threads are enough for a thread to sleep
between two others in the ring and for two waiters on one lock; two slots for
three clients make the port's free list run out while a stale tail is reused.
In `disk`, as many blocks as buffers, with one buffer lost to a failed read or a
listing and the pages of the heads chaining buffers in advance, make buffers
change hands in the middle of a chain; `MaxHold` is what a reader holds at a
time and `MaxLost` caps the buffers lost (the kernel has 128 buffers, so that
the free list never runs empty within these bounds, nor does the model's). Of
the two pages in `HeadPages` one has links in order, left by an earlier mount,
and the other a cycle, links that disagree and one that leaves the cache. A
cylinder has 6 sectors and an interrupt moves up to 2, so that block 1, of 4
sectors across the end of the first cylinder, takes two commands. A raw request
goes the same way through the driver as a block's, so that the instance has
only the one that a block's never is, for no sectors; the proofs are about any
(`Requests`). In `sched`, `MaxGranted` bounds what the command `prio` has given and
aging not yet taken away. In `data`, `ls` is called twice in a row on directories of up to three
blocks, with three pages for `MAX_LS_PAGES` and none to two free; the memory of
`Boot` is as large as needed for the page database and the hash map to end
below the video memory, below the kernel, and above its start. `pools` has one master: several
masters share nothing but the page list, which the threads' whole pages use
beside it. In `console`, `MaxTyped` keys are as many as the ring and the line
hold together, and `MaxCommands` lets three threads be made, one removed from between
two others and relisted; three parts that share no state are checked in one run,
a behaviour being of one of them. `vm` has just enough pages for the processes
to run out of them at the end, so that every failing allocation happens too. The
inputs of `data` are chosen around the boundaries: words of a few bits for
numbers, tables of two or three entries so that the triple-indirect level is
reached, pages of a few bytes.

Deadlock checking is off only where the system may really stop: when all
clients have sent their messages (`port`), after a fault, an endless loop or an
overrun (`threads_boot`, `pools*`, `console`, `vm`), when a session is over
(`console`), after a drive error or a look-up that went astray (`disk`); `data` has nothing but initial
states.

### Fairness

`FairSSpec` assumes that ticks keep coming, that a clock handler that can run
does, and that a thread that gets the processor again and again gets on with
`sema_p()` (strong fairness, because the clock may take the processor away
between any two steps). `ReleasingSSpec` adds that critical sections end.
`Port!FairSpec` assumes that a thread that can run eventually does, which is
what `NoStarvation` shows of the scheduler. `FairBSpec` assumes in addition
that the drive answers a command, with data or with an error. Nothing is assumed
of other interrupts.

`NoStarvation` depends on the proportion of threads and quanta to the aging
period: a thread's usage must be able to fall below the others' within a
period. With many more computing threads than `AgePeriod / Quanta` the last
threads of the ring are chosen rarely, since ties are broken in ring order. The
run's proportion (2 threads, quantum 2, period 5) is on the safe side, as is
the kernel's own (quantum 5, period 100) for up to a few tens of threads. And it
is about threads of equal base priority (`Given = {}`): a user who makes one
thread better than the others by more than its usage can lower it (the command
`prio`) may starve them.

## What is proved

The theorems hold for every value of the constants that satisfies the named
assumptions of the modules. Each rests on an inductive invariant that TLC
checked first on the instance of the run.

| module | proves | inductive invariant |
|---|---|---|
| `ThreadsProofs` | the invariants of `threads`, `ImplementsFifoLocks` | `RingInv`, `SemaInv`, `LockInv` |
| `SchedProofs` | `ImplementsThreads`, `ClockNotLost`, `QuantumLeft`, `SchedSound` | `RingInv /\ Usable`, `ClockInv`, `UsageInv` |
| `PortProofs` | `SlotsSound`, `NoEmptyTake`, `ImplementsMailbox` | `Inv` |
| `ConsoleProofs` | `WaiterAsleep`, `ImplementsTypeahead`, `CommandsAsTyped`; that `Console` implements `Keyboard` | `KeyInv`, `EditInv` |
| `ConsoleProofs` | `RingsAgree` of `Life`, `MountsSound` of `Session`: what the console's commands work on | `LifeInv`, `FilesInv` |
| `PoolsProofs` | `PagesSound`, `PoolsSound`, `ChunksSound`, `HintLinked` | `PoolInv` |
| `DiskProofs` | `ReadsSound`, `BuffersSound`, `DataFresh`, `ImplementsLru` | `IoInv`, `BufInv` |
| `DiskProofs` | `BlocksFound`, `ReadRight`, `GetRight`, `InodesFound` of `Ext2`, for all inputs | none: no state |
| `VmProofs` | `FramesAccounted`, `RegionsDisjoint`, `Translated`, `CacheSound`, `MappingsStay` | `VmInv` |
| `Chains` | lemmas about lists, chains and rings | |

**Threads.** From `ThreadsAssumption` and `IdleNeverWaits`, the condition that
`threads_boot` shows to be needed. `RingInv`: types, the idle thread is
ready, the pointers of ready threads are mutually inverse, the threads
reachable from the head along `next_ready` are all ready threads, the scheduler
does not spin, and a blocked thread runs nothing. Mutual inverses alone would
allow two separate rings; that there is one is stated without recursion, as:
every set that contains the head and is closed under `next_ready` contains all
ready threads (`Connected`). `SemaInv` builds on it: the sleeping threads are
the queued ones, each once; a negative count is the length of the queue; and a
lock's count is 1 exactly if it is free (`LockInv`), from which exclusion and
the refinement follow, a wake-up being a hand-over.

**Sched.** Also under `IdleNeverWaits`. The refinement of `Threads` needs only
that priorities stay at or above the floor and usages are not negative
(`Usable`): then the loop of `schedule()` finds some thread of the ring better
than the head, if there is one, and the choice is one that `Threads` allows.
`ClockInv` says who has set `in_clock`: a tick before its call of `schedule()`
has, and its frame is on the current stack. The bound on usage is about a sum
over all threads; `UsageInv` states it of the sum, and that what aging leaves
out (the idle thread and free tcbs) adds nothing. The theorems hold for whatever
numbers users type after `prio`, none below 0 (`NoNegativePrio`).

**Port.** `Inv` says in its parts what the queue and the free list are
(`Lists`), who has each slot (`Slotted`) and each message taken (`Served`), what
`qref` counts (`Counted`), how a message's lock and its sender go through a call
(`Replied`), and that `recv` counts the messages announced and not yet taken
(`Announced`), from which it follows that no server finds the queue empty. Only
in `Announced` do the steps of different threads meet. The sets of clients,
servers and messages are assumed finite, as the fixed tables of threads and of
messages are (`PortAssumption`).

**Keyboard and console.** The ring's contents are the keys from its read
pointer to its write pointer, modulo its size. `EditInv` splits the typed keys
into those the line editor has had, the one in its hand and those in the ring,
and says of the line that it equals what the first part amounts to. It ends with
the overrun, and says that as many characters as the line has room for precede
it.

**Commands on threads.** `LifeInv` states of each ring that its links, forwards
and backwards, are inverse to each other over one set of threads, and that no
smaller set with a thread in it is closed under them (`IsCycle`). Said this way
the ring has no first thread, so that it does not matter where `thread_new()`
and `thread_die()` cut it; `WalkCloses` of `Chains` then yields the walk from
the head that the property is about. The tcbs are finite in number
(`LifeAssumption`), as the array `thread_pool` is.

**Sessions.** `FilesInv` names the four owners a page can have: the free list,
the pages of a mount, those of an open directory or file, and the pages that
unmounting never gives back. They are disjoint, together they are all pages, and
each has as many as the code's own counts say, whatever part of its pages
`buf_init()` got. They hold until a command goes through memory that is not its
own. The pages are finite in number (`SessionAssumption`).

**Pages and pools.** `PoolInv` names, for each list, the set of elements that
it must hold (the pages nobody has, the pools of a master, the chunks nobody
has), and says that the list is a chain over exactly that set; the lemmas of
`Chains` move an element on or off. The chains hold at every step, not only
while the locks are free, because each section of the code that changes a list
is one step, and what a thread knows in between (`Calls`, `Searches`) is
protected by the lock it holds. Masters are finite in number
(`PoolsAssumption`), as their table is.

**Disk.** `IoInv` follows the console's request through `ide_io()`: the buffer
is filled as far as the request has come, the drive is as far as the request,
and a command's cylinder, head and sector name the request's sector for any
geometry. `BufInv` says that the free list is a ring over the buffers nobody has
(or, before the first buffer has left it, a chain whose head knows the tail),
that each slot's hash chain holds exactly the buffers of that slot, that two
buffers never stand for one block, and what the buffers of failed reads are. The
part about the hash chains is under `tidy`, the rest is not: the free list and
the data are right with heads in a page of any content. The chains need one
thing more than the property: the heads' stale links are followed by
`buf_remove_hash()`, and the links of all buffers together go round nowhere
(`Linked`), so that taking a buffer from among stale neighbours does no harm to
the chains that are in use. Block 0 of device 0 (`Odd`) is outside the chains'
claims throughout, not assumed away.
These theorems assume `Threads = {Console}`, as the kernel has it: only the
thread of the console reads the disk. The assumption is needed: the cache has no
lock, and `sema_p(&ide_busy)` does not say whose completion it waits for, so
that a second caller that gets `ide_lock` between the end of a request and the
first caller's wait could leave with the first one's completion.

**Address spaces.** `VmInv` has a part for each piece of state that the
properties relate. `FrameInv`: each page is in the free list, once, or has one
owner; the owners are named by place (a directory, a slot of a directory, a
slot of a table, a page in the hand of a fault or of the loader, a stack), so
that a page cannot be put to two uses without two places of one page. A table
therefore belongs to one slot of one directory, and one `hat_insert()` changes
one translation of one process (`HatInv`, and `MappingsStay`). `StageInv` and
`LoaderInv` follow `create_bootproc()` through a module: what of the image has
been read in, what is mapped so far, and that nothing behind the address it is
at has been. `UserInv` says the same of page faults, which other processes take
in between: the page a fault is about is inside the region it was found in and
still absent when the fault comes back from `alloc_page()`. `RegionInv`: a list
of regions is in order and apart, which `region_create()` keeps although it
looks at two neighbours only. `ListInv` and `HashInv` are about the reserved
cache: entering a page of a boot image a second time cuts its list short behind
that page, but a list that ends at the tail remains, and what is in use and
cached finds itself in its hash chain. The proof assumes of the machine what the
loader provides (`VmAssumption`, `ImagesAssumption`): the modules lie behind the
kernel in pages of their own, a module that is recognized has text and data of
at least a page in order below the video page; and that start-up itself does
not run out of pages (`MemoryAssumption`). Trying to prove `LoaderInv` corrected
the model: where data begin inside the text, `region_commit()` of the data ends
with the data and not with the text, which the instance of the run had not
reached.

**Ext2.** The parts of `MCData`'s `Ext2Reads` and `Ext2Finds` that are about
blocks, bytes and inodes, which the run evaluates on blocks of 8 bytes and
tables of 2 entries, are theorems for every input: of any block size, any table
of more than one entry (`Ext2Assumption`), any length of a file and any set of
blocks it has. `FileBlocksFound` goes through the four ways
`ext2fs_get_block()` takes to a block. It has to show that `i_blocks`, a count
of sectors, never cuts off a file without holes: it counts the tables too, so
that it is more than the last block's number (`IBlocksCount`). `FileBytesRead`
follows `ext2fs_read()` through the part of a first block, the whole blocks and
the rest. It and `WholeFileGot` have two hypotheses. A file's blocks must be
found at all (`Askable`: it ends before `Reach`, where the unmasked index of the
triple table starts to miss, `dev/ext2fs.c:442`), and position and count must
not be negative as `int` (`IntRange`: below 2^31); with positions above, the
property is checked in the run only. `WholeFileGot` is about a loop of any number of reads:
each starts where the last one ended and moves on, so that after as many reads
as the file has bytes, and one, the end is reached and noticed. `InodesApart`
takes any superblock and any descriptors that `ext2fs_mount()` lets pass; that
the groups do not overlap is what makes two inodes' places differ.

**Chains.** The modules read a list off its links with recursive functions. The
lemmas say what such a function yields if the links form a list, a chain over a
set, or a ring: it exists, visits every element once, and stops. They are
proved from the least element of a set of natural numbers, since the library's
induction rules take an operator as a parameter and cannot be instantiated here.

The `CASE` expressions of `Console` and `Ext2` have guards that exclude each
other, so that what they mean does not depend on a choice among several; in the
code they are chains of `else if`.

Only model-checked:

- liveness (`NoStarvation`, `WaitersServed`, `ClientsReturn`, `ReadsReturn`) and
  whatever speaks of `ENABLED`, which the provers cannot handle;
- the invariants of `MCData`: the module reaches `RECURSIVE` operators, which
  take the provers' arithmetic away. Of what they compare, the blocks, bytes and
  inodes of `Ext2` are proved (above); its listing of directories,
  and the other pure modules, are evaluated on bounded inputs only.

`ReadsReturn` is stated for requests that fit one command. A request of several
may hang: when the allowance of an interrupt is used up exactly with a command,
the handler leaves and waits for an interrupt no command will raise
(`pc/ide.c:396`).

## Findings

Runs that are expected to fail record where the code disagrees with its own
comments: the idle thread can be put to sleep during start-up
(`threads_boot`); a key can be buffered without waking the console
(`keyboard_lost`); the search loop of `free_pool()` does not advance
(`pools_search`). `PROJECT.json` quotes the lines. Others have no run of
their own:

- `sched_preempt--` wraps below 0, so that from the second tick on every tick
  calls `schedule()` though no handler asked (`kern/sched.c:284`, part of the
  behaviours of `sched`; no property forbids it).
- `alloc_pool()` dereferences a null pool when memory is out
  (`kern/pool.c:139`, a state `pools` reaches).
- `thread_sleep()` takes a base priority over without the floor
  (`kern/thread.c:145`); a negative one hides a ready thread from `schedule()`.
- A failed `buf_init()` is not noticed by `ext2fs_mount()`
  (`dev/ext2fs.c:221`, part of `console`).
- `buf_init()` leaves flags and hash links of the heads as their page holds
  them (`dev/buf.c:80-89`), and block 0 of device 0 is taken for read
  (`dev/buf.c:296`); both are part of `disk`.
- `ls` runs past its arrays on long directories, and counts wrongly after it
  ran out of memory (`dev/ext2fs.c:751-763`, part of `data`).
- After a DOS boot with files nothing in use is reserved (`kern/boot.c:127`
  against `vm/page.c:112-114` and `215-217`, part of `data`).

## Not modelled

- Timeouts (`kern/sched.c:337-467`): `set_timeout()` initializes the semaphore
  of a slot through the pointer `s_tmout`, which nothing sets, and faults before
  an entry reaches the queue. There is no behaviour to model behind it.
- The end of `thread_die()`, which frees the tcb it runs on.
- `vas_destroy`, `hat_remove`, `hat_chmod`, `hat_copy`, `hat_destroy`,
  `m_deq`, `hash_free` (whose loop does not end): no live caller.
- `exec_read()` and `exec_user()`, which the console command `exec` tries out.
- The server and client commands as such: `Port` begins with a port that
  exists. Both test the shared port pointer without a lock.
- Console commands that change state and are tests of a part rather than a use
  of it. `pgfree` and `pfree` (which nothing tells from an honest caller except
  that the address is what was typed: `Pages` and `Pools` model callers that
  give back what they have), `pinit` (which forgets the pools a master has) and
  `palloc`; `memlock` and `pgalloc`, which take pages and keep or return them as
  the threads of `Pages` do; `stupid` (a thread that resets the floppy drive);
  `hat` and `hat_test` (a mapping in the kernel's tables, a directory that
  stays), `vas -a` and `rg` (a space and regions without a process, committed
  and switched to), `cache -a` and `cache -i` (a page entered in a cache by
  address); `refmem` (writes to any address); `timeout` (see above); `trap`.
  Any of them, with an address or a size of the user's choice, can break what
  `Pages`, `Pools`, `Vm` and `Life` promise; what these show is about sessions
  without them. `ide` and `dev` search for drives and partitions anew: what they
  find is in `Devices` and `Partitions`, but not that they may run while a file
  system is mounted. `ideio` and `ider` are `Ide`'s `Requests`. `cd` sets
  `cur_inode`, which the models take as any inode.
- Of the commands that are modelled, arguments that are not what the command
  asks for: an address that is not a tcb's (`Life`, `Sched`), numbers that
  overflow.
- System calls: the dispatch of a handful of calls with no state of their own.
- Descriptor tables, task state, trap entry, `start.S`, `migrate.c`: processor
  set-up below the level of these models.
- The floppy driver (not linked into a request path), PIT, NVRAM, PCI, reboot
  and fonts (port access without shared state), the floppy boot sector
  (assembly).
- `strtod` and `strtold` (floating point), dumps and everything that prints.

## Plan

1. `Threads`, `Sched`, `Port`, `Keyboard`, `Pages`, `Pools`, `Ide`, `BufCache`:
   done, with the proofs about `Threads`.
2. Address spaces, console, commands on threads and file systems, the pure
   algorithms: done.
3. Proofs about `Sched`, `Port`, `Console`, `Pools` and `BufCache` with the
   modules they extend: done.
4. Proofs about the rings of `Life`, the pages of `Session`, and `Vm`: done.
