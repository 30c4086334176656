-------------------------------- MODULE Ext2 --------------------------------
(***************************************************************************)
(* The ext2 file system reader dev/ext2fs.c, as functions of what is on    *)
(* the disk.  bread() is taken to succeed (module BufCache).               *)
(*                                                                         *)
(* A file is [size, has]: its length in bytes and the set of its blocks    *)
(* that exist.  A block number is Hole (0), <<"data", i>> for block i of the*)
(* file or <<"map", i, n>> for the table of its blocks i .. i + n - 1.     *)
(***************************************************************************)
EXTENDS Integers, Sequences, FiniteSets

CONSTANTS
  BlockSize,    \* bytes of a block, a power of 2
  K,            \* block_size >> 2, the entries of a table
  NDirect,      \* EXT2_NDIR_BLOCKS
  BlockSectors, \* i_blocks counts so many for a block
  MaxLsPages,   \* MAX_LS_PAGES
  Word          \* 2^32

ASSUME Ext2Assumption ==
  /\ {BlockSize, NDirect, BlockSectors, MaxLsPages, Word} \subseteq Nat \ {0} /\ K \in Nat \ {0, 1}
  /\ Word % BlockSize = 0

Hole == <<"hole">>
Stray == <<"stray">>  \* what words that are no table of the file hold

IndMax  == NDirect + K
DindMax == IndMax + K * K
MaxBlocks == DindMax + K * K * K

(* The number of the block or table for n blocks from the first.           *)
Node(f, first, n) ==
  CASE f.has \cap (first .. first + n - 1) = {} -> Hole
    [] n = 1 /\ first \in f.has -> <<"data", first>>
    [] OTHER -> <<"map", first, n>>

(* Word j of a block.  Block 0 is the boot block.                          *)
Entry(f, b, j) ==
  IF b[1] = "map" /\ j < K
  THEN Node(f, b[2] + j * (b[3] \div K), b[3] \div K) ELSE Stray

(* inode->i_block: direct blocks, then the three tables.                   *)
Direct(f, i) == Node(f, i, 1)
Ind(f)  == Node(f, NDirect, K)
Dind(f) == Node(f, IndMax, K * K)
Tind(f) == Node(f, DindMax, K * K * K)

(* inode->i_blocks: tables count as well.                                  *)
IBlocks(f) ==
  LET maps(n, first, many) ==
        {m \in 0 .. many - 1 : Node(f, first + m * n, n) # Hole}
  IN BlockSectors * (Cardinality(f.has)
       + Cardinality(maps(K, NDirect, 1 + K + K * K))
       + Cardinality(maps(K * K, IndMax, 1 + K))
       + Cardinality(maps(K * K * K, DindMax, 1)))

(* Mutant: the index within the last table is not reduced.                 *)
DindUnmasked(f, i) ==
  Entry(f, Entry(f, Dind(f), (i - IndMax) \div K), i - IndMax)

(* ext2fs_get_block(), the tables of tables: the words that are followed.  *)
DindBlock(f, i) ==
  Entry(f, Entry(f, Dind(f), (i - IndMax) \div K), (i - IndMax) % K)

(* The index into the middle table is not reduced to its size.             *)
TindBlock(f, i) ==
  LET mid == Entry(f, Tind(f), (i - DindMax) \div (K * K))
  IN Entry(f, Entry(f, mid, (i - DindMax) \div K), (i - DindMax) % K)

(* ext2fs_get_block().                                                     *)
GetBlock(f, i) ==
  CASE i >= IBlocks(f) -> Hole
    [] i < IBlocks(f) /\ i < NDirect -> Direct(f, i)
    [] i < IBlocks(f) /\ i \in NDirect .. IndMax - 1 ->
         IF Ind(f) = Hole THEN Hole ELSE Entry(f, Ind(f), i - NDirect)
    [] i < IBlocks(f) /\ i \in IndMax .. DindMax - 1 ->
         IF Dind(f) = Hole THEN Hole ELSE DindBlock(f, i)
    [] OTHER -> IF Tind(f) = Hole THEN Hole ELSE TindBlock(f, i)

(* Without holes, and as long as its size.                                  *)
Dense(f) == f.has = 0 .. ((f.size + BlockSize - 1) \div BlockSize) - 1
DenseFile(n, size) == [has |-> 0 .. n - 1, size |-> size]

(* A file without holes: every block up to the first K * K of the triple   *)
(* tables is found, none behind them is (ext2fs.c:442), and past the end   *)
(* there is nothing, unless the end is where a new table of a double or    *)
(* triple table would begin: the missing table is then read as block 0,    *)
(* and ls and "rpg", which stop at block number 0, go on into it.          *)
BlocksFound(n) ==
  LET f == DenseFile(n, n * BlockSize) IN
  /\ \A i \in 0 .. n - 1 :
       GetBlock(f, i) = IF i < DindMax + K * K THEN <<"data", i>> ELSE Stray
  /\ LET newTable == n > IndMax /\ n # DindMax /\ (n - IndMax) % K = 0
     IN n < DindMax + K * K => GetBlock(f, n) = IF newTable THEN Stray ELSE Hole

-----------------------------------------------------------------------------
(* The value of a difference as int.                                       *)
AsInt(x) == LET w == x % Word IN IF w >= Word \div 2 THEN w - Word ELSE w

Bytes(b, from, n) == [j \in 1 .. n |-> <<b, from + j - 1>>]

Returns(bytes) == [ret |-> Len(bytes), bytes |-> bytes]
Failed(ret) == [ret |-> ret, bytes |-> << >>]

Least(x, y) == IF x < y THEN x ELSE y

(* The whole blocks of ext2fs_read() and the rest behind them: bytes so    *)
(* far, first block, bytes still wanted.                                   *)
ReadOn(f, sofar, block, cb) ==
  LET bcnt  == cb \div BlockSize
      res   == cb % BlockSize
      whole == [j \in 1 .. bcnt |-> GetBlock(f, block + j - 1)]
      last  == GetBlock(f, block + bcnt)
      mid   == [j \in 1 .. bcnt * BlockSize |->
                  <<whole[((j - 1) \div BlockSize) + 1], (j - 1) % BlockSize>>]
  IN CASE \E j \in 1 .. bcnt : whole[j] = Hole -> Failed(-1)
       [] OTHER -> IF res = 0 THEN Returns(sofar \o mid)
                   ELSE IF last = Hole THEN Failed(0)
                   ELSE Returns(sofar \o mid \o Bytes(last, 0, res))

FirstPart(res, cb) == Least(BlockSize - res, cb)

(* ext2fs_read(): from the middle of a block to its end first.             *)
Read(f, pos, count) ==
  LET cb == IF (pos + count) % Word > f.size THEN AsInt(f.size - pos) ELSE AsInt(count)
      block == pos \div BlockSize
      res   == pos % BlockSize
      left  == FirstPart(res, cb)
      first == GetBlock(f, block)
  IN CASE cb <= 0 -> Failed(0)
       [] cb > 0 /\ res = 0 -> ReadOn(f, << >>, block, cb)
       [] cb > 0 /\ res > 0 /\ first = Hole -> Failed(0)
       [] OTHER -> LET part == Bytes(first, res, left)
                   IN IF cb - left <= 0 THEN Returns(part)
                      ELSE ReadOn(f, part, block + 1, cb - left)

(* The bytes of a file, in order.                                          *)
Content(f) ==
  [j \in 1 .. f.size |-> <<<<"data", (j - 1) \div BlockSize>>, (j - 1) % BlockSize>>]

(* Block i is in a table that a double or triple table lacks.              *)
TableMissing(f, i) ==
  /\ i >= IndMax
  /\ Node(f, IndMax + ((i - IndMax) \div K) * K, K) = Hole

(* Any position and count, those that wrap included: what is returned is   *)
(* the file's own bytes, from that position on, and of a file without      *)
(* holes all that were asked for and exist.  Where a whole table is        *)
(* missing, the code reads block 0 in its place (ext2fs.c:386).            *)
ReadRight(f, pos, count) ==
  LET r == Read(f, pos, count)
      n == IF pos >= f.size THEN 0 ELSE Least(count, f.size - pos)
  IN /\ r.ret <= n
     /\ \A j \in 1 .. r.ret :
          \/ r.bytes[j] = Content(f)[pos + j]
          \/ TableMissing(f, (pos + j - 1) \div BlockSize)
     /\ Dense(f) /\ n > 0 => r.ret = n

(* get: the console reads a file to the end, so many bytes at a time.      *)
GetReads(f, bufsz) ==
  LET At[n \in 0 .. f.size + 1] ==
        IF n = 0 THEN [pos |-> 0, over |-> FALSE]
        ELSE LET g == At[n - 1]
                 r == Read(f, g.pos, bufsz)
             IN IF g.over \/ r.ret <= 0 THEN [g EXCEPT !.over = TRUE]
                ELSE [g EXCEPT !.pos = @ + r.ret]
  IN At[f.size + 1]

(* get reads the whole of a file without holes, whatever block size the    *)
(* buffer meets.                                                           *)
GetRight(f, bufsz) == Dense(f) => GetReads(f, bufsz) = [pos |-> f.size, over |-> TRUE]

(* ext2fs_readpage(): the blocks of a page, up to the first missing one.   *)
ReadPage(f, page, perPage) ==
  LET blks == [j \in 1 .. perPage |-> GetBlock(f, page * perPage + j - 1)]
      Stop == {j \in 1 .. perPage : blks[j] = Hole}
  IN SubSeq(blks, 1, IF Stop = {} THEN perPage ELSE (CHOOSE j \in Stop : \A i \in Stop : j <= i) - 1)

-----------------------------------------------------------------------------
(* A superblock is [first, blocks, bpg, ipg]: s_first_data_block,          *)
(* s_blocks_count, blocks and inodes of a group; perBlock inodes and       *)
(* descPer group descriptors fit into a block.  A group descriptor is      *)
(* [bb, ib, table]: its bitmaps and the first block of its inode table.    *)

GroupsCount(sb) == (sb.blocks - sb.first + sb.bpg - 1) \div sb.bpg

(* ext2fs_get_group_desc(): the block and the place in it.                 *)
DescAt(sb, no, descPer) == <<no \div descPer + sb.first + 1, no % descPer>>

(* Mutant: nothing is said of where the table ends.                        *)
TableInGroupStart(sb, gd, c, itb) ==
  LET block == sb.first + c * sb.bpg IN gd.table >= block /\ gd.table < block + sb.bpg

TableInGroup(sb, gd, c, itb) ==
  LET block == sb.first + c * sb.bpg
  IN gd.table >= block /\ gd.table + itb < block + sb.bpg

(* ext2fs_check_desc() of group c.                                         *)
CheckDesc(sb, gd, c, perBlock) ==
  LET block == sb.first + c * sb.bpg
  IN /\ {gd.bb, gd.ib} \subseteq block .. block + sb.bpg - 1
     /\ TableInGroup(sb, gd, c, sb.ipg \div perBlock)

(* ext2fs_mount(): the descriptors of all groups are sane.                 *)
Mounts(sb, gds, perBlock) ==
  \A c \in 0 .. GroupsCount(sb) - 1 : CheckDesc(sb, gds[c], c, perBlock)

(* ext2fs_get_inode(): the block and the place in it.                      *)
InodeAt(sb, gds, ino, perBlock) ==
  LET g == (ino - 1) \div sb.ipg
      i == (ino - 1) % sb.ipg
  IN <<gds[g].table + i \div perBlock, i % perBlock>>

(* On a mounted file system, whatever its descriptors said, an inode is    *)
(* read from a block of its own group, even when the inodes of a group do  *)
(* not fill their last block; no two inodes from the same place, unless    *)
(* two groups share a block; and the descriptors from the blocks behind    *)
(* the superblock, in order.                                               *)
InodesFound(sb, gds, perBlock, descPer) ==
  Mounts(sb, gds, perBlock) =>
    LET groups == 0 .. GroupsCount(sb) - 1
        Inos == 1 .. GroupsCount(sb) * sb.ipg
        at == [ino \in Inos |-> InodeAt(sb, gds, ino, perBlock)]
        group(ino) == (ino - 1) \div sb.ipg
        flat(g) == LET d == DescAt(sb, g, descPer) IN (d[1] - sb.first - 1) * descPer + d[2]
    IN /\ \A ino \in Inos :
            LET start == sb.first + group(ino) * sb.bpg
            IN at[ino][1] \in start .. start + sb.bpg - 1
       /\ \A x, y \in Inos : at[x] = at[y] => x = y
       /\ \A g \in groups : flat(g) = g

-----------------------------------------------------------------------------
(* A directory is a sequence of blocks, each a sequence of entries         *)
(* [inode, len]: len is the room ext2fs_ls() needs for the entry in its    *)
(* pages.  The records of a block fill it.                                 *)
(*                                                                         *)
(* Between two calls: the pages ls has already, ls_pages[], and how many   *)
(* entries each is said to hold, ls_page_count[].                          *)
LsFresh == [have |-> 0, count |-> [c \in 0 .. MaxLsPages - 1 |-> 0]]

(* A call with so many free pages in the system: nr_pages, the page and    *)
(* how much of it is in use, what was put where; stop ends a block, quit   *)
(* the call.                                                               *)
LsStart(s, free) ==
  LET first == IF s.have = 0 THEN 1 ELSE 0 IN
  [have |-> s.have + Least(first, free), free |-> free - Least(first, free),
   count |-> s.count, nr |-> 1, no |-> 0, fsz |-> 0, out |-> << >>,
   stop |-> FALSE, quit |-> first > free]

LsPut(l, e, at) ==
  [l EXCEPT !.fsz = at + e.len, !.count[l.no] = @ + 1,
            !.out = Append(@, [inode |-> e.inode, no |-> l.no, at |-> at, len |-> e.len])]

(* ext2fs_ls(), an entry: it goes behind the one before, or to a new page; *)
(* there may be no room in the arrays, or no page.                         *)
LsEntry(l, e, pageSize) ==
  LET more == [l EXCEPT !.nr = @ + 1]
      next == [more EXCEPT !.no = @ + 1]
  IN CASE l.fsz + e.len < pageSize -> LsPut(l, e, l.fsz)
       [] l.fsz + e.len >= pageSize /\ more.nr >= MaxLsPages ->
            [more EXCEPT !.fsz = @ + e.len, !.stop = TRUE]
       [] l.fsz + e.len >= pageSize /\ more.nr < MaxLsPages /\ next.no < l.have ->
            LsPut(next, e, 0)
       [] OTHER -> IF l.free = 0 THEN [more EXCEPT !.quit = TRUE]
                   ELSE LsPut([next EXCEPT !.have = @ + 1, !.free = @ - 1], e, 0)

(* The entries of a block up to one whose inode is 0.                      *)
LsBlock(l, entries, pageSize) ==
  LET Next[n \in 0 .. Len(entries)] ==
        IF n = 0 THEN [l EXCEPT !.stop = FALSE]
        ELSE LET x == Next[n - 1]
             IN IF x.stop \/ x.quit \/ entries[n].inode = 0 THEN [x EXCEPT !.stop = TRUE]
                ELSE LsEntry(x, entries[n], pageSize)
  IN Next[Len(entries)]

Ls(s, dir, free, pageSize) ==
  LET Next[n \in 0 .. Len(dir)] ==
        IF n = 0 THEN LsStart(s, free) ELSE LsBlock(Next[n - 1], dir[n], pageSize)
  IN Next[Len(dir)]

(* Mutant: the counts of the last call are never cleared.                  *)
LsLeavesCounts(l) == [have |-> l.have, count |-> l.count]

(* What a call leaves to the next: it returns at once when there is no     *)
(* page, and then clears no count.                                         *)
LsLeaves(l) == [have |-> l.have, count |-> IF l.quit THEN l.count ELSE LsFresh.count]

(* The entries a block shows: those before the first that was deleted from *)
(* the beginning of a block.                                               *)
Shown(entries) ==
  LET gone == {i \in 1 .. Len(entries) : entries[i].inode = 0}
  IN SelectSeq([i \in 1 .. Len(entries) |->
                  IF \E j \in gone : j <= i THEN 0 ELSE entries[i].inode],
               LAMBDA ino : ino # 0)

(* A call of ls puts the entries of all blocks, in order, into its pages:  *)
(* all of them, unless the arrays are too short or there is no page left,  *)
(* and else the first ones.  No two descriptors overlap, none crosses the  *)
(* end of a page, and each lies where the loops that print them, which add *)
(* up the lengths from the start of each page, look for it.                *)
LsPacked(l, dir, pageSize) ==
  LET All[n \in 0 .. Len(dir)] == IF n = 0 THEN << >> ELSE All[n - 1] \o Shown(dir[n])
      all == All[Len(dir)]
  IN /\ Len(l.out) <= Len(all) /\ \A i \in 1 .. Len(l.out) : l.out[i].inode = all[i]
     /\ l.nr < MaxLsPages /\ ~l.quit => Len(l.out) = Len(all)
     /\ l.nr >= MaxLsPages => Len(l.out) < Len(all)
     /\ \A i \in 1 .. Len(l.out) :
          /\ l.out[i].at + l.out[i].len <= pageSize
          /\ IF i > 1 /\ l.out[i - 1].no = l.out[i].no
             THEN l.out[i].at = l.out[i - 1].at + l.out[i - 1].len
             ELSE l.out[i].at = 0

(* What the loops that print read: nr_pages pages, and of each as many     *)
(* entries as are counted.  It is what was put there, and no more: but     *)
(* after a call that found no page, whose counts are still there           *)
(* (ext2fs.c:760-763), and for a directory with blocks left when the       *)
(* arrays are full: nr_pages grows with each of them, and the loops run    *)
(* past the arrays (ext2fs.c:751-755, 796-837).                            *)
LsPrinted(l) ==
  \A c \in 0 .. MaxLsPages - 1 :
    l.count[c] = Cardinality({i \in 1 .. Len(l.out) : l.out[i].no = c})

(* One call of ls after the other, each [dir, free].                       *)
LsRight(calls, pageSize) ==
  LET At[n \in 0 .. Len(calls)] ==
        IF n = 0 THEN LsFresh
        ELSE LsLeaves(Ls(At[n - 1], calls[n].dir, calls[n].free, pageSize))
      call == [n \in 1 .. Len(calls) |-> Ls(At[n - 1], calls[n].dir, calls[n].free, pageSize)]
  IN \A n \in 1 .. Len(calls) :
       /\ LsPacked(call[n], calls[n].dir, pageSize)
       /\ ~call[n].quit /\ (\A m \in 1 .. n - 1 : ~call[m].quit) /\ call[n].nr <= MaxLsPages
             => LsPrinted(call[n])
=============================================================================
