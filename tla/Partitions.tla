----------------------------- MODULE Partitions -----------------------------
(***************************************************************************)
(* The search for partitions of dev/blk.c: devblk_init() and the recursive *)
(* devblk_scan().                                                          *)
(*                                                                         *)
(* A disk is [size, at]: at maps a sector that holds a partition table to  *)
(* its four entries [type, start, len], Unused ones included.              *)
(***************************************************************************)
EXTENDS Naturals, Sequences, SequencesExt

Unused   == [type |-> "null", start |-> 0, len |-> 0]
Garbage  == [type |-> "garbage", start |-> 0, len |-> 0]   \* never written

Extended(e) == e.type = "extended"

(* devblk_get_partition_table(): an unused entry leaves its place in part  *)
(* unwritten; the caller looks at the first places, as many as are used.   *)
PartTable(disk, sector) ==
  LET tab == disk.at[sector]
      count == Len(SelectSeq(tab, LAMBDA e : e # Unused))
  IN [c \in 1 .. count |-> IF tab[c] = Unused THEN Garbage ELSE tab[c]]

(* Mutant: a partition of an extended one starts from the disk's sector 0. *)
AddRelative(found, disk, sector, e) ==
  IF e.start > disk.size \/ e.start + e.len > disk.size THEN found
  ELSE Append(found, [type |-> e.type, start |-> e.start, end |-> e.start + e.len])

(* A partition is entered unless it looks larger than the disk.            *)
AddPartition(found, disk, sector, e) ==
  IF e.start > disk.size \/ e.start + e.len > disk.size THEN found
  ELSE Append(found, [type |-> e.type, start |-> e.start + sector,
                      end |-> e.start + sector + e.len])

(* devblk_scan(): s is the static base and the table of devices.  The      *)
(* first extended partition ever met sets base.                            *)
RECURSIVE Scan(_, _, _)
Scan(s, disk, sector) ==
  FoldLeft(LAMBDA x, e :
             CASE Extended(e) /\ x.base = 0 ->
                    Scan([x EXCEPT !.base = e.start], disk, sector + e.start)
               [] Extended(e) /\ x.base # 0 -> Scan(x, disk, e.start + x.base)
               [] OTHER -> [x EXCEPT !.found = AddPartition(@, disk, sector, e)],
           s, PartTable(disk, sector))

(* devblk_init(), the hard disks in order: each starts the table anew.     *)
DevblkInit(disks) ==
  FoldLeft(LAMBDA s, disk : Scan([s EXCEPT !.found = << >>], disk, 0),
           [base |-> 0, found |-> << >>], disks)

-----------------------------------------------------------------------------
(* The partitions of a disk, as their tables mean them: an entry is        *)
(* relative to its own table, the link to the next table of the chain to   *)
(* the first.                                                              *)
RECURSIVE Meant(_, _, _)
Meant(disk, sector, base) ==
  LET Of(e) == IF e = Unused THEN {}
               ELSE IF Extended(e) THEN Meant(disk, base + e.start, IF base = 0 THEN e.start ELSE base)
               ELSE {[type |-> e.type, start |-> sector + e.start, end |-> sector + e.start + e.len]}
  IN UNION {Of(e) : e \in ToSet(disk.at[sector])}

HasExtended(disk) == \E e \in ToSet(disk.at[0]) : Extended(e)
NoGaps(disk) ==
  \A s \in DOMAIN disk.at : \A i \in 1 .. 3 :
    disk.at[s][i] = Unused => disk.at[s][i + 1] = Unused

(* What is found is the partitions of the last hard disk, each at its      *)
(* absolute place and once, as long as no table has a gap and no other     *)
(* disk before it has an extended partition, whose base stays (blk.c:146); *)
(* of the disks before the last nothing is left (blk.c:92).                *)
PartitionsFound(disks) ==
  LET last == disks[Len(disks)]
      got == DevblkInit(disks).found
  IN (NoGaps(last) /\ \A i \in 1 .. Len(disks) - 1 : NoGaps(disks[i]) /\ ~HasExtended(disks[i]))
       => /\ ToSet(got) = Meant(last, 0, 0)
          /\ Len(got) = Cardinality(Meant(last, 0, 0))
=============================================================================
