------------------------------- MODULE MCData -------------------------------
(* The computations of kernel and library that have no steps of their own, *)
(* each compared with what it should compute: a behaviour is one input,    *)
(* arg, and does nothing.  Every input is <<part, ...>>, and a property    *)
(* speaks of its own parts.                                                *)
EXTENDS Ext2, Partitions, HashTab, Boot, Args, Numbers, Sorting, Strings,
        RandomGen, Devices, TLC

VARIABLE arg

Part(name) == arg[1] = name
SeqsTo(n, S) == UNION {[1 .. k -> S] : k \in 0 .. n}

(* --- Ext2: a file system with blocks of 8 bytes, two entries to a table. *)
FileSizes == {0, 1, 7, 8, 9, 15, 16, 33, 48, 63, 64, 80, 93, 96}
Files == {DenseFile((s + BlockSize - 1) \div BlockSize, s) : s \in FileSizes}
           \cup [has : SUBSET (0 .. 6), size : {49, 56}]
Positions == {0, 1, 7, 8, 9, 15, 16, 17, 24, 40, 47, 48, 49, 63, 64, 80, 95, 600, 1023}

Supers == [first : {0, 1}, blocks : {9, 12, 13}, bpg : {4, 6, 8}, ipg : {2, 3, 4}]
Descs(sb, tables) ==
  [c \in 0 .. 3 |-> LET start == sb.first + c * sb.bpg
                    IN [bb |-> start, ib |-> start + 1, table |-> start + tables[c + 1]]]
DirEntries == {[inode |-> 0, len |-> 3], [inode |-> 5, len |-> 3], [inode |-> 6, len |-> 5]}
Dirs == SeqsTo(3, UNION {[1 .. n -> DirEntries] : n \in 1 .. 2})
AgainDirs == SeqsTo(2, {<<[inode |-> 7, len |-> 5]>>})

Ext2Args ==
  \/ \E n \in 0 .. MaxBlocks : arg = <<"blocks", n>>
  \/ \E f \in Files, p \in Positions, c \in {0, 1, 7, 9, 17, 24} : arg = <<"read", f, p, c>>
  \/ \E f \in Files, b \in {3, 4, 8, 16} : arg = <<"get", f, b>>
  \/ \E sb \in Supers, t \in [1 .. 4 -> 1 .. 4] :
       arg = <<"inodes", sb, Descs(sb, t), 2>>
  \/ \E sb \in Supers, t \in [1 .. 4 -> 2 .. 3] :
       arg = <<"inodes", sb, Descs(sb, t), 3>>
  \/ \E d \in Dirs, e \in AgainDirs, free \in 0 .. 2, more \in 0 .. 1 :
       arg = <<"ls", <<[dir |-> d, free |-> free], [dir |-> e, free |-> more]>>>>

(* Whatever the position and the count, ext2fs_read() and the commands     *)
(* that call it return the file's own bytes, and find its blocks through   *)
(* the direct, indirect and double indirect tables (ext2fs.c:315-637).     *)
Ext2Reads ==
  /\ Part("blocks") => BlocksFound(arg[2])
  /\ Part("read") => ReadRight(arg[2], arg[3], arg[4])
  /\ Part("get") => GetRight(arg[2], arg[3])

(* A mounted file system's inodes are apart and in their groups, and ls    *)
(* lists a directory in pages that its printing loops read back, unless    *)
(* the directory has more pages than its arrays or an earlier call has run *)
(* out of memory (ext2fs.c:84-296, 695-841).                               *)
Ext2Finds ==
  /\ Part("inodes") => InodesFound(arg[2], arg[3], arg[4], 2)
  /\ Part("ls") => LsRight(arg[2], 8)

(* --- Partitions: two disks at most; HashTab: four buckets.               *)
Entries == {Unused, [type |-> "linux", start |-> 1, len |-> 2],
            [type |-> "dos", start |-> 3, len |-> 4]}
Link(at) == [type |-> "extended", start |-> at, len |-> 1]
Primary(t, e, i) == [j \in 1 .. 4 |-> IF j = i THEN e ELSE IF j <= 2 THEN t[j] ELSE Unused]
Logical(e, next) == <<e, IF next = 0 THEN Unused ELSE Link(next), Unused, Unused>>

TwoEntries == {t \in [1 .. 2 -> Entries] : t[1] # t[2] \/ t[1] = Unused}
Disks ==
  {[size |-> 20, at |-> (0 :> Primary(t, Unused, 4))] : t \in TwoEntries}
  \cup {[size |-> 20,
         at |-> (0 :> Primary(t, Link(8), i)) @@ (8 :> Logical(e, 5)) @@ (13 :> Logical(f, 0))] :
         t \in TwoEntries, i \in 2 .. 3, e \in Entries, f \in Entries}

HashOps == ({"insert"} \X {1, 2, 5} \X {"x", "y"}) \cup ({"remove"} \X {1, 2, 5})

TableArgs ==
  \/ \E d \in Disks : arg = <<"disks", <<d>>>>
  \/ \E d \in Disks, e \in Disks :
       DOMAIN d.at = {0} /\ arg = <<"disks", <<d, e>>>>
  \/ \E ops \in SeqsTo(4, HashOps) : arg = <<"hash", ops>>

(* The partitions of a disk are found at their absolute places             *)
(* (blk.c:77-191), and the hash table of dev/hash.c is a stack for each    *)
(* key.                                                                    *)
TablesRight ==
  /\ Part("disks") => PartitionsFound(arg[2])
  /\ Part("hash") => HashIsStacks(arg[2], {1, 2, 5})

(* --- Boot: pages of 4 units.  Args: lines of spaces, slashes and letters.*)
RECURSIVE Modules(_, _)
Modules(specs, at) ==
  IF specs = << >> THEN << >>
  ELSE LET s == Head(specs)
           from == at + s.gap
       IN <<[start |-> from, end |-> from + s.len, cmd |-> s.cmd]>>
            \o Modules(Tail(specs), from + s.len)

BootArgs ==
  \/ \E mods \in SeqsTo(3, [gap : {0, 2, 3}, len : {1, 5}, cmd : {1, 3}]), pages \in {92, 100, 128} :
       arg = <<"multiboot", Modules(mods, 104), pages>>
  \/ \E base \in {0, 3, 5}, d \in 1 .. 5, gap \in {0, 3, 6}, bss \in 0 .. 2,
        sizes \in SeqsTo(3, {0, 1, 4, 5, 11}), pages \in {28, 64} :
       arg = <<"dos", base, [text |-> 2, data |-> 2 + d, bss |-> 2 + d + gap, bssSize |-> bss], sizes, pages>>
  \/ \E s \in SeqsTo(7, {" ", "/", "a"}) : arg = <<"line", s>>

(* What the boot loader leaves in memory stays apart, and what multiboot   *)
(* leaves is not given out as free memory; with files of the DOS loader    *)
(* nothing of it is kept, as boot.c:127 makes it (boot.c, load.c, page.c). *)
(* A boot task finds the words of its command line, the console those of   *)
(* what is typed (proc.c, syscon.c).                                       *)
BootLaidOut ==
  /\ Part("multiboot") => BootKept(MultibootInit(arg[2]), arg[3])
  /\ Part("dos") => /\ DosLoaded(arg[2], arg[3], arg[4])
                    /\ BootKept(DosbootInit(DosLoad(arg[2], arg[3], arg[4]).files), arg[5])
  /\ Part("line") => ParseRight(arg[2]) /\ ArgsRight(arg[2])

(* --- The library: words of 32 values for printing, arrays of nine.       *)
Convs == {<<"d", f>> : f \in SUBSET {"ZEROPAD", "LEFT", "PLUS", "SPACE"}}
           \cup {<<"u", f>> : f \in SUBSET {"ZEROPAD", "LEFT"}}
           \cup ({"o", "x"} \X SUBSET {"ZEROPAD", "LEFT", "SPECIAL"})
           \cup {<<"p", f>> : f \in SUBSET {"LEFT"}}
Texts == SeqsTo(4, {0, 1, 8, 12, X, Space, Minus, Plus})
Start0 == [mem |-> [a \in 1 .. 3 |-> [i \in 0 .. 1 |-> 1]], cur |-> 1, type |-> 0,
           f |-> 0, r |-> 0, out |-> 0]
Streams == Initstate(Initstate(Initstate(Start0, 1, 3, 9), 5, 2, 35), 11, 1, 70)
MCDegrees == <<0, 4, 5>>
MCSeps    == <<0, 3, 1>>
MCBreaks  == <<8, 32, 64>>

LibraryArgs ==
  \/ \E c \in Convs, width \in {-1, 0, 3, 6}, prec \in {-1, 2, 4}, word \in 0 .. W - 1 :
       arg = <<"print", c, width, prec, word>>
  \/ \E s \in Texts, base \in {0, 10, 16} : arg = <<"number", s, base>>
  \/ \E n \in -9 .. 9, d \in {-4, -3, -1, 1, 2, 4} : arg = <<"div", n, d>>
  \/ \E s \in SeqsTo(6, 1 .. 4) \cup [1 .. 9 -> {1, 3}] \cup [1 .. 7 -> {1, 2, 4}] : arg = <<"sort", s>>
  \/ \E s \in SeqsTo(5, {32, 44, 65}), d \in {{}, {32}, {32, 44}} : arg = <<"tokens", s, d>>
  \/ \E s \in SeqsTo(3, {65, 66, 97}), t \in SeqsTo(3, {65, 66, 97}), n \in 0 .. 4 :
       arg = <<"strings", s, t, n>>
  \/ \E ops \in SeqsTo(5, 0 .. 3) : arg = <<"random", ops>>

(* vsprintf() and strtol(), qsort() and bsearch(), strtok() and strsep(),  *)
(* random() and setstate(), and the string functions of the kernel and     *)
(* those of the library do what the other one expects.                     *)
LibraryRight ==
  /\ Part("print") => PrintReads(arg[2][1], arg[2][2], arg[3], arg[4], arg[5])
  /\ Part("number") => ReadsRight(arg[2], arg[3]) /\ KernelReads(arg[2], arg[3])
  /\ Part("div") => DivRight(arg[2], arg[3])
  /\ Part("sort") => SortsRight(arg[2])
  /\ Part("tokens") => TokensRight(arg[2], arg[3])
  /\ Part("strings") => StringsAgree(arg[2], arg[3], arg[4]) /\ ClassesFit
  /\ Part("random") => StreamsKeep(Streams, arg[2])

(* --- Devices: a screen of two rows of two.                               *)
Answers == {"data", "refused", "absent"}
BackAfterChar(s) == \A i \in 1 .. Len(s) : s[i] = "back" => i > 1 /\ s[i - 1] = "x"

DeviceArgs ==
  \/ arg = <<"gates">>
  \/ \E ops \in SeqsTo(4, {"on", "off"} \X {0, 1, 8, 14, 15, 16}) : arg = <<"lines", ops>>
  \/ \E a \in [1 .. 2 -> Answers \X Answers], k \in 0 .. 3 : arg = <<"ide", a, k>>
  \/ \E s \in SeqsTo(7, {"x", "nl", "cr", "back"}) : BackAfterChar(s) /\ arg = <<"screen", s>>

(* Interrupt gates, interrupt lines and the search for disks (idt.c,       *)
(* irq.c, pic.c, ide.c), and the screen (cons.c).                          *)
DevicesRight ==
  /\ Part("gates") => GatesRight
  /\ Part("lines") => LinesRight(arg[2])
  /\ Part("ide") => IdeFound(arg[2], arg[3])
  /\ Part("screen") => ScreenRight(arg[2])

-----------------------------------------------------------------------------
Init == Ext2Args \/ TableArgs \/ BootArgs \/ LibraryArgs \/ DeviceArgs
Next == UNCHANGED arg
Spec == Init /\ [][Next]_arg
=============================================================================
