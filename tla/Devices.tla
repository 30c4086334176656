------------------------------ MODULE Devices ------------------------------
(***************************************************************************)
(* What the kernel sets up in its devices: the interrupt descriptor table  *)
(* (i386/idt.c), the interrupt lines (kern/irq.c and pc/pic.c), the disks  *)
(* that the command "ide" finds (pc/ide.c), and the text screen            *)
(* (pc/cons.c).                                                            *)
(***************************************************************************)
EXTENDS Integers, Sequences, SequencesExt, FiniteSetsExt

CONSTANTS
  Cols, Rows   \* DEF_COLS and lines of cons.c

ASSUME DevicesAssumption == {Cols, Rows} \subseteq Nat \ {0}

-----------------------------------------------------------------------------
(* cpu_trap[] in order; the names of cpu_isr[] are the lines themselves.   *)
CpuTrap == <<"divide", "debug", "nmi", "breakpoint", "overflow", "bounds", "opcode",
             "mathgone", "double", "mathover", "tss", "segment", "stack", "general",
             "t_page_fault", "matherr">>
Syscalls == <<[vect |-> 144, func |-> "syscall_trap"], [vect |-> 145, func |-> "sample"],
              [vect |-> 146, func |-> "kbisr"]>>

SetupGate(idt, i, hand, type) == [idt EXCEPT ![i] = [hand |-> hand, type |-> type]]

(* init_idt(): everything is the dummy, then traps, lines and calls.       *)
InitIdt ==
  LET dummy == [i \in 0 .. 255 |-> [hand |-> <<"default">>, type |-> "trap"]]
      traps == FoldLeft(LAMBDA t, c : SetupGate(t, c - 1, <<CpuTrap[c]>>, "trap"),
                        dummy, [c \in 1 .. Len(CpuTrap) |-> c])
      lines == FoldLeft(LAMBDA t, c : SetupGate(t, 31 + c, <<"line", c - 1>>, "irq"),
                        traps, [c \in 1 .. 16 |-> c])
  IN FoldLeft(LAMBDA t, s : SetupGate(t, s.vect, <<s.func>>, "user"), lines, Syscalls)

(* The exceptions of the processor, by what it names them.                 *)
Exceptions ==
  [divide |-> 0, debug |-> 1, nmi |-> 2, breakpoint |-> 3, overflow |-> 4, bounds |-> 5,
   opcode |-> 6, mathgone |-> 7, double |-> 8, mathover |-> 9, tss |-> 10, segment |-> 11,
   stack |-> 12, general |-> 13, t_page_fault |-> 14, matherr |-> 16]

(* Every exception but the one of the coprocessor, which is number 16 and  *)
(* not 15, gets its own handler; every line its stub, entered with         *)
(* interrupts off; and user code reaches nothing but the system calls.     *)
GatesRight ==
  /\ \A e \in DOMAIN Exceptions :
       (InitIdt[Exceptions[e]].hand = <<e>>) <=> (e # "matherr")
  /\ \A n \in 0 .. 15 : InitIdt[32 + n] = [hand |-> <<"line", n>>, type |-> "irq"]
  /\ {v \in 0 .. 255 : InitIdt[v].type = "user"} = {s.vect : s \in ToSet(Syscalls)}

-----------------------------------------------------------------------------
(* The lines: irq_mask as the set of closed ones, and who has a handler;   *)
(* ints says whether the processor takes interrupts, table is              *)
(* ide_dev_table[] with the line of each disk.                             *)
SlaveIrq == 8      \* the first line of the second controller,
Cascade  == 2      \* and where that is connected to the first

InitPic == [mask |-> 0 .. 15, handlers |-> {}, ints |-> TRUE, table |-> << >>]

EnableIrq(mask, n) == mask \ ({n} \cup IF n >= SlaveIrq THEN {Cascade} ELSE {})

(* Mutant: only the line itself is opened.                                 *)
RegisterBare(p, n) ==
  IF n \notin 1 .. 15 THEN p
  ELSE [p EXCEPT !.handlers = @ \cup {n}, !.mask = @ \ {n}]

(* interrupt_register() with enable_irq().                                 *)
InterruptRegister(p, n) ==
  IF n \notin 1 .. 15 THEN p
  ELSE [p EXCEPT !.handlers = @ \cup {n}, !.mask = EnableIrq(@, n)]

DisableIrq(mask, n) == mask \cup {n} \cup (IF n >= SlaveIrq THEN {Cascade} ELSE {})

(* interrupt_unregister() with disable_irq().                              *)
InterruptUnregister(p, n) ==
  IF n \notin 1 .. 15 THEN p
  ELSE [p EXCEPT !.handlers = @ \ {n}, !.mask = DisableIrq(@, n)]

(* A line's interrupts reach interrupt().                                  *)
Delivered(p, n) == n \notin p.mask /\ (n >= SlaveIrq => Cascade \notin p.mask)

(* Whatever lines handlers are registered for and given up in whatever     *)
(* order, a line of the first controller is open exactly while it has a    *)
(* handler; one of the second until any other of them is given up, which   *)
(* closes the way for all (pic.c:68), and again with the next handler.     *)
LinesRight(ops) ==
  LET Do(p, op) == IF op[1] = "on" THEN InterruptRegister(p, op[2])
                   ELSE InterruptUnregister(p, op[2])
      p == FoldLeft(Do, InitPic, ops)
      slave == SelectSeq(ops, LAMBDA op : op[2] \in SlaveIrq .. 15)
      open  == slave # << >> /\ Last(slave)[1] = "on"
  IN \A n \in 1 .. 15 :
       n # Cascade => (Delivered(p, n) <=> n \in p.handlers /\ (n >= SlaveIrq => open))

(* ide_identify(): an interface answers a command with its data, refuses   *)
(* it after interrupts were turned off, or is absent.                      *)
IdeIdentify(p, irq, answer) ==
  CASE answer = "data"    -> [p EXCEPT !.ints = TRUE, !.table = Append(@, irq)]
    [] answer = "refused" -> [p EXCEPT !.ints = FALSE]
    [] answer = "absent"  -> p

(* ide_init() with the answers of both interfaces to both commands: the    *)
(* second command is for those that refuse the first.                      *)
IdeInit(p, answers) ==
  FoldLeft(LAMBDA q, c :
             LET irq == 13 + c
                 reg == InterruptRegister(q, irq)
                 one == IdeIdentify(reg, irq, answers[c][1])
             IN IF answers[c][1] = "data" THEN one
                ELSE LET two == IdeIdentify(one, irq, answers[c][2])
                     IN IF answers[c][2] = "data" THEN two ELSE InterruptUnregister(two, irq),
           p, <<1, 2>>)

(* After the command "ide", given any number of times, the disks that were *)
(* found can interrupt, unless the second interface has none: giving up    *)
(* its line closes that of the first.  Interrupts are off if the last      *)
(* answer was a refusal.  Each time adds the disks to the table again,     *)
(* which they overrun some day (ide.c:147).                                *)
IdeFound(answers, times) ==
  LET p == FoldLeft(LAMBDA q, k : IdeInit(q, answers), InitPic, [k \in 1 .. times |-> k])
      has(c) == "data" \in {answers[c][1], answers[c][2]}
      found == {c \in {1, 2} : has(c)}
      said == SelectSeq(FlattenSeq([c \in 1 .. 2 |->
                 IF answers[c][1] = "data" THEN <<"data">> ELSE answers[c]]), LAMBDA a : a # "absent")
  IN times > 0 =>
       /\ ToSet(p.table) = {13 + c : c \in found}
       /\ Len(p.table) = times * Cardinality(found)
       /\ \A c \in found : Delivered(p, 13 + c) <=> has(2)
       /\ p.ints <=> (said = << >> \/ Last(said) = "data")

-----------------------------------------------------------------------------
(* The screen: cells 0 .. Cols * Rows, the last of them behind what is     *)
(* shown, and curpos.                                                      *)
Size  == Cols * Rows
Blank == " "
Clear == [cells |-> [i \in 0 .. Size |-> Blank], pos |-> 0]

NewLine(pos) == ((pos + Cols) \div Cols) * Cols

(* Mutant: only the row that comes free is blanked, less its last cell.    *)
ScrollShort(s) ==
  IF s.pos < Size THEN s
  ELSE [cells |-> [i \in 0 .. Size |-> IF i < Size - Cols THEN s.cells[i + Cols]
                                       ELSE IF i = Size - 1 THEN s.cells[i] ELSE Blank],
        pos |-> s.pos - Cols]

(* cons_putc(), at the end of the screen.                                  *)
Scroll(s) ==
  IF s.pos < Size THEN s
  ELSE [cells |-> [i \in 0 .. Size |-> IF i < Size - Cols THEN s.cells[i + Cols] ELSE Blank],
        pos |-> s.pos - Cols]

(* cons_putc().                                                            *)
ConsPutc(s, ch) ==
  CASE ch = "cr" -> s
    [] ch = "nl" -> Scroll([s EXCEPT !.pos = NewLine(@)])
    [] OTHER -> Scroll([cells |-> [s.cells EXCEPT ![s.pos] = ch], pos |-> s.pos + 1])

(* cons_ungetc().                                                          *)
ConsUngetc(s) == [cells |-> [s.cells EXCEPT ![s.pos - 1] = Blank], pos |-> s.pos - 1]

(* The same on a page without end.                                         *)
OnPage(text) ==
  LET At[n \in 0 .. Len(text)] ==
        IF n = 0 THEN [pos |-> 0, put |-> [i \in {} |-> Blank]]
        ELSE LET x == At[n - 1]
                 c == text[n]
             IN CASE c = "cr" -> x
                  [] c = "nl" -> [x EXCEPT !.pos = NewLine(@)]
                  [] c = "back" -> [pos |-> x.pos - 1, put |-> (x.pos - 1 :> Blank) @@ x.put]
                  [] OTHER -> [pos |-> x.pos + 1, put |-> (x.pos :> c) @@ x.put]
  IN At[Len(text)]

(* The screen shows the last rows of the endless page on which the text    *)
(* is written, the cursor where it is there, whatever is printed and taken *)
(* back; behind it only a blank is ever written.                           *)
ScreenRight(text) ==
  LET s == FoldLeft(LAMBDA x, c : IF c = "back" THEN ConsUngetc(x) ELSE ConsPutc(x, c), Clear, text)
      w == OnPage(text)
      top == Cols * Max({0} \cup {((OnPage(SubSeq(text, 1, n)).pos) \div Cols) - Rows + 1 : n \in 1 .. Len(text)})
  IN /\ s.pos + top = w.pos
     /\ \A i \in 0 .. Size - 1 :
          s.cells[i] = IF i + top \in DOMAIN w.put THEN w.put[i + top] ELSE Blank
     /\ s.cells[Size] = Blank
=============================================================================
