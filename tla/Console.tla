------------------------------ MODULE Console ------------------------------
(***************************************************************************)
(* The system console of kern/syscon.c over the keyboard driver: modifier  *)
(* keys, the translation of scan codes in kb_getch(), and the line editor  *)
(* of syscon(), which hands a finished line to parse() and execute().      *)
(*                                                                         *)
(* kb_special() runs in the interrupt handler, the translation in the      *)
(* console thread after kb_readbuf(): what a code means is decided when it *)
(* is read.                                                                *)
(***************************************************************************)
EXTENDS Keyboard

CONSTANTS
  Letter,        \* the codes of letters; the other keys are
  Enter, Back,   \* the codes of 0x0D and '\b'
  LineSize,      \* buf[256]
  MaxTyped       \* bound on the keys that got through

ASSUME ConsoleAssumption ==
  /\ Keys = Letter \cup {Enter, Back} /\ Enter # Back
  /\ Letter \cap {Enter, Back} = {}
  /\ LineSize \in Nat \ {0} /\ MaxTyped \in Nat

VARIABLES
  shift, caps,
  code,      \* read from the ring, not translated yet
  buf,       \* the line, buf[0 .. c - 1]
  overrun,   \* buf[LineSize] has been written: the stack is gone
  ran,       \* the lines given to parse() and execute()
  meant,     \* the characters typed, as the modifiers stood at the time,
             \* without those lost when the ring overflowed
  stale      \* a modifier changed while a key waited to be read

cvars == <<vars, shift, caps, code, buf, overrun, ran, meant, stale>>

-----------------------------------------------------------------------------
(* kb_getch(): shifted[] or normal[]; letters follow caps lock as well.    *)
Translate(k, s, l) ==
  IF k \in Letter THEN <<k, s # l>> ELSE <<k, FALSE>>

CInit ==
  /\ Init
  /\ shift = FALSE /\ caps = FALSE /\ code = None
  /\ buf = << >> /\ overrun = FALSE /\ ran = << >>
  /\ meant = << >> /\ stale = FALSE

line == <<code, buf, overrun, ran>>

(* kb_special(): shift goes down or up, caps lock changes when it goes up; *)
(* codes of release change nothing else.                                   *)
KbSpecial ==
  /\ \/ shift' = ~shift /\ UNCHANGED caps
     \/ caps' = ~caps /\ UNCHANGED shift
  /\ stale' = (stale \/ kb_count > 0 \/ code # None)
  /\ UNCHANGED <<vars, line, meant>>

(* kb_isr() of any other key.  One that finds the ring full is lost, and   *)
(* what was in the ring with it.                                           *)
CIsr(k) ==
  /\ Len(meant) < MaxTyped
  /\ Isr(k)
  /\ meant' = IF kb_count = KB_BUFSZ THEN SubSeq(meant, 1, Len(meant) - kb_count)
              ELSE Append(meant, Translate(k, shift, caps))
  /\ UNCHANGED <<shift, caps, line, stale>>

(* get_key() up to the return of kb_readbuf().                             *)
CGetKey ==
  /\ code = None
  /\ Console
  /\ code' = IF kb_count' < kb_count THEN got' ELSE None
  /\ UNCHANGED <<shift, caps, buf, overrun, ran, meant, stale>>

(* Mutant: the line is kept for the next one.                              *)
EnterKeeps(ch) ==
  /\ ch[1] = Enter /\ Len(buf) < LineSize
  /\ ran' = IF buf = << >> THEN ran ELSE Append(ran, buf)
  /\ UNCHANGED buf

(* syscon(): 0x0D ends the line, which is parsed and executed unless it is *)
(* empty.  The 0 behind it goes to buf[c].                                 *)
EnterLine(ch) ==
  /\ ch[1] = Enter /\ Len(buf) < LineSize
  /\ ran' = IF buf = << >> THEN ran ELSE Append(ran, buf)
  /\ buf' = << >>

EraseChar(ch) ==
  /\ ch[1] = Back
  /\ buf' = IF buf = << >> THEN buf ELSE SubSeq(buf, 1, Len(buf) - 1)
  /\ UNCHANGED ran

(* Any other character goes to buf[c++].                                   *)
AddChar(ch) ==
  /\ ch[1] \in Letter /\ Len(buf) < LineSize
  /\ buf' = Append(buf, ch)
  /\ UNCHANGED ran

Edit ==
  /\ code # None
  /\ LET ch == Translate(code, shift, caps)
     IN EnterLine(ch) \/ EraseChar(ch) \/ AddChar(ch)
  /\ code' = None
  /\ UNCHANGED <<vars, shift, caps, overrun, meant, stale>>

(* Nobody looks how long the line is: the next character, or the 0 behind  *)
(* it, goes past buf[] over the stack of syscon(), and what the machine    *)
(* does from there on is undefined.  Nothing follows here.                 *)
Overrun ==
  /\ code # None /\ code # Back /\ Len(buf) >= LineSize
  /\ overrun' = TRUE
  /\ UNCHANGED <<vars, shift, caps, code, buf, ran, meant, stale>>

CNext ==
  /\ ~overrun
  /\ KbSpecial \/ (\E k \in Keys : CIsr(k)) \/ CGetKey \/ Edit \/ Overrun

CSpec == CInit /\ [][CNext]_cvars
-----------------------------------------------------------------------------
(* The lines a sequence of characters amounts to, and the one begun.       *)
Lines(chars) ==
  LET L[n \in 0 .. Len(chars)] ==
        IF n = 0 THEN [done |-> << >>, open |-> << >>]
        ELSE LET l == L[n - 1]
                 ch == chars[n]
             IN CASE ch[1] = Enter /\ l.open = << >> -> l
                  [] ch[1] = Enter /\ l.open # << >> ->
                       [done |-> Append(l.done, l.open), open |-> << >>]
                  [] ch[1] = Back -> [l EXCEPT !.open = SubSeq(@, 1, Len(@) - 1)]
                  [] OTHER -> [l EXCEPT !.open = Append(@, ch)]
  IN L[Len(chars)]

(* What is executed is what was typed, character by character with the     *)
(* meaning each key had when it was pressed, through interrupt handler,    *)
(* ring, translation and editing, overflows of the ring included; unless a *)
(* modifier changed while keys waited in the ring.  It holds as long as    *)
(* syscon() keeps within buf[], and it leaves buf[] only with more than    *)
(* LineSize characters typed without an end of the line.                   *)
CommandsAsTyped ==
  LET waiting == kb_count + (IF code = None THEN 0 ELSE 1)
      read    == SubSeq(meant, 1, Len(meant) - waiting)
  IN /\ stale \/ (ran = Lines(read).done /\ buf = Lines(read).open)
     /\ overrun => \E i \in 1 .. Len(meant) :
                     /\ i + LineSize <= Len(meant)
                     /\ \A j \in i .. i + LineSize - 1 : meant[j][1] # Enter
=============================================================================
