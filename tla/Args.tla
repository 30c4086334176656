-------------------------------- MODULE Args --------------------------------
(***************************************************************************)
(* The two places where a line is cut into words: parse() and execute() of *)
(* the console (kern/syscon.c), and setup_args() of kern/proc.c, which     *)
(* packs the command line of a boot task into the first page of its data.  *)
(* A line is a sequence of characters; " " and "/" are the special ones.   *)
(***************************************************************************)
EXTENDS Integers, Sequences, SequencesExt, FiniteSetsExt

CONSTANTS
  MaxArgs, ArgSize,   \* MAX_ARGS and MAX_ARGSZ of syscon.c: argv[10][50]
  ArgRoom             \* MAX_ARGSZ of proc.c

ASSUME ArgsAssumption == {MaxArgs, ArgSize, ArgRoom} \subseteq Nat \ {0}

(* The first place from i on that holds no space, or holds one; the end of *)
(* the line ends both.                                                     *)
Skip(s, i)    == Min({j \in i .. Len(s) : s[j] # " "} \cup {Len(s) + 1})
WordEnd(s, i) == Min({j \in i .. Len(s) : s[j] = " "} \cup {Len(s) + 1})

(* parse(): argv[0 .. argc - 1], and whether something was written past    *)
(* the end of argv or of one of its rows (the test comes after strcpy()).  *)
Parse(s) ==
  LET From[i \in 1 .. Len(s) + 1] ==
        LET a == Skip(s, i)
            e == WordEnd(s, a)
            word == SubSeq(s, a, e - 1)
        IN IF e > Len(s) THEN <<word>> ELSE <<word>> \o From[e + 1]
      all == From[1]
      n == IF Len(all) > MaxArgs THEN MaxArgs ELSE Len(all)
  IN [argv |-> SubSeq(all, 1, n),
      overrun |-> Len(all) > MaxArgs \/ \E i \in 1 .. n : Len(all[i]) >= ArgSize]

(* execute(): the first command of that name, 0 for none.                  *)
Execute(cmds, s) == SelectInSeq(cmds, LAMBDA c : c = Parse(s).argv[1])

(* basename() of a word.                                                   *)
Basename(w) ==
  LET slash == Max({0} \cup {i \in 1 .. Len(w) : w[i] = "/"})
  IN SubSeq(w, slash + 1, Len(w))

(* Mutant: the 0 behind a word is not counted.                             *)
PackedTight(at, word) == at + Len(word)

(* Where the next word goes.                                               *)
Packed(at, word) == at + Len(word) + 1

(* setup_args(): the words are copied one behind the other, the first one  *)
(* without its path though room for all of it is left; argv holds where.   *)
SetupArgs(s) ==
  LET first == SubSeq(s, 1, WordEnd(s, 1) - 1)
      Rest[i \in 1 .. Len(s) + 1] ==
        IF i > Len(s) THEN << >>
        ELSE LET e == WordEnd(s, i)
             IN <<SubSeq(s, i, e - 1)>> \o (IF e > Len(s) THEN << >> ELSE Rest[Skip(s, e)])
      rest == Rest[Skip(s, WordEnd(s, 1))]
      At[c \in 1 .. Len(rest) + 1] ==
        IF c = 1 THEN Packed(0, first) ELSE Packed(At[c - 1], rest[c - 1])
  IN [argv |-> <<0>> \o [c \in 1 .. Len(rest) |-> At[c]],
      end  |-> At[Len(rest) + 1],
      words |-> <<Basename(first)>> \o rest]

(* The bytes setup_args() wrote, "0" for those that end a word and for the *)
(* zeroed page.                                                            *)
Memory(r) ==
  LET Copy(m, c) == [a \in DOMAIN m |->
                       IF a \in r.argv[c] .. r.argv[c] + Len(r.words[c]) - 1
                       THEN r.words[c][a - r.argv[c] + 1]
                       ELSE IF a = r.argv[c] + Len(r.words[c]) THEN "0" ELSE m[a]]
  IN FoldLeft(Copy, [a \in 0 .. r.end |-> "0"], [c \in 1 .. Len(r.argv) |-> c])

(* The string at an address.                                               *)
StringAt(m, a) ==
  LET stop == Min({i \in a .. Max(DOMAIN m) : m[i] = "0"})
  IN [i \in 1 .. stop - a |-> m[a + i - 1]]

(* The words of a line: its longest stretches without spaces.              *)
Words(s) ==
  LET starts == {i \in 1 .. Len(s) : s[i] # " " /\ (i = 1 \/ s[i - 1] = " ")}
      inOrder == SetToSortSeq(starts, LAMBDA x, y : x < y)
  IN [c \in 1 .. Len(inOrder) |-> SubSeq(s, inOrder[c], WordEnd(s, inOrder[c]) - 1)]

(* parse() gives the words of the line, with an empty one behind them when *)
(* the line ends in spaces (a command with optional arguments then sees    *)
(* one more), cut off at MaxArgs, and overruns argv for exactly the lines  *)
(* with more words or longer ones than it has room for.                    *)
ParseRight(s) ==
  LET w == Words(s) \o (IF s # << >> /\ Last(s) = " " THEN << << >> >> ELSE << >>)
  IN s # << >> =>
       /\ Parse(s).argv = SubSeq(w, 1, Min({Len(w), MaxArgs}))
       /\ Parse(s).overrun = (Len(w) > MaxArgs
                                \/ \E i \in 1 .. Min({Len(w), MaxArgs}) : Len(w[i]) >= ArgSize)

(* A boot task whose command line fits into the room before argv finds     *)
(* every word of it through argv, unharmed by the words packed before and  *)
(* after, its own name without the path; a line that starts with a space   *)
(* names it "".                                                            *)
ArgsRight(s) ==
  LET r == SetupArgs(s)
      w == (IF s = << >> \/ s[1] = " " THEN << << >> >> ELSE << >>) \o Words(s)
      m == Memory(r)
  IN r.end <= ArgRoom =>
       [c \in 1 .. Len(r.argv) |-> StringAt(m, r.argv[c])]
         = [c \in 1 .. Len(w) |-> IF c = 1 THEN Basename(w[1]) ELSE w[c]]
=============================================================================
