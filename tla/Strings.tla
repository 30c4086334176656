------------------------------ MODULE Strings ------------------------------
(***************************************************************************)
(* The string functions of the kernel (c/string.c) and of the C library.   *)
(* A string is a sequence of characters 1 .. 255; At() reads the 0 behind  *)
(* it.  Functions that cut a string work on a memory, a sequence that ends *)
(* in 0, and on places in it; 0 is the null pointer.                       *)
(***************************************************************************)
EXTENDS Integers, Sequences, SequencesExt, FiniteSetsExt

CharAt(s, i) == IF i <= Len(s) THEN s[i] ELSE 0
First(S) == IF S = {} THEN 0 ELSE Min(S)
Prefix(s, n) == SubSeq(s, 1, Min({n, Len(s)}))

(* ctype.c: the classes of __ctab[], by their _C_ names; and the two       *)
(* tables for letters.                                                     *)
Ctab ==
  [CTL |-> (0 .. 31) \cup {127}, SPC |-> (9 .. 13) \cup {32}, PRN |-> 32 .. 126,
   GRA |-> 33 .. 126, DIG |-> 48 .. 57, UPE |-> 65 .. 90, LOW |-> 97 .. 122,
   ALP |-> (65 .. 90) \cup (97 .. 122),
   ALN |-> (48 .. 57) \cup (65 .. 90) \cup (97 .. 122),
   HEX |-> (48 .. 57) \cup (65 .. 70) \cup (97 .. 102),
   PUN |-> (33 .. 47) \cup (58 .. 64) \cup (91 .. 96) \cup (123 .. 126)]
TolowerTab(c) == IF c \in 65 .. 90 THEN c + 32 ELSE c
ToupperTab(c) == IF c \in 97 .. 122 THEN c - 32 ELSE c
Strlwr(s) == [i \in DOMAIN s |-> TolowerTab(s[i])]
Strupr(s) == [i \in DOMAIN s |-> ToupperTab(s[i])]

-----------------------------------------------------------------------------
(* The first of n places where two strings differ, 0 for none.             *)
Diff(s, t, n) == First({i \in 1 .. n : CharAt(s, i) # CharAt(t, i)})

Longer(s, t) == Max({Len(s), Len(t)}) + 1

(* The kernel's strcmp() only tells equal from different.                  *)
KStrcmp(s, t) == IF Diff(s, t, Longer(s, t)) = 0 THEN 0 ELSE 1

(* strncmp() of the kernel: the 0 that ends both ends the loop as well.    *)
KStrncmp(s, t, n) ==
  LET d == Diff(s, t, n) IN IF d = 0 THEN 0 ELSE CharAt(s, d) - CharAt(t, d)

(* strcmp() and strcoll(), stricmp(), strnicmp() of the library.           *)
Strcmp(s, t) == KStrncmp(s, t, Longer(s, t))
Stricmp(s, t) == Strcmp(Strlwr(s), Strlwr(t))
Strnicmp(s, t, n) == KStrncmp(Strlwr(s), Strlwr(t), n)

(* Where a character is for the first and for the last time; 0 is found    *)
(* behind the string.                                                      *)
Strchr(s, c)  == First({i \in 1 .. Len(s) + 1 : CharAt(s, i) = c})
Strrchr(s, c) == LET p == {i \in 1 .. Len(s) + 1 : CharAt(s, i) = c}
                 IN IF p = {} THEN 0 ELSE Max(p)

(* How far a string has only characters of a set, or none of it.           *)
Strspn(s, set)  == Min({i \in 1 .. Len(s) + 1 : CharAt(s, i) \notin set}) - 1
Strcspn(s, set) == Min({i \in 1 .. Len(s) + 1 : CharAt(s, i) \in set \cup {0}}) - 1
Strpbrk(s, set) == First({i \in 1 .. Len(s) : s[i] \in set})

(* strstr(): from each place of the first character on, the rest is        *)
(* compared with what follows.                                             *)
Strstr(s, find) ==
  IF find = << >> THEN 1
  ELSE First({i \in 1 .. Len(s) : s[i] = find[1] /\
                KStrncmp(SubSeq(s, i + 1, Len(s)), Tail(find), Len(find) - 1) = 0})

(* What copies leave in a buffer d.  The kernel's strncpy() stops behind   *)
(* the 0, the library's fills up; strxfrm() always ends its copy.          *)
KStrncpy(d, s, n) ==
  [i \in DOMAIN d |-> IF i <= Min({n, Len(s) + 1}) THEN CharAt(s, i) ELSE d[i]]
Strncpy(d, s, n) == [i \in DOMAIN d |-> IF i <= n THEN CharAt(s, i) ELSE d[i]]
Strxfrm(d, s, n) ==
  [r |-> IF n = 0 THEN 0 ELSE Len(s),
   dst |-> [i \in DOMAIN d |-> CASE i <= Min({n - 1, Len(s)}) -> s[i]
                                 [] n > 0 /\ i = Min({n - 1, Len(s)}) + 1 -> 0
                                 [] OTHER -> d[i]]]

(* strncat(): of the kernel and of the library, unless n is 0.             *)
Strncat(d, s, n) ==
  LET at == Strchr(d, 0)
      take == Min({n, Len(s)})
  IN [i \in DOMAIN d |-> IF i \in at .. at + take - 1 THEN s[i - at + 1]
                         ELSE IF i = at + take THEN 0 ELSE d[i]]

-----------------------------------------------------------------------------
(* strtok() and strsep(): t is [mem, last, tok], last where the next call  *)
(* goes on and tok what was returned.                                      *)
CutAt(t, tok, e) ==
  IF t.mem[e] = 0 THEN [t EXCEPT !.last = 0, !.tok = tok]
  ELSE [mem |-> [t.mem EXCEPT ![e] = 0], last |-> e + 1, tok |-> tok]

EndFrom(mem, i, delim) == Min({k \in i .. Len(mem) : mem[k] \in delim \cup {0}})

(* Mutant: delimiters before the token are not skipped.                    *)
StrtokAtOnce(t, delim) ==
  IF t.last = 0 THEN [t EXCEPT !.tok = 0]
  ELSE CutAt(t, t.last, EndFrom(t.mem, t.last, delim))

Strtok(t, delim) ==
  LET s == Min({k \in t.last .. Len(t.mem) : t.mem[k] \notin delim})
  IN IF t.last = 0 THEN [t EXCEPT !.tok = 0]
     ELSE IF t.mem[s] = 0 THEN [t EXCEPT !.last = 0, !.tok = 0]
     ELSE CutAt(t, s, EndFrom(t.mem, s + 1, delim))

Strsep(t, delim) ==
  IF t.last = 0 THEN [t EXCEPT !.tok = 0]
  ELSE CutAt(t, t.last, EndFrom(t.mem, t.last, delim))

StringFrom(mem, p) == SubSeq(mem, p, EndFrom(mem, p, {}) - 1)

(* The tokens of a string: what is found at their places in the end.       *)
RECURSIVE CutUp(_, _, _)
CutUp(Call(_, _), t, delim) ==
  LET u == Call(t, delim)
      rest == CutUp(Call, u, delim)
  IN IF u.tok = 0 THEN [mem |-> u.mem, toks |-> << >>]
     ELSE [mem |-> rest.mem, toks |-> <<u.tok>> \o rest.toks]

TokensOf(Call(_, _), s, delim) ==
  LET c == CutUp(Call, [mem |-> Append(s, 0), last |-> 1, tok |-> 0], delim)
  IN [k \in 1 .. Len(c.toks) |-> StringFrom(c.mem, c.toks[k])]

(* strsep() and strtok() cut the same string: the pieces of strsep(), put  *)
(* together, are all but the delimiters, one piece more than there are     *)
(* delimiters, and strtok() gives those of them that are not empty.  Later *)
(* calls leave the pieces of earlier ones as they were.                    *)
TokensRight(s, delim) ==
  LET pieces == TokensOf(Strsep, s, delim)
  IN /\ Len(pieces) = 1 + Len(SelectSeq(s, LAMBDA c : c \in delim))
     /\ FlattenSeq(pieces) = SelectSeq(s, LAMBDA c : c \notin delim)
     /\ TokensOf(Strtok, s, delim) = SelectSeq(pieces, LAMBDA p : p # << >>)

(* The functions agree with one another: the kernel's comparisons with the *)
(* library's, ignoring case with the case folded either way, searches with *)
(* spans, strncpy() of both up to the 0, and strncat() and strxfrm() with  *)
(* what they copy; none writes behind what it was given room for.          *)
StringsAgree(s, t, n) ==
  LET set == ToSet(t)
      d   == Strncpy([i \in 1 .. 9 |-> 7], s, Len(s) + 1)
      cat == Strncat(d, t, n)
      x   == Strxfrm(d, t, n)
  IN /\ KStrcmp(s, t) = 0 <=> Strcmp(s, t) = 0
     /\ Strcmp(s, t) = -Strcmp(t, s)
     /\ Stricmp(s, t) = 0 <=> Strupr(s) = Strupr(t)
     /\ KStrncmp(s, t, n) = 0 <=> Prefix(s, n) = Prefix(t, n)
     /\ Strpbrk(s, set) = 0 <=> Strcspn(s, set) = Len(s)
     /\ Strspn(s, set) = Len(s) <=> ToSet(s) \subseteq set
     /\ t # << >> => Strstr(s, t) = First({i \in 1 .. Len(s) : Prefix(SubSeq(s, i, Len(s)), Len(t)) = t})
     /\ StringFrom(cat, 1) = s \o Prefix(t, n)
     /\ \A i \in Len(s) + n + 2 .. 9 : cat[i] = 7
     /\ n > 0 => StringFrom(x.dst, 1) = Prefix(t, n - 1) /\ x.r = Len(t)
     /\ \A i \in n + 1 .. 9 : x.dst[i] = d[i]
     /\ n > Len(s) => StringFrom(KStrncpy(cat, s, n), 1) = StringFrom(Strncpy(cat, s, n), 1)

(* The classes of ctype.c fit together and the letters of the tables are   *)
(* those of the classes.                                                   *)
ClassesFit ==
  /\ Ctab.ALN = Ctab.ALP \cup Ctab.DIG /\ Ctab.ALP = Ctab.UPE \cup Ctab.LOW
  /\ Ctab.GRA = Ctab.ALN \cup Ctab.PUN /\ Ctab.ALN \cap Ctab.PUN = {}
  /\ Ctab.PRN = Ctab.GRA \cup {32} /\ Ctab.PRN \cap Ctab.CTL = {}
  /\ \A c \in 0 .. 255 : /\ TolowerTab(c) # c <=> c \in Ctab.UPE
                         /\ ToupperTab(c) # c <=> c \in Ctab.LOW
                         /\ c \in Ctab.ALP => {TolowerTab(ToupperTab(c)), ToupperTab(TolowerTab(c))} \subseteq Ctab.ALP
=============================================================================
