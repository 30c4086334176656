------------------------------ MODULE Sorting ------------------------------
(***************************************************************************)
(* qsort() and bsearch() of the C library.  An array is a sequence of      *)
(* records of which qcmp() compares the keys; base and max are the places  *)
(* of the first record and behind the last.                                *)
(***************************************************************************)
EXTENDS Integers, Sequences, SequencesExt, FiniteSetsExt

Thresh  == 4   \* THRESH and MTHRESH of qsort.c
MThresh == 6

Qcmp(a, i, j) == a[i].key - a[j].key
Swapped(a, i, j) == [a EXCEPT ![i] = a[j], ![j] = a[i]]

(* qst(): the median of the first, the middle and the last record goes to  *)
(* the middle, of MThresh records or more.                                 *)
Median(a, base, max) ==
  LET mid == base + (max - base) \div 2
      j == IF Qcmp(a, base, mid) > 0 THEN base ELSE mid
      loser == base + mid - j
      best == IF Qcmp(a, j, max - 1) <= 0 THEN j
              ELSE IF Qcmp(a, loser, max - 1) < 0 THEN max - 1 ELSE loser
  IN IF max - base < MThresh THEN a ELSE Swapped(a, mid, best)

(* qst(): i and j run towards mid and swap what is on the wrong side; mid  *)
(* follows the record it began with.                                       *)
RECURSIVE Split(_, _, _, _)
Split(a, i0, j0, mid) ==
  LET i == Min({x \in i0 .. mid : x = mid \/ Qcmp(a, x, mid) > 0})
      j == Max({x \in mid .. j0 : x = mid \/ Qcmp(a, mid, x) > 0})
  IN CASE i = mid /\ j = mid -> [a |-> a, mid |-> mid]
       [] i = mid /\ j > mid -> Split(Swapped(a, i, j), i + 1, j, j)
       [] i < mid /\ j > mid -> Split(Swapped(a, i, j), i + 1, j - 1, mid)
       [] OTHER -> Split(Swapped(a, i, mid), i, j - 1, i)

(* qst(): the smaller part first, parts of less than Thresh not at all.    *)
RECURSIVE Qst(_, _, _)
Qst(a, base, max) ==
  LET s  == Split(Median(a, base, max), base, max - 1, base + (max - base) \div 2)
      lo == s.mid - base
      hi == max - (s.mid + 1)
      Part(b, from, to) == IF to - from >= Thresh THEN Qst(b, from, to) ELSE b
  IN IF lo <= hi THEN Part(Part(s.a, base, s.mid), s.mid + 1, max)
     ELSE Part(Part(s.a, s.mid + 1, max), base, s.mid)

(* Mutant: one record less is searched for the smallest.                   *)
SentinelNear(a, n) ==
  LET hi == (IF n >= Thresh THEN Thresh ELSE n) - 1
      j == Min({x \in 1 .. hi : \A y \in 1 .. hi : Qcmp(a, x, y) <= 0})
  IN Swapped(a, 1, j)

(* qsort(): the smallest record, which is among the first Thresh, first.   *)
Sentinel(a, n) ==
  LET hi == IF n >= Thresh THEN Thresh ELSE n
      j == Min({x \in 1 .. hi : \A y \in 1 .. hi : Qcmp(a, x, y) <= 0})
  IN Swapped(a, 1, j)

(* qsort(): the insertion sort.  Each record goes behind the last before   *)
(* it that is not larger; when there is none the search leaves the array.  *)
Insertion(a, n) ==
  LET Ins(s, min) ==
        LET stop == {h \in 1 .. min - 1 : Qcmp(s.a, h, min) <= 0}
            rec == s.a[min]
        IN IF ~s.within \/ stop = {} THEN [s EXCEPT !.within = FALSE]
           ELSE [s EXCEPT !.a = InsertAt(RemoveAt(s.a, min), Max(stop) + 1, rec)]
  IN FoldLeft(Ins, [a |-> a, within |-> TRUE], [k \in 1 .. n - 1 |-> k + 1])

Qsort(a) ==
  LET n == Len(a)
  IN IF n <= 1 THEN [a |-> a, within |-> TRUE]
     ELSE Insertion(Sentinel(IF n >= Thresh THEN Qst(a, 1, n + 1) ELSE a, n), n)

(* bsearch(): the place of a record with the key, 0 for none.              *)
RECURSIVE BsearchIn(_, _, _, _)
BsearchIn(a, key, base, lim) ==
  LET p == base + lim \div 2
  IN CASE lim = 0 -> 0
       [] lim > 0 /\ key = a[p].key -> p
       [] lim > 0 /\ key > a[p].key -> BsearchIn(a, key, p + 1, (lim - 1) \div 2)
       [] OTHER -> BsearchIn(a, key, base, lim \div 2)
Bsearch(a, key) == BsearchIn(a, key, 1, Len(a))

(* qsort() never looks in front of the array and leaves its records in     *)
(* order, none lost and none twice; bsearch() then finds every key that is *)
(* there and none that is not.                                             *)
SortsRight(keys) ==
  LET a == [i \in 1 .. Len(keys) |-> [key |-> keys[i], id |-> i]]
      q == Qsort(a)
  IN /\ q.within
     /\ ToSet(q.a) = ToSet(a) /\ Len(q.a) = Len(a)
     /\ \A i \in 1 .. Len(a) - 1 : q.a[i].key <= q.a[i + 1].key
     /\ \A k \in 0 .. 6 :
          LET p == Bsearch(q.a, k)
          IN IF k \in ToSet(keys) THEN q.a[p].key = k ELSE p = 0
=============================================================================
