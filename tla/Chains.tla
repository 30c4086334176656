------------------------------- MODULE Chains -------------------------------
(***************************************************************************)
(* Linked lists as the kernel's modules define them: a first element, a    *)
(* link from each element to the next, a null pointer at the end.  The     *)
(* modules read a list off its links with a function that is defined by    *)
(* recursion; the lemmas here say what such a function yields, and rest on *)
(* the least element of a set of naturals instead of on an induction rule. *)
(***************************************************************************)
EXTENDS Integers, Sequences, FiniteSets, FiniteSetTheorems, TLAPS

(* q is the list that starts at first and goes on along link.              *)
IsList(q, first, link, Nil) ==
  /\ first = IF q = << >> THEN Nil ELSE q[1]
  /\ \A i \in 1 .. Len(q) :
       /\ q[i] # Nil
       /\ link[q[i]] = IF i = Len(q) THEN Nil ELSE q[i + 1]

Members(q) == {q[i] : i \in DOMAIN q}

(* No element comes twice.                                                 *)
Distinct(q) == \A i, j \in DOMAIN q : q[i] = q[j] => i = j

-----------------------------------------------------------------------------
(* A non-empty set of natural numbers has a least element.                 *)
LEMMA LeastNat ==
  ASSUME NEW T \in SUBSET Nat, T # {}
  PROVE  \E x \in T : \A y \in T : x <= y
  <1> DEFINE R == {p \in Nat \X Nat : p[1] < p[2]}
  <1>1. IsWellFoundedOn(R, Nat)
    BY NatLessThanWellFounded DEF OpToRel
  <1>2. \A x, y \in Nat : <<y, x>> \in R <=> y < x
    OBVIOUS
  <1>3. \E x \in T : \A y \in T : ~ (<<y, x>> \in R)
    <2> HIDE DEF R
    <2> QED
      BY <1>1, WFMin
  <1> HIDE DEF R
  <1>4. PICK x \in T : \A y \in T : ~ (<<y, x>> \in R)
    BY <1>3
  <1>5. ASSUME NEW y \in T PROVE x <= y
    <2>1. x \in Nat /\ y \in Nat
      OBVIOUS
    <2>2. ~ (y < x)
      BY <1>2, <1>4, <2>1
    <2> QED
      BY <2>1, <2>2
  <1> QED
    BY <1>5

(* What holds of 0 and passes from each number below N to the next holds   *)
(* of all numbers up to N; the property is given as the set of its members.*)
LEMMA UpTo ==
  ASSUME NEW N \in Nat, NEW P, 0 \in P,
         \A i \in 0 .. N : i < N /\ i \in P => i + 1 \in P
  PROVE  0 .. N \subseteq P
  <1> DEFINE T == (0 .. N) \ P
  <1> SUFFICES ASSUME T # {} PROVE FALSE
    OBVIOUS
  <1>1. T \in SUBSET Nat
    OBVIOUS
  <1>2. PICK x \in T : \A y \in T : x <= y
    <2> HIDE DEF T
    <2> QED
      BY <1>1, LeastNat
  <1>3. x # 0 /\ x \in 0 .. N /\ x \notin P
    BY <1>2
  <1>4. x - 1 \in 0 .. N /\ x - 1 < N /\ x - 1 \notin T
    BY <1>2, <1>3
  <1>5. x - 1 + 1 \in P
    BY <1>4
  <1> QED
    BY <1>3, <1>5

-----------------------------------------------------------------------------
(* f walks along link from first, and stays at the null pointer.           *)
IsPath(f, N, first, link, Nil) ==
  f = [i \in 0 .. N |-> IF i = 0 THEN first
                        ELSE IF f[i - 1] = Nil THEN Nil ELSE link[f[i - 1]]]

(* The walk along a list satisfies the equation of the walk functions ...  *)
LEMMA ListHasWalk ==
  ASSUME NEW N \in Nat, NEW Nil, NEW first, NEW link, NEW S, NEW q \in Seq(S),
         Len(q) <= N, IsList(q, first, link, Nil)
  PROVE  LET w == [i \in 0 .. N |-> IF i < Len(q) THEN q[i + 1] ELSE Nil]
         IN  w = [i \in 0 .. N |->
                    IF i = 0 THEN first
                    ELSE IF w[i - 1] = Nil THEN Nil ELSE link[w[i - 1]]]
  <1> DEFINE w == [i \in 0 .. N |-> IF i < Len(q) THEN q[i + 1] ELSE Nil]
  <1>0. Len(q) \in Nat
    OBVIOUS
  <1>1. ASSUME NEW i \in 0 .. N
        PROVE  w[i] = IF i = 0 THEN first
                      ELSE IF w[i - 1] = Nil THEN Nil ELSE link[w[i - 1]]
    <2>1. CASE i = 0
      <3>1. CASE Len(q) = 0
        BY <2>1, <3>1, <1>0 DEF IsList
      <3>2. CASE Len(q) # 0
        BY <2>1, <3>2, <1>0 DEF IsList
      <3> QED
        BY <3>1, <3>2
    <2>2. CASE i # 0 /\ i < Len(q)
      <3>1. i \in 1 .. Len(q) /\ i # Len(q)
        BY <1>0, <2>2
      <3>2. w[i - 1] = q[i] /\ q[i] # Nil /\ link[q[i]] = q[i + 1] /\ w[i] = q[i + 1]
        BY <1>0, <2>2, <3>1 DEF IsList
      <3> QED
        BY <2>2, <3>2
    <2>3. CASE i # 0 /\ i = Len(q)
      <3>1. w[i - 1] = q[i] /\ q[i] # Nil /\ link[q[i]] = Nil /\ w[i] = Nil
        BY <1>0, <2>3 DEF IsList
      <3> QED
        BY <2>3, <3>1
    <2>4. CASE i # 0 /\ i > Len(q)
      <3>1. w[i - 1] = Nil /\ w[i] = Nil
        BY <1>0, <2>4
      <3> QED
        BY <2>4, <3>1
    <2> QED
      BY <1>0, <2>1, <2>2, <2>3, <2>4
  <1> HIDE DEF w
  <1>2. w = [i \in 0 .. N |-> w[i]]
    BY DEF w
  <1>3. w = [i \in 0 .. N |->
               IF i = 0 THEN first
               ELSE IF w[i - 1] = Nil THEN Nil ELSE link[w[i - 1]]]
    BY <1>1, <1>2
  <1> QED
    BY <1>3 DEF w

(* ... and is the only function that does.                                 *)
LEMMA WalkOfList ==
  ASSUME NEW N \in Nat, NEW Nil, NEW first, NEW link, NEW S, NEW q \in Seq(S),
         Len(q) <= N, IsList(q, first, link, Nil), NEW f, IsPath(f, N, first, link, Nil)
  PROVE  f = [i \in 0 .. N |-> IF i < Len(q) THEN q[i + 1] ELSE Nil]
  <1> USE DEF IsPath
  <1> DEFINE w == [i \in 0 .. N |-> IF i < Len(q) THEN q[i + 1] ELSE Nil]
             P == {i \in 0 .. N : f[i] = w[i]}
  <1>1. w = [i \in 0 .. N |->
               IF i = 0 THEN first
               ELSE IF w[i - 1] = Nil THEN Nil ELSE link[w[i - 1]]]
    BY ListHasWalk
  <1> HIDE DEF w
  <1>2. 0 \in P
    <2>1. f[0] = first
      OBVIOUS
    <2>2. w[0] = first
      BY <1>1
    <2> QED
      BY <2>1, <2>2
  <1>3. \A i \in 0 .. N : i < N /\ i \in P => i + 1 \in P
    <2> SUFFICES ASSUME NEW i \in 0 .. N, i < N, f[i] = w[i]
                 PROVE  f[i + 1] = w[i + 1]
      OBVIOUS
    <2>0. i + 1 \in 0 .. N /\ i + 1 # 0 /\ i + 1 - 1 = i
      OBVIOUS
    <2>1. f[i + 1] = IF f[i] = Nil THEN Nil ELSE link[f[i]]
      BY <2>0
    <2>2. w[i + 1] = IF w[i] = Nil THEN Nil ELSE link[w[i]]
      BY <1>1, <2>0
    <2> QED
      BY <2>1, <2>2
  <1>4. 0 .. N \subseteq P
    <2> HIDE DEF P
    <2> QED
      BY <1>2, <1>3, UpTo
  <1>5. \A i \in 0 .. N : f[i] = w[i]
    BY <1>4
  <1>6. f = [i \in 0 .. N |-> f[i]] /\ w = [i \in 0 .. N |-> w[i]]
    BY <1>1
  <1>7. f = w
    BY <1>5, <1>6
  <1> QED
    BY <1>7 DEF w

(* How far the walk gets before it is at the null pointer, and where.      *)
LEMMA WalkCounts ==
  ASSUME NEW N \in Nat, NEW Nil, NEW S, NEW q \in Seq(S), Len(q) <= N,
         \A i \in 1 .. Len(q) : q[i] # Nil,
         NEW f, f = [i \in 0 .. N |-> IF i < Len(q) THEN q[i + 1] ELSE Nil]
  PROVE  /\ Cardinality({i \in DOMAIN f : f[i] # Nil}) = Len(q)
         /\ [i \in 1 .. Len(q) |-> f[i - 1]] = q
         /\ {f[i] : i \in DOMAIN f} \ {Nil} = Members(q)
  <1>0. Len(q) \in Nat /\ DOMAIN f = 0 .. N
    OBVIOUS
  <1>1. {i \in DOMAIN f : f[i] # Nil} = 0 .. (Len(q) - 1)
    <2>1. \A i \in 0 .. N : f[i] # Nil <=> i < Len(q)
      BY <1>0
    <2> QED
      BY <1>0, <2>1
  <1>2. Cardinality(0 .. (Len(q) - 1)) = Len(q)
    <2>1. 0 \in Int /\ Len(q) - 1 \in Int
      BY <1>0
    <2>2. Cardinality(0 .. (Len(q) - 1)) = IF 0 > Len(q) - 1 THEN 0 ELSE Len(q) - 1 - 0 + 1
      BY <2>1, FS_Interval
    <2> QED
      BY <1>0, <2>2
  <1>3. [i \in 1 .. Len(q) |-> f[i - 1]] = q
    <2>1. \A i \in 1 .. Len(q) : f[i - 1] = q[i]
      BY <1>0
    <2>2. q = [i \in 1 .. Len(q) |-> q[i]]
      OBVIOUS
    <2> QED
      BY <2>1, <2>2
  <1>4. {f[i] : i \in DOMAIN f} \ {Nil} = Members(q)
    <2>1. ASSUME NEW x \in Members(q) PROVE x \in {f[i] : i \in DOMAIN f} \ {Nil}
      <3>1. PICK i \in 1 .. Len(q) : x = q[i]
        BY DEF Members
      <3>2. i - 1 \in DOMAIN f /\ f[i - 1] = x /\ x # Nil
        BY <1>0, <3>1
      <3> QED
        BY <3>2
    <2>2. ASSUME NEW i \in DOMAIN f, f[i] # Nil PROVE f[i] \in Members(q)
      <3>1. i \in 0 .. N /\ i < Len(q) /\ f[i] = q[i + 1]
        BY <1>0, <2>2
      <3> QED
        BY <1>0, <3>1 DEF Members
    <2> QED
      BY <2>1, <2>2
  <1> QED
    BY <1>1, <1>2, <1>3, <1>4

-----------------------------------------------------------------------------
(* A sequence without repetitions is as long as its set is large.          *)
LEMMA DistinctLen ==
  ASSUME NEW S, NEW q \in Seq(S), Distinct(q)
  PROVE  /\ IsFiniteSet(Members(q)) /\ Cardinality(Members(q)) = Len(q)
         /\ Members(q) \subseteq S
  <1>1. q \in Bijection(1 .. Len(q), Members(q))
    <2>1. q \in [1 .. Len(q) -> Members(q)]
      BY DEF Members
    <2> QED
      BY <2>1 DEF Bijection, Injection, Surjection, IsInjective, Members, Distinct
  <1>2. ExistsBijection(1 .. Len(q), Members(q))
    BY <1>1 DEF ExistsBijection
  <1>3. IsFiniteSet(1 .. Len(q)) /\ Cardinality(1 .. Len(q)) = Len(q)
    <2>1. 1 \in Int /\ Len(q) \in Int /\ Len(q) \in Nat
      OBVIOUS
    <2>2. IsFiniteSet(1 .. Len(q))
          /\ Cardinality(1 .. Len(q)) = IF 1 > Len(q) THEN 0 ELSE Len(q) - 1 + 1
      BY <2>1, FS_Interval
    <2> QED
      BY <2>1, <2>2
  <1>4. IsFiniteSet(Members(q)) /\ Cardinality(Members(q)) = Len(q)
    BY <1>2, <1>3, FS_Bijection
  <1> QED
    BY <1>4 DEF Members

(* What a sequence without repetitions is with one more element ...        *)
LEMMA AppendDistinct ==
  ASSUME NEW S, NEW q \in Seq(S), NEW m \in S, Distinct(q), m \notin Members(q)
  PROVE  /\ Distinct(Append(q, m)) /\ Append(q, m) \in Seq(S)
         /\ Members(Append(q, m)) = Members(q) \cup {m}
         /\ Len(Append(q, m)) = Len(q) + 1
  <1> DEFINE r == Append(q, m)
  <1>1. Len(q) \in Nat /\ r \in Seq(S) /\ Len(r) = Len(q) + 1
    OBVIOUS
  <1>2. \A i \in 1 .. Len(q) : r[i] = q[i] /\ q[i] # m
    BY DEF Members
  <1>3. r[Len(r)] = m
    OBVIOUS
  <1>4. DOMAIN r = (1 .. Len(q)) \cup {Len(r)} /\ DOMAIN q = 1 .. Len(q)
    BY <1>1
  <1> HIDE DEF r
  <1>5. Distinct(r)
    BY <1>2, <1>3, <1>4 DEF Distinct
  <1>6. Members(r) = Members(q) \cup {m}
    BY ZenonT(60), <1>2, <1>3, <1>4 DEF Members
  <1> QED
    BY <1>1, <1>5, <1>6 DEF r

(* ... and without its first one.                                          *)
LEMMA TailDistinct ==
  ASSUME NEW S, NEW q \in Seq(S), q # << >>, Distinct(q)
  PROVE  /\ Distinct(Tail(q)) /\ Tail(q) \in Seq(S) /\ Len(Tail(q)) = Len(q) - 1
         /\ Members(Tail(q)) = Members(q) \ {Head(q)}
         /\ Head(q) \in Members(q) /\ Head(q) = q[1] /\ Head(q) \in S
  <1> DEFINE r == Tail(q)
  <1>1. /\ Len(q) \in Nat \ {0} /\ r \in Seq(S) /\ Len(r) = Len(q) - 1
        /\ \A i \in 1 .. Len(r) : r[i] = q[i + 1] /\ i + 1 \in 2 .. Len(q)
        /\ DOMAIN r = 1 .. Len(r) /\ DOMAIN q = 1 .. Len(q) /\ 1 \in 1 .. Len(q)
    <2>1. Len(q) \in Nat \ {0} /\ r \in Seq(S) /\ Len(r) = Len(q) - 1
      OBVIOUS
    <2>2. \A i \in 1 .. Len(r) : r[i] = q[i + 1]
      OBVIOUS
    <2>3. DOMAIN r = 1 .. Len(r) /\ DOMAIN q = 1 .. Len(q)
      BY <2>1
    <2> HIDE DEF r
    <2> QED
      BY <2>1, <2>2, <2>3
  <1> HIDE DEF r
  <1>2. Distinct(r)
    <2> SUFFICES ASSUME NEW i \in 1 .. Len(r), NEW j \in 1 .. Len(r), r[i] = r[j]
                 PROVE  i = j
      BY <1>1 DEF Distinct
    <2>1. i + 1 \in DOMAIN q /\ j + 1 \in DOMAIN q /\ q[i + 1] = q[j + 1]
      BY <1>1
    <2>2. i + 1 = j + 1
      BY <2>1 DEF Distinct
    <2> QED
      BY <2>2
  <1>3. Members(r) = Members(q) \ {q[1]}
    <2>1. ASSUME NEW x \in Members(r) PROVE x \in Members(q) \ {q[1]}
      <3>1. PICK i \in 1 .. Len(r) : x = r[i]
        BY <1>1 DEF Members
      <3>2. i + 1 \in DOMAIN q /\ x = q[i + 1] /\ i + 1 # 1 /\ 1 \in DOMAIN q
        BY <1>1, <3>1
      <3> QED
        BY <3>2 DEF Members, Distinct
    <2>2. ASSUME NEW x \in Members(q) \ {q[1]} PROVE x \in Members(r)
      <3>1. PICK i \in 1 .. Len(q) : x = q[i]
        BY <1>1 DEF Members
      <3>2. i - 1 \in 1 .. Len(r) /\ i - 1 + 1 = i
        BY <1>1, <3>1
      <3>3. r[i - 1] = x
        BY <1>1, <3>1, <3>2
      <3> QED
        BY <1>1, <3>2, <3>3 DEF Members
    <2> QED
      BY <2>1, <2>2
  <1>4. Head(q) = q[1] /\ q[1] \in S
    OBVIOUS
  <1>5. q[1] \in Members(q)
    BY <1>1 DEF Members
  <1> QED
    BY <1>1, <1>2, <1>3, <1>4, <1>5 DEF r

(* Append and Tail written out, place by place.                            *)
LEMMA AppendIs ==
  ASSUME NEW S, NEW q \in Seq(S), NEW m \in S
  PROVE  Append(q, m) = [i \in 1 .. Len(q) + 1 |-> IF i = Len(q) + 1 THEN m ELSE q[i]]
  <1> DEFINE r == Append(q, m)
  <1>1. r \in Seq(S) /\ Len(r) = Len(q) + 1 /\ Len(q) \in Nat
    OBVIOUS
  <1>2. \A i \in 1 .. Len(q) : r[i] = q[i]
    OBVIOUS
  <1>3. r[Len(q) + 1] = m
    OBVIOUS
  <1> HIDE DEF r
  <1>4. r = [i \in 1 .. Len(q) + 1 |-> r[i]]
    BY <1>1
  <1>5. \A i \in 1 .. Len(q) + 1 : r[i] = IF i = Len(q) + 1 THEN m ELSE q[i]
    BY <1>1, <1>2, <1>3
  <1>6. r = [i \in 1 .. Len(q) + 1 |-> IF i = Len(q) + 1 THEN m ELSE q[i]]
    BY <1>4, <1>5
  <1> QED
    BY <1>6 DEF r

(* The same of Tail.                                                       *)
LEMMA TailIs ==
  ASSUME NEW S, NEW q \in Seq(S), q # << >>
  PROVE  Tail(q) = [i \in 1 .. Len(q) - 1 |-> q[i + 1]]
  <1> DEFINE r == Tail(q)
  <1>1. r \in Seq(S) /\ Len(r) = Len(q) - 1 /\ Len(q) \in Nat
    OBVIOUS
  <1>2. \A i \in 1 .. Len(r) : r[i] = q[i + 1]
    OBVIOUS
  <1> HIDE DEF r
  <1>3. r = [i \in 1 .. Len(q) - 1 |-> r[i]]
    BY <1>1
  <1>4. r = [i \in 1 .. Len(q) - 1 |-> q[i + 1]]
    BY <1>1, <1>2, <1>3
  <1> QED
    BY <1>4 DEF r

(* An element is put behind the last one.                                  *)
LEMMA ListAppend ==
  ASSUME NEW S, NEW q \in Seq(S), NEW Nil, NEW first, NEW link, NEW m \in S, NEW link_2,
         IsList(q, first, link, Nil), Distinct(q), m \notin Members(q), m # Nil,
         link_2[m] = Nil, q # << >> => link_2[q[Len(q)]] = m,
         \A i \in 1 .. Len(q) - 1 : link_2[q[i]] = link[q[i]]
  PROVE  /\ IsList(Append(q, m), IF first = Nil THEN m ELSE first, link_2, Nil)
         /\ Distinct(Append(q, m)) /\ Append(q, m) \in Seq(S)
         /\ Members(Append(q, m)) = Members(q) \cup {m}
  <1> DEFINE r == Append(q, m)
  <1>0. /\ Len(q) \in Nat /\ r \in Seq(S) /\ Len(r) = Len(q) + 1 /\ r # << >>
        /\ \A i \in 1 .. Len(q) : r[i] = q[i] /\ i # Len(r)
        /\ r[Len(r)] = m
        /\ DOMAIN r = (1 .. Len(q)) \cup {Len(r)} /\ DOMAIN q = 1 .. Len(q)
    <2>1. Len(q) \in Nat /\ r \in Seq(S) /\ Len(r) = Len(q) + 1
      OBVIOUS
    <2>2. \A i \in 1 .. Len(q) : r[i] = q[i]
      OBVIOUS
    <2>3. r[Len(q) + 1] = m
      OBVIOUS
    <2>4. DOMAIN r = 1 .. Len(r) /\ DOMAIN q = 1 .. Len(q)
      BY <2>1
    <2> HIDE DEF r
    <2> QED
      BY <2>1, <2>2, <2>3, <2>4
  <1> HIDE DEF r
  <1>1. (IF first = Nil THEN m ELSE first) = r[1]
    <2>1. CASE q = << >>
      BY <1>0, <2>1 DEF IsList
    <2>2. CASE q # << >>
      <3>1. 1 \in 1 .. Len(q)
        BY <1>0, <2>2
      <3>2. first = q[1] /\ q[1] # Nil
        BY <2>2, <3>1 DEF IsList
      <3> QED
        BY <1>0, <3>1, <3>2
    <2> QED
      BY <2>1, <2>2
  <1>2. ASSUME NEW i \in 1 .. Len(r)
        PROVE  r[i] # Nil /\ link_2[r[i]] = IF i = Len(r) THEN Nil ELSE r[i + 1]
    <2>1. CASE i = Len(r)
      BY <1>0, <2>1
    <2>0. Len(q) \in Nat /\ Len(r) = Len(q) + 1
      BY <1>0
    <2>2. CASE i = Len(q)
      <3>1. i \in 1 .. Len(q) /\ q # << >> /\ i # Len(r) /\ i + 1 = Len(r)
        BY <2>0, <2>2
      <3>2. r[i] = q[i] /\ q[i] # Nil
        BY <1>0, <3>1 DEF IsList
      <3> QED
        BY <1>0, <2>2, <3>1, <3>2
    <2>3. CASE i < Len(q)
      <3>1. i \in 1 .. Len(q) /\ i \in 1 .. Len(q) - 1 /\ i # Len(r) /\ i # Len(q)
            /\ i + 1 \in 1 .. Len(q)
        BY ONLY <2>0, <2>3, i \in 1 .. Len(r)
      <3>2. q[i] # Nil /\ link[q[i]] = q[i + 1]
        BY <3>1 DEF IsList
      <3>3. r[i] = q[i] /\ r[i + 1] = q[i + 1] /\ link_2[q[i]] = link[q[i]]
        BY <1>0, <3>1
      <3> QED
        BY <3>1, <3>2, <3>3
    <2>4. i = Len(r) \/ i = Len(q) \/ i < Len(q)
      BY <2>0
    <2> QED
      BY <2>1, <2>2, <2>3, <2>4
  <1>3. IsList(r, IF first = Nil THEN m ELSE first, link_2, Nil)
    BY <1>0, <1>1, <1>2 DEF IsList
  <1> QED
    BY <1>3, AppendDistinct DEF r

(* The first element is taken off; its own link may change then.           *)
LEMMA ListTail ==
  ASSUME NEW S, NEW q \in Seq(S), NEW Nil, NEW first, NEW link, NEW link_2,
         IsList(q, first, link, Nil), Distinct(q), first # Nil,
         \A i \in 2 .. Len(q) : link_2[q[i]] = link[q[i]]
  PROVE  /\ q # << >> /\ q[1] = first
         /\ IsList(Tail(q), link[first], link_2, Nil)
         /\ Distinct(Tail(q)) /\ Tail(q) \in Seq(S)
         /\ Members(Tail(q)) = Members(q) \ {first} /\ first \in Members(q)
  <1> DEFINE r == Tail(q)
  <1>0. q # << >> /\ first = q[1]
    BY DEF IsList
  <1>1. /\ Len(q) \in Nat \ {0} /\ r \in Seq(S) /\ Len(r) = Len(q) - 1
        /\ \A i \in 1 .. Len(r) : r[i] = q[i + 1] /\ i + 1 \in 2 .. Len(q)
        /\ DOMAIN r = 1 .. Len(r) /\ DOMAIN q = 1 .. Len(q) /\ 1 \in 1 .. Len(q)
        /\ (r = << >> <=> Len(q) = 1)
    <2>1. Len(q) \in Nat \ {0} /\ r \in Seq(S) /\ Len(r) = Len(q) - 1
      BY <1>0
    <2>2. \A i \in 1 .. Len(r) : r[i] = q[i + 1]
      BY <1>0
    <2>3. DOMAIN r = 1 .. Len(r) /\ DOMAIN q = 1 .. Len(q) /\ (r = << >> <=> Len(r) = 0)
      BY SMTT(60), <2>1
    <2> HIDE DEF r
    <2> QED
      BY <2>1, <2>2, <2>3
  <1> HIDE DEF r
  <1>2. link[first] = IF r = << >> THEN Nil ELSE r[1]
    <2>1. link[q[1]] = IF 1 = Len(q) THEN Nil ELSE q[2]
      BY <1>1 DEF IsList
    <2>2. CASE Len(q) = 1
      BY <1>0, <1>1, <2>1, <2>2
    <2>3. CASE Len(q) # 1
      <3>1. 1 \in 1 .. Len(r)
        BY <1>1, <2>3
      <3> QED
        BY <1>0, <1>1, <2>1, <2>3, <3>1
    <2> QED
      BY <2>2, <2>3
  <1>3. ASSUME NEW i \in 1 .. Len(r)
        PROVE  r[i] # Nil /\ link_2[r[i]] = IF i = Len(r) THEN Nil ELSE r[i + 1]
    <2>1. i + 1 \in 1 .. Len(q) /\ i + 1 \in 2 .. Len(q) /\ r[i] = q[i + 1]
      BY <1>1
    <2>2. r[i] # Nil /\ link_2[r[i]] = IF i + 1 = Len(q) THEN Nil ELSE q[i + 1 + 1]
      BY <2>1 DEF IsList
    <2>3. i # Len(r) => i + 1 \in 1 .. Len(r) /\ r[i + 1] = q[i + 1 + 1]
      BY <1>1
    <2> QED
      BY <1>1, <2>2, <2>3
  <1>4. IsList(r, link[first], link_2, Nil)
    BY <1>2, <1>3 DEF IsList
  <1> QED
    BY <1>0, <1>4, TailDistinct DEF r

(* An element is put before the first one.                                 *)
LEMMA ListPush ==
  ASSUME NEW S, NEW q \in Seq(S), NEW Nil, NEW first, NEW link, NEW m \in S, NEW link_2,
         IsList(q, first, link, Nil), Distinct(q), m \notin Members(q), m # Nil,
         link_2[m] = first,
         \A i \in 1 .. Len(q) : link_2[q[i]] = link[q[i]]
  PROVE  /\ IsList(<<m>> \o q, m, link_2, Nil)
         /\ Distinct(<<m>> \o q) /\ <<m>> \o q \in Seq(S)
         /\ Members(<<m>> \o q) = Members(q) \cup {m}
         /\ Len(<<m>> \o q) = Len(q) + 1
  <1> DEFINE r == <<m>> \o q
  <1>0. /\ Len(q) \in Nat /\ r \in Seq(S) /\ Len(r) = Len(q) + 1 /\ r # << >>
        /\ \A i \in 2 .. Len(r) : r[i] = q[i - 1] /\ i - 1 \in 1 .. Len(q)
        /\ r[1] = m /\ DOMAIN r = 1 .. Len(r) /\ DOMAIN q = 1 .. Len(q)
    OBVIOUS
  <1> HIDE DEF r
  <1>1. ASSUME NEW i \in 1 .. Len(r)
        PROVE  r[i] # Nil /\ link_2[r[i]] = IF i = Len(r) THEN Nil ELSE r[i + 1]
    <2>1. CASE i = 1 /\ Len(q) = 0
      BY <1>0, <2>1 DEF IsList
    <2>2. CASE i = 1 /\ Len(q) # 0
      <3>1. first = q[1] /\ 2 \in 2 .. Len(r)
        BY <1>0, <2>2 DEF IsList
      <3> QED
        BY <1>0, <2>2, <3>1
    <2>3. CASE i # 1
      <3>1. i \in 2 .. Len(r) /\ i - 1 \in 1 .. Len(q) /\ r[i] = q[i - 1]
        BY <1>0, <2>3
      <3>2. q[i - 1] # Nil /\ link_2[q[i - 1]] = IF i - 1 = Len(q) THEN Nil ELSE q[i - 1 + 1]
        BY <3>1 DEF IsList
      <3>3. i # Len(r) => r[i + 1] = q[i - 1 + 1]
        BY SMTT(60), <1>0, <3>1
      <3> QED
        BY <1>0, <3>1, <3>2, <3>3
    <2> QED
      BY <1>0, <2>1, <2>2, <2>3
  <1>2. IsList(r, m, link_2, Nil)
    BY <1>0, <1>1 DEF IsList
  <1>3. \A i \in 1 .. Len(q) : q[i] # m
    BY <1>0 DEF Members
  <1>4. Distinct(r)
    <2> SUFFICES ASSUME NEW i \in 1 .. Len(r), NEW j \in 1 .. Len(r), r[i] = r[j]
                 PROVE  i = j
      BY <1>0 DEF Distinct
    <2>1. CASE i = 1 \/ j = 1
      BY <1>0, <1>3, <2>1
    <2>2. CASE i # 1 /\ j # 1
      <3>1. i - 1 \in DOMAIN q /\ j - 1 \in DOMAIN q /\ q[i - 1] = q[j - 1]
        BY <1>0, <2>2
      <3>2. i - 1 = j - 1
        BY <3>1 DEF Distinct
      <3> QED
        BY <3>2
    <2> QED
      BY <2>1, <2>2
  <1>5. Members(r) = Members(q) \cup {m}
    <2>1. ASSUME NEW x \in Members(r) PROVE x \in Members(q) \cup {m}
      <3>1. PICK i \in 1 .. Len(r) : x = r[i]
        BY <1>0, <2>1 DEF Members
      <3>2. CASE i = 1
        BY <1>0, <3>1, <3>2
      <3>3. CASE i # 1
        <4>1. i - 1 \in DOMAIN q /\ x = q[i - 1]
          BY <1>0, <3>1, <3>3
        <4> QED
          BY <4>1 DEF Members
      <3> QED
        BY <3>2, <3>3
    <2>2. ASSUME NEW x \in Members(q) PROVE x \in Members(r)
      <3>1. PICK i \in 1 .. Len(q) : x = q[i]
        BY <1>0 DEF Members
      <3>2. i + 1 \in DOMAIN r /\ r[i + 1] = q[i]
        BY <1>0
      <3> QED
        BY <3>1, <3>2 DEF Members
    <2>3. m \in Members(r)
      BY <1>0 DEF Members
    <2> QED
      BY <2>1, <2>2, <2>3
  <1> QED
    BY <1>0, <1>2, <1>4, <1>5 DEF r

-----------------------------------------------------------------------------
(* f walks N steps along link and never stops, as along a ring.            *)
IsWalk(f, N, first, link) ==
  f = [i \in 0 .. N |-> IF i = 0 THEN first ELSE link[f[i - 1]]]

(* There is a function that walks ...                                      *)
LEMMA WalkExists ==
  ASSUME NEW N \in Nat, NEW first, NEW link
  PROVE  \E f : IsWalk(f, N, first, link)
  <1> USE DEF IsWalk
  <1> DEFINE P == {n \in 0 .. N : \E f : IsWalk(f, n, first, link)}
  <1>1. 0 \in P
    <2> DEFINE f == [i \in 0 .. 0 |-> first]
    <2>1. f = [i \in 0 .. 0 |-> IF i = 0 THEN first ELSE link[f[i - 1]]]
      OBVIOUS
    <2> HIDE DEF f
    <2> QED
      BY <2>1
  <1>2. ASSUME NEW n \in 0 .. N, n < N, n \in P PROVE n + 1 \in P
    <2>1. PICK f : f = [i \in 0 .. n |-> IF i = 0 THEN first ELSE link[f[i - 1]]]
      BY <1>2
    <2> DEFINE g == [i \in 0 .. n + 1 |-> IF i = n + 1 THEN link[f[n]] ELSE f[i]]
    <2>2. ASSUME NEW i \in 0 .. n + 1
          PROVE  g[i] = IF i = 0 THEN first ELSE link[g[i - 1]]
      <3>1. CASE i = n + 1
        <4>1. i # 0 /\ i - 1 = n /\ n \in 0 .. n + 1 /\ n # n + 1
          BY <3>1
        <4> QED
          BY <3>1, <4>1
      <3>2. CASE i # n + 1 /\ i = 0
        <4>1. i \in 0 .. n
          BY <3>2
        <4> QED
          BY <2>1, <3>2, <4>1
      <3>3. CASE i # n + 1 /\ i # 0
        <4>1. i \in 0 .. n /\ i - 1 \in 0 .. n + 1 /\ i - 1 # n + 1
          BY <3>3
        <4>2. f[i] = link[f[i - 1]]
          BY <2>1, <3>3, <4>1
        <4> QED
          BY <3>3, <4>1, <4>2
      <3> QED
        BY <3>1, <3>2, <3>3
    <2>3. g = [i \in 0 .. n + 1 |-> g[i]]
      OBVIOUS
    <2> HIDE DEF g
    <2>4. g = [i \in 0 .. n + 1 |-> IF i = 0 THEN first ELSE link[g[i - 1]]]
      BY <2>2, <2>3
    <2>5. n + 1 \in 0 .. N
      BY <1>2
    <2> QED
      BY <2>4, <2>5
  <1>3. 0 .. N \subseteq P
    <2> HIDE DEF P
    <2> QED
      BY <1>1, <1>2, UpTo
  <1>4. N \in P
    BY <1>3
  <1> QED
    BY <1>4

(* ... and after as many steps as there are elements it is at no new one:  *)
(* what it met is closed under the link.                                   *)
LEMMA WalkCloses ==
  ASSUME NEW S, IsFiniteSet(S), NEW first \in S, NEW link, \A v \in S : link[v] \in S,
         NEW f, IsWalk(f, Cardinality(S), first, link)
  PROVE  LET met == {f[i] : i \in 1 .. Cardinality(S)}
         IN  /\ met \subseteq S /\ link[first] \in met
             /\ \A v \in met : link[v] \in met
  <1> DEFINE N == Cardinality(S)
             met == {f[i] : i \in 1 .. N}
  <1>0. N \in Nat \ {0}
    <2>1. N \in Nat /\ (N = 0 <=> S = {})
      BY FS_CardinalityType, FS_EmptySet
    <2> QED
      BY <2>1
  <1> HIDE DEF N
  <1>1. f[0] = first /\ \A i \in 1 .. N : f[i] = link[f[i - 1]]
    <2>1. 0 .. N = {0} \cup (1 .. N) /\ 0 \notin 1 .. N
      BY <1>0
    <2>2. f = [i \in 0 .. N |-> IF i = 0 THEN first ELSE link[f[i - 1]]]
      BY DEF N, IsWalk
    <2> QED
      BY <2>1, <2>2
  <1>2. 0 .. N \subseteq {i \in 0 .. N : f[i] \in S}
    <2> DEFINE P == {i \in 0 .. N : f[i] \in S}
    <2>1. 0 \in P
      BY <1>0, <1>1
    <2>2. \A i \in 0 .. N : i < N /\ i \in P => i + 1 \in P
      <3> SUFFICES ASSUME NEW i \in 0 .. N, i < N, f[i] \in S PROVE f[i + 1] \in S
        BY <1>0
      <3>1. i + 1 \in 1 .. N /\ i + 1 - 1 = i
        BY <1>0
      <3> QED
        BY <1>1, <3>1
    <2> HIDE DEF P
    <2>3. 0 .. N \subseteq P
      BY <1>0, <2>1, <2>2, UpTo
    <2> QED
      BY <2>3 DEF P
  <1>3. f \in [0 .. N -> S]
    <2>1. f = [i \in 0 .. N |-> f[i]]
      BY DEF N, IsWalk
    <2> QED
      BY <1>2, <2>1
  <1>4. PICK j \in 0 .. N, k \in 0 .. N : j < k /\ f[j] = f[k]
    <2>1. Cardinality(0 .. N) = N + 1 /\ IsFiniteSet(0 .. N)
      <3>1. 0 \in Int /\ N \in Int
        BY <1>0
      <3>2. Cardinality(0 .. N) = (IF 0 > N THEN 0 ELSE N - 0 + 1) /\ IsFiniteSet(0 .. N)
        BY <3>1, FS_Interval
      <3> QED
        BY <1>0, <3>2
    <2>2. ~ \E g \in [0 .. N -> S] : IsInjective(g)
      <3> SUFFICES ASSUME NEW g \in [0 .. N -> S], IsInjective(g) PROVE FALSE
        OBVIOUS
      <3>1. g \in Injection(0 .. N, S)
        BY DEF Injection
      <3>2. Cardinality(0 .. N) <= Cardinality(S)
        BY <3>1, FS_Injection DEF ExistsInjection
      <3> QED
        BY <1>0, <2>1, <3>2 DEF N
    <2>3. PICK a \in 0 .. N, b \in 0 .. N : f[a] = f[b] /\ a # b
      BY <1>3, <2>2 DEF IsInjective
    <2>4. a < b \/ b < a
      BY <1>0, <2>3
    <2> QED
      BY <2>3, <2>4
  <1> DEFINE d == k - j
             M == N - k
  <1>5. M \in Nat /\ d \in 1 .. N /\ k = j + d
    BY <1>0, <1>4
  <1>6. 0 .. M \subseteq {n \in 0 .. M : f[j + n] = f[k + n]}
    <2> DEFINE P == {n \in 0 .. M : f[j + n] = f[k + n]}
    <2>1. 0 \in P
      BY <1>4, <1>5
    <2>2. \A n \in 0 .. M : n < M /\ n \in P => n + 1 \in P
      <3> SUFFICES ASSUME NEW n \in 0 .. M, n < M, f[j + n] = f[k + n]
                   PROVE  f[j + (n + 1)] = f[k + (n + 1)]
        BY <1>5
      <3>1. /\ j + (n + 1) \in 1 .. N /\ k + (n + 1) \in 1 .. N
            /\ j + (n + 1) - 1 = j + n /\ k + (n + 1) - 1 = k + n
        BY <1>0, <1>4, <1>5
      <3>2. PICK a \in 1 .. N, b \in 1 .. N : /\ a = j + (n + 1) /\ a - 1 = j + n
                                              /\ b = k + (n + 1) /\ b - 1 = k + n
        BY <3>1
      <3>3. f[a] = link[f[j + n]] /\ f[b] = link[f[k + n]]
        BY <1>1, <3>2
      <3>4. f[a] = f[b]
        BY <3>3
      <3> QED
        BY <3>2, <3>4
    <2> HIDE DEF P, M, d
    <2>3. 0 .. M \subseteq P
      BY <1>5, <2>1, <2>2, UpTo
    <2> QED
      BY <2>3 DEF P
  <1>7. f[N - d] = f[N] /\ N - d + 1 \in 1 .. N /\ N - d \in 0 .. N
    <2>1. M \in 0 .. M /\ j + M = N - d /\ k + M = N
      BY <1>0, <1>5
    <2> HIDE DEF M, d
    <2>2. f[j + M] = f[k + M]
      BY <1>6, <2>1
    <2> QED
      BY <1>0, <1>5, <2>1, <2>2
  <1> HIDE DEF d, M
  <1>8. met \subseteq S
    <2>1. \A i \in 1 .. N : i \in 0 .. N
      BY <1>0
    <2> QED
      BY <1>3, <2>1
  <1>9. link[first] \in met
    <2>1. 1 \in 1 .. N /\ 1 - 1 = 0
      BY <1>0
    <2> QED
      BY <1>1, <2>1
  <1>10. ASSUME NEW i \in 1 .. N PROVE link[f[i]] \in met
    <2>1. CASE i < N
      <3>1. i + 1 \in 1 .. N /\ i + 1 - 1 = i
        BY <1>0, <2>1
      <3>2. f[i + 1] = link[f[i + 1 - 1]]
        BY <1>1, <3>1
      <3>3. f[i + 1] = link[f[i]]
        BY <3>1, <3>2
      <3> QED
        BY <3>1, <3>3
    <2>2. CASE i = N
      <3>1. N - d + 1 - 1 = N - d
        BY <1>0, <1>5
      <3>2. PICK a \in 1 .. N : a = N - d + 1 /\ a - 1 = N - d
        BY <1>7, <3>1
      <3>3. f[a] = link[f[N]]
        BY <1>1, <1>7, <3>2
      <3> QED
        BY <2>2, <3>3
    <2> QED
      BY <1>0, <2>1, <2>2
  <1> QED
    BY <1>8, <1>9, <1>10 DEF N

-----------------------------------------------------------------------------
(* The list that starts at first has exactly the elements of M.  What the  *)
(* order of the list does not matter for is said with this predicate.      *)
IsChain(first, link, Nil, S, M) ==
  \E q \in Seq(S) : IsList(q, first, link, Nil) /\ Distinct(q) /\ Members(q) = M

(* A chain begins and goes on among its elements, and never back to the    *)
(* first or to the element itself.                                         *)
LEMMA ChainFacts ==
  ASSUME NEW S, NEW M, NEW Nil, NEW first, NEW link, IsChain(first, link, Nil, S, M)
  PROVE  /\ IsFiniteSet(M) /\ M \subseteq S /\ Nil \notin M
         /\ (first = Nil <=> M = {}) /\ (first # Nil => first \in M)
         /\ \A x \in M : link[x] \in (M \cup {Nil}) \ {x, first}
  <1>1. PICK q \in Seq(S) : IsList(q, first, link, Nil) /\ Distinct(q) /\ Members(q) = M
    BY DEF IsChain
  <1>2. IsFiniteSet(M) /\ M \subseteq S
    BY <1>1, DistinctLen
  <1>3. /\ Len(q) \in Nat /\ DOMAIN q = 1 .. Len(q)
        /\ \A i \in 1 .. Len(q) : q[i] \in M /\ q[i] # Nil
        /\ \A x \in M : \E i \in 1 .. Len(q) : x = q[i]
    BY <1>1 DEF Members, IsList
  <1>4. first = IF q = << >> THEN Nil ELSE q[1]
    BY <1>1 DEF IsList
  <1>5. q # << >> => 1 \in 1 .. Len(q)
    BY <1>3
  <1>6. q = << >> => M = {}
    BY <1>3
  <1>7. ASSUME NEW x \in M PROVE link[x] \in (M \cup {Nil}) \ {x, first}
    <2>1. PICK i \in 1 .. Len(q) : x = q[i]
      BY <1>3
    <2>2. link[q[i]] = IF i = Len(q) THEN Nil ELSE q[i + 1]
      BY <1>1 DEF IsList
    <2>3. q # << >> /\ first = q[1] /\ 1 \in 1 .. Len(q)
      BY <1>3, <1>4, <1>5, <2>1
    <2>4. CASE i = Len(q)
      BY <1>3, <2>1, <2>2, <2>3, <2>4
    <2>5. CASE i # Len(q)
      <3>0. i + 1 \in 1 .. Len(q) /\ i + 1 # i /\ i + 1 # 1
        <4>1. Len(q) \in Nat
          BY <1>3
        <4> QED
          BY <2>5, <4>1
      <3>1. PICK j \in 1 .. Len(q) : j = i + 1 /\ j # i /\ j # 1
        BY <3>0
      <3>2. link[x] = q[j] /\ q[j] # q[i] /\ q[j] # q[1]
        BY <1>1, <1>3, <2>1, <2>2, <2>3, <2>5, <3>1 DEF Distinct
      <3> QED
        BY <1>3, <2>1, <2>3, <3>2
    <2> QED
      BY <2>4, <2>5
  <1> QED
    BY <1>2, <1>3, <1>4, <1>5, <1>6, <1>7

(* The empty chain; a chain with an element put before its first one; and  *)
(* a chain without its first one.                                          *)
LEMMA ChainEmpty ==
  ASSUME NEW S, NEW Nil, NEW link
  PROVE  IsChain(Nil, link, Nil, S, {})
  <1>1. /\ << >> \in Seq(S) /\ IsList(<< >>, Nil, link, Nil)
        /\ Distinct(<< >>) /\ Members(<< >>) = {}
    BY DEF IsList, Distinct, Members
  <1> QED
    BY <1>1 DEF IsChain

(* Links of other elements do not matter.                                  *)
LEMMA ChainSame ==
  ASSUME NEW S, NEW M, NEW Nil, NEW first, NEW link, NEW link_2,
         IsChain(first, link, Nil, S, M), \A x \in M : link_2[x] = link[x]
  PROVE  IsChain(first, link_2, Nil, S, M)
  <1>1. PICK q \in Seq(S) : IsList(q, first, link, Nil) /\ Distinct(q) /\ Members(q) = M
    BY DEF IsChain
  <1>2. \A i \in 1 .. Len(q) : link_2[q[i]] = link[q[i]]
    BY <1>1 DEF Members
  <1>3. IsList(q, first, link_2, Nil)
    BY <1>1, <1>2 DEF IsList
  <1> QED
    BY <1>1, <1>3 DEF IsChain

(* An element put before the first one of a chain.                         *)
LEMMA ChainPush ==
  ASSUME NEW S, NEW M, NEW Nil, NEW first, NEW link, NEW m \in S, NEW link_2,
         IsChain(first, link, Nil, S, M), m \notin M, m # Nil,
         link_2[m] = first, \A x \in M : link_2[x] = link[x]
  PROVE  IsChain(m, link_2, Nil, S, M \cup {m})
  <1>1. PICK q \in Seq(S) : IsList(q, first, link, Nil) /\ Distinct(q) /\ Members(q) = M
    BY DEF IsChain
  <1>2. \A i \in 1 .. Len(q) : link_2[q[i]] = link[q[i]]
    BY <1>1 DEF Members
  <1>3. /\ IsList(<<m>> \o q, m, link_2, Nil) /\ Distinct(<<m>> \o q)
        /\ <<m>> \o q \in Seq(S) /\ Members(<<m>> \o q) = M \cup {m}
    BY <1>1, <1>2, ListPush
  <1> QED
    BY <1>3 DEF IsChain

(* The first element taken off a chain.                                    *)
LEMMA ChainPop ==
  ASSUME NEW S, NEW M, NEW Nil, NEW first, NEW link, NEW link_2,
         IsChain(first, link, Nil, S, M), first # Nil,
         \A x \in M \ {first} : link_2[x] = link[x]
  PROVE  IsChain(link[first], link_2, Nil, S, M \ {first}) /\ first \in M
  <1>1. PICK q \in Seq(S) : IsList(q, first, link, Nil) /\ Distinct(q) /\ Members(q) = M
    BY DEF IsChain
  <1>2. \A i \in 2 .. Len(q) : link_2[q[i]] = link[q[i]]
    <2> SUFFICES ASSUME NEW i \in 2 .. Len(q) PROVE link_2[q[i]] = link[q[i]]
      OBVIOUS
    <2>1. i \in 1 .. Len(q) /\ 1 \in 1 .. Len(q) /\ i # 1 /\ DOMAIN q = 1 .. Len(q)
      BY <1>1
    <2>2. first = q[1]
      BY <1>1 DEF IsList
    <2>3. q[i] \in M /\ q[i] # q[1]
      BY <1>1, <2>1 DEF Members, Distinct
    <2> QED
      BY <2>2, <2>3
  <1>3. /\ IsList(Tail(q), link[first], link_2, Nil) /\ Distinct(Tail(q))
        /\ Tail(q) \in Seq(S) /\ Members(Tail(q)) = M \ {first} /\ first \in M
    BY <1>1, <1>2, ListTail
  <1> QED
    BY <1>3 DEF IsChain

(* The second element is unlinked.                                         *)
LEMMA ChainSkip ==
  ASSUME NEW S, NEW M, NEW Nil, NEW first, NEW link, NEW m, NEW link_2,
         IsChain(first, link, Nil, S, M), first # Nil, m # Nil, link[first] = m,
         link_2[first] = link[m], \A x \in M \ {first, m} : link_2[x] = link[x]
  PROVE  IsChain(first, link_2, Nil, S, M \ {m})
  <1>1. IsChain(m, link, Nil, S, M \ {first}) /\ first \in M /\ first \in S
    BY ZenonT(60), ChainPop, ChainFacts
  <1>2. IsChain(link[m], link_2, Nil, S, (M \ {first}) \ {m}) /\ m \in M \ {first}
    <2>1. \A x \in (M \ {first}) \ {m} : link_2[x] = link[x]
      OBVIOUS
    <2> QED
      BY <1>1, <2>1, ChainPop
  <1>3. IsChain(first, link_2, Nil, S, ((M \ {first}) \ {m}) \cup {first})
    BY <1>1, <1>2, ChainPush
  <1>4. ((M \ {first}) \ {m}) \cup {first} = M \ {m}
    BY <1>1, <1>2
  <1> QED
    BY <1>3, <1>4

(* The function that walks along a chain exists, and meets exactly the     *)
(* elements of the chain when it goes as far as there are elements.        *)
LEMMA ChainPath ==
  ASSUME NEW N \in Nat, NEW S, NEW M, NEW Nil, NEW first, NEW link,
         IsChain(first, link, Nil, S, M), Cardinality(M) <= N
  PROVE  /\ \E f : IsPath(f, N, first, link, Nil)
         /\ \A f : IsPath(f, N, first, link, Nil) =>
              {f[i] : i \in 0 .. N} \ {Nil} = M /\ DOMAIN f = 0 .. N
  <1>1. PICK q \in Seq(S) : IsList(q, first, link, Nil) /\ Distinct(q) /\ Members(q) = M
    BY DEF IsChain
  <1>2. Len(q) <= N /\ \A i \in 1 .. Len(q) : q[i] # Nil
    BY <1>1, DistinctLen DEF IsList
  <1> DEFINE w == [i \in 0 .. N |-> IF i < Len(q) THEN q[i + 1] ELSE Nil]
  <1>3. IsPath(w, N, first, link, Nil)
    <2>1. w = [i \in 0 .. N |->
                 IF i = 0 THEN first
                 ELSE IF w[i - 1] = Nil THEN Nil ELSE link[w[i - 1]]]
      BY <1>1, <1>2, ListHasWalk
    <2> HIDE DEF w
    <2> QED
      BY <2>1 DEF IsPath
  <1>4. ASSUME NEW f, IsPath(f, N, first, link, Nil)
        PROVE  {f[i] : i \in 0 .. N} \ {Nil} = M /\ DOMAIN f = 0 .. N
    <2>1. f = [i \in 0 .. N |-> IF i < Len(q) THEN q[i + 1] ELSE Nil]
      <3> HIDE DEF w
      <3> QED
        BY <1>1, <1>2, <1>4, WalkOfList
    <2>2. {f[i] : i \in DOMAIN f} \ {Nil} = Members(q) /\ DOMAIN f = 0 .. N
      <3> HIDE DEF w
      <3> QED
        BY <1>2, <2>1, WalkCounts
    <2> QED
      BY <1>1, <2>2
  <1> HIDE DEF w
  <1> QED
    BY <1>3, <1>4

-----------------------------------------------------------------------------
(* q without its k-th element.                                             *)
Omit(q, k) == [i \in 1 .. Len(q) - 1 |-> IF i < k THEN q[i] ELSE q[i + 1]]

(* What is left is without repetitions, and has lost that element only.    *)
LEMMA OmitDistinct ==
  ASSUME NEW S, NEW q \in Seq(S), Distinct(q), NEW k \in 1 .. Len(q)
  PROVE  /\ Omit(q, k) \in Seq(S) /\ Len(Omit(q, k)) = Len(q) - 1 /\ Distinct(Omit(q, k))
         /\ Members(Omit(q, k)) = Members(q) \ {q[k]}
  <1> DEFINE r == Omit(q, k)
             N == Len(q)
  <1>0. N \in Nat \ {0} /\ k \in Nat /\ N - 1 \in Nat
    OBVIOUS
  <1> HIDE DEF N
  <1>1. /\ \A i \in 1 .. N - 1 : r[i] = IF i < k THEN q[i] ELSE q[i + 1]
        /\ DOMAIN r = 1 .. N - 1 /\ DOMAIN q = 1 .. N
    BY DEF Omit, N
  <1>2. ASSUME NEW i \in 1 .. N - 1 PROVE i \in 1 .. N /\ i + 1 \in 1 .. N
    BY <1>0
  <1>3. r \in [1 .. N - 1 -> S]
    <2>1. \A i \in 1 .. N - 1 : (IF i < k THEN q[i] ELSE q[i + 1]) \in S
      BY <1>2 DEF N
    <2> QED
      BY <2>1 DEF Omit, N
  <1>4. r \in Seq(S) /\ Len(r) = N - 1
    <2> HIDE DEF r
    <2> QED
      BY SMTT(40), <1>0, <1>1, <1>3
  <1> HIDE DEF r
  <1>5. Distinct(r)
    <2> SUFFICES ASSUME NEW i \in 1 .. N - 1, NEW j \in 1 .. N - 1, r[i] = r[j]
                 PROVE  i = j
      BY <1>1 DEF Distinct
    <2>1. PICK a \in 1 .. N : a = (IF i < k THEN i ELSE i + 1) /\ r[i] = q[a]
      BY <1>0, <1>1, <1>2
    <2>2. PICK b \in 1 .. N : b = (IF j < k THEN j ELSE j + 1) /\ r[j] = q[b]
      BY <1>0, <1>1, <1>2
    <2>3. a = b
      BY <1>1, <2>1, <2>2 DEF Distinct
    <2> QED
      BY <1>0, <2>1, <2>2, <2>3
  <1>6. Members(r) = Members(q) \ {q[k]}
    <2>1. ASSUME NEW i \in 1 .. N - 1 PROVE r[i] \in Members(q) \ {q[k]}
      <3>1. PICK a \in 1 .. N : a = (IF i < k THEN i ELSE i + 1) /\ r[i] = q[a]
        BY <1>0, <1>1, <1>2
      <3>2. a # k /\ k \in 1 .. N
        BY <1>0, <3>1 DEF N
      <3> QED
        BY <1>1, <3>1, <3>2 DEF Members, Distinct
    <2>2. ASSUME NEW a \in 1 .. N, a # k PROVE q[a] \in Members(r)
      <3>1. PICK i \in 1 .. N - 1 : i = IF a < k THEN a ELSE a - 1
        BY <1>0, <2>2 DEF N
      <3>2. a = IF i < k THEN i ELSE i + 1
        BY <1>0, <2>2, <3>1
      <3>3. r[i] = q[a]
        BY <1>1, <3>2
      <3> QED
        BY <1>1, <3>3 DEF Members
    <2> QED
      BY <1>1, <2>1, <2>2 DEF Members
  <1> QED
    BY <1>4, <1>5, <1>6 DEF r, N

(* An element of a chain that is not the first follows another one ...     *)
LEMMA ChainPredecessor ==
  ASSUME NEW S, NEW M, NEW Nil, NEW first, NEW link,
         IsChain(first, link, Nil, S, M), NEW x \in M, x # first
  PROVE  \E p \in M : link[p] = x
  <1>1. PICK q \in Seq(S) : IsList(q, first, link, Nil) /\ Distinct(q) /\ Members(q) = M
    BY DEF IsChain
  <1>0. Len(q) \in Nat /\ DOMAIN q = 1 .. Len(q)
    OBVIOUS
  <1>2. PICK k \in 1 .. Len(q) : x = q[k]
    BY <1>0, <1>1 DEF Members
  <1>3. k # 1 /\ k \in Nat
    BY <1>1, <1>2 DEF IsList
  <1>4. PICK j \in 1 .. Len(q) : j + 1 = k /\ j # Len(q)
    <2>1. k - 1 \in 1 .. Len(q) /\ k - 1 + 1 = k /\ k - 1 # Len(q)
      BY <1>0, <1>3
    <2> QED
      BY <2>1
  <1>5. link[q[j]] = q[j + 1] /\ q[j] \in M
    BY <1>0, <1>1, <1>4 DEF IsList, Members
  <1> QED
    BY <1>2, <1>4, <1>5

(* ... and is unlinked by making that one go on behind it.                 *)
LEMMA ChainCut ==
  ASSUME NEW S, NEW M, NEW Nil, NEW first, NEW link, NEW link_2,
         IsChain(first, link, Nil, S, M), NEW x \in M, x # first,
         NEW p \in M, link[p] = x, link_2[p] = link[x],
         \A y \in M \ {x, p} : link_2[y] = link[y]
  PROVE  IsChain(first, link_2, Nil, S, M \ {x})
  <1>1. PICK q \in Seq(S) : IsList(q, first, link, Nil) /\ Distinct(q) /\ Members(q) = M
    BY DEF IsChain
  <1> DEFINE N == Len(q)
  <1>0. N \in Nat /\ DOMAIN q = 1 .. N
    OBVIOUS
  <1> HIDE DEF N
  <1>2. PICK k \in 1 .. N : x = q[k]
    BY <1>0, <1>1 DEF Members
  <1>3. PICK j \in 1 .. N : p = q[j]
    BY <1>0, <1>1 DEF Members
  <1>4. \A i \in 1 .. N : q[i] # Nil /\ link[q[i]] = IF i = N THEN Nil ELSE q[i + 1]
    BY <1>1 DEF IsList, N
  <1>5. j + 1 = k
    <2>1. j # N /\ q[j + 1] = q[k] /\ j + 1 \in 1 .. N
      <3>1. j # N /\ q[j + 1] = q[k]
        BY <1>2, <1>3, <1>4
      <3> QED
        BY <1>0, <3>1
    <2> QED
      BY <1>0, <1>1, <2>1 DEF Distinct
  <1> DEFINE r == Omit(q, k)
  <1>6. r \in Seq(S) /\ Len(r) = N - 1 /\ Distinct(r) /\ Members(r) = M \ {x}
    <2>1. k \in 1 .. Len(q) /\ N = Len(q)
      BY <1>2 DEF N
    <2>2. /\ Omit(q, k) \in Seq(S) /\ Len(Omit(q, k)) = Len(q) - 1
          /\ Distinct(Omit(q, k)) /\ Members(Omit(q, k)) = Members(q) \ {q[k]}
      BY ONLY <1>1, <2>1, q \in Seq(S), OmitDistinct
    <2> QED
      BY <1>1, <1>2, <2>1, <2>2
  <1>7. \A i \in 1 .. N - 1 : r[i] = IF i < k THEN q[i] ELSE q[i + 1]
    BY DEF Omit, N
  <1> HIDE DEF r
  <1>8. k \in Nat /\ j \in Nat /\ k <= N /\ 1 <= j
    BY <1>0
  <1>9. first = IF r = << >> THEN Nil ELSE r[1]
    <2>1. 1 \in 1 .. N - 1 /\ 1 < k /\ N - 1 # 0
      BY <1>0, <1>5, <1>8
    <2>2. r[1] = q[1] /\ r # << >> /\ q # << >>
      BY <1>6, <1>7, <2>1, <1>0 DEF N
    <2> QED
      BY <1>1, <2>2 DEF IsList
  <1>10. ASSUME NEW i \in 1 .. Len(r)
         PROVE  r[i] # Nil /\ link_2[r[i]] = IF i = Len(r) THEN Nil ELSE r[i + 1]
    <2>0. i \in 1 .. N - 1 /\ i \in 1 .. N /\ i + 1 \in 1 .. N /\ i # N /\ i \in Nat
      BY <1>0, <1>6
    <2>1. CASE i < j
      <3>1. i < k /\ i + 1 < k /\ i + 1 \in 1 .. N - 1 /\ i # N - 1 /\ i # k /\ i # j
        BY <1>0, <1>5, <1>8, <2>0, <2>1
      <3>2. r[i] = q[i] /\ r[i + 1] = q[i + 1]
        BY <1>7, <2>0, <3>1
      <3>3. q[i] \in M \ {x, p}
        BY <1>0, <1>1, <1>2, <1>3, <2>0, <3>1 DEF Members, Distinct
      <3> QED
        BY <1>4, <1>6, <2>0, <3>1, <3>2, <3>3
    <2>2. CASE i = j
      <3>1. i < k /\ ~(i + 1 < k) /\ (i # N - 1 => i + 1 \in 1 .. N - 1) /\ (i = N - 1 <=> k = N)
            /\ i + 1 = k
        BY <1>0, <1>5, <1>8, <2>0, <2>2
      <3>2. r[i] = q[i] /\ (i # N - 1 => r[i + 1] = q[k + 1])
        BY <1>7, <2>0, <3>1
      <3>3. link_2[q[i]] = link[x] /\ link[x] = IF k = N THEN Nil ELSE q[k + 1]
        BY <1>2, <1>3, <1>4, <2>2
      <3> QED
        BY <1>4, <1>6, <2>0, <3>1, <3>2, <3>3
    <2>3. CASE i > j
      <3>1. ~(i < k) /\ ~(i + 1 < k) /\ (i # N - 1 => i + 1 \in 1 .. N - 1)
            /\ (i = N - 1 <=> i + 1 = N) /\ i + 1 # k /\ i + 1 # j
        BY <1>0, <1>5, <1>8, <2>0, <2>3
      <3>2. r[i] = q[i + 1] /\ (i # N - 1 => r[i + 1] = q[i + 1 + 1])
        BY <1>7, <2>0, <3>1
      <3>3. q[i + 1] \in M \ {x, p}
        BY <1>0, <1>1, <1>2, <1>3, <2>0, <3>1 DEF Members, Distinct
      <3>4. link[q[i + 1]] = IF i + 1 = N THEN Nil ELSE q[i + 1 + 1]
        BY <1>4, <2>0
      <3> QED
        BY <1>4, <1>6, <2>0, <3>1, <3>2, <3>3, <3>4
    <2> QED
      BY <1>8, <2>0, <2>1, <2>2, <2>3
  <1>11. IsList(r, first, link_2, Nil)
    BY <1>9, <1>10 DEF IsList
  <1> QED
    BY <1>6, <1>11 DEF IsChain

(* ... and the walk ends.                                                  *)
LEMMA ChainPathEnds ==
  ASSUME NEW N \in Nat, NEW S, NEW M, NEW Nil, NEW first, NEW link,
         IsChain(first, link, Nil, S, M), Cardinality(M) <= N,
         NEW f, IsPath(f, N, first, link, Nil)
  PROVE  f[N] = Nil
  <1>1. PICK q \in Seq(S) : IsList(q, first, link, Nil) /\ Distinct(q) /\ Members(q) = M
    BY DEF IsChain
  <1>2. Len(q) <= N /\ Len(q) \in Nat
    BY <1>1, DistinctLen
  <1>3. f = [i \in 0 .. N |-> IF i < Len(q) THEN q[i + 1] ELSE Nil]
    BY <1>1, <1>2, WalkOfList
  <1>4. N \in 0 .. N /\ ~(N < Len(q))
    BY <1>2
  <1> QED
    BY <1>3, <1>4

(* The walk along a chain meets each of its elements once.                 *)
LEMMA ChainPathOnce ==
  ASSUME NEW N \in Nat, NEW S, NEW M, NEW Nil, NEW first, NEW link, Nil \notin S,
         IsChain(first, link, Nil, S, M), Cardinality(M) <= N,
         NEW f, IsPath(f, N, first, link, Nil), NEW x \in S
  PROVE  Cardinality({i \in 0 .. N : f[i] = x}) = IF x \in M THEN 1 ELSE 0
  <1>1. PICK q \in Seq(S) : IsList(q, first, link, Nil) /\ Distinct(q) /\ Members(q) = M
    BY DEF IsChain
  <1>2. Len(q) <= N /\ Len(q) \in Nat /\ DOMAIN q = 1 .. Len(q)
    BY <1>1, DistinctLen
  <1>3. f = [i \in 0 .. N |-> IF i < Len(q) THEN q[i + 1] ELSE Nil]
    BY <1>1, <1>2, WalkOfList
  <1>4. \A i \in 0 .. N : f[i] = x <=> i < Len(q) /\ q[i + 1] = x
    BY <1>3
  <1>5. CASE x \in M
    <2>1. PICK k \in 1 .. Len(q) : q[k] = x
      BY <1>1, <1>2, <1>5 DEF Members
    <2>2. k - 1 \in 0 .. N /\ k - 1 < Len(q) /\ k - 1 + 1 = k
      BY <1>2
    <2>3. ASSUME NEW i \in 0 .. N PROVE f[i] = x <=> i = k - 1
      <3>1. ASSUME i < Len(q), q[i + 1] = q[k] PROVE i = k - 1
        <4>1. PICK j \in 1 .. Len(q) : j = i + 1
          BY <1>2, <3>1
        <4>2. j = k
          BY <1>1, <1>2, <3>1, <4>1 DEF Distinct
        <4> QED
          BY <4>1, <4>2
      <3> QED
        BY <1>4, <2>1, <2>2, <3>1
    <2>4. {i \in 0 .. N : f[i] = x} = {k - 1}
      BY <2>2, <2>3
    <2> QED
      BY <1>5, <2>4, FS_Singleton
  <1>6. CASE x \notin M
    <2>1. \A i \in 0 .. N : f[i] # x
      <3> SUFFICES ASSUME NEW i \in 0 .. N, i < Len(q), q[i + 1] = x PROVE FALSE
        BY <1>4
      <3>1. i + 1 \in 1 .. Len(q)
        BY <1>2
      <3> QED
        BY <1>1, <1>2, <1>6, <3>1 DEF Members
    <2>2. {i \in 0 .. N : f[i] = x} = {}
      BY <2>1
    <2> QED
      BY <1>6, <2>2, FS_EmptySet
  <1> QED
    BY <1>5, <1>6

-----------------------------------------------------------------------------
(* q is the list that is linked in both directions from first.  The first  *)
(* element knows the last one; the last one may or may not know the first. *)
IsRing(q, first, nx, pv, Nil) ==
  /\ Len(q) > 0 /\ Distinct(q) /\ first = q[1]
  /\ \A i \in 1 .. Len(q) - 1 : nx[q[i]] = q[i + 1] /\ pv[q[i + 1]] = q[i]
  /\ pv[q[1]] = q[Len(q)] /\ nx[q[Len(q)]] \in {Nil, q[1]}

(* An element of a ring that goes round has a neighbour on either side, and*)
(* so has the first element of one that does not.                          *)
LEMMA RingNeighbours ==
  ASSUME NEW S, NEW q \in Seq(S), NEW first, NEW nx, NEW pv, NEW Nil,
         IsRing(q, first, nx, pv, Nil), Len(q) > 1, NEW k \in 1 .. Len(q),
         k = 1 \/ nx[q[Len(q)]] # Nil
  PROVE  /\ nx[q[k]] = (IF k = Len(q) THEN q[1] ELSE q[k + 1])
         /\ pv[q[k]] = (IF k = 1 THEN q[Len(q)] ELSE q[k - 1])
         /\ nx[q[k]] \in Members(q) \ {q[k]} /\ pv[q[k]] \in Members(q) \ {q[k]}
  <1> DEFINE N == Len(q)
  <1>0. N \in Nat /\ N > 1 /\ DOMAIN q = 1 .. N /\ k \in Nat /\ 1 <= k /\ k <= N
    OBVIOUS
  <1>1. /\ \A i \in 1 .. N - 1 : nx[q[i]] = q[i + 1] /\ pv[q[i + 1]] = q[i]
        /\ pv[q[1]] = q[N] /\ nx[q[N]] \in {Nil, q[1]}
        /\ \A i, j \in 1 .. N : q[i] = q[j] => i = j
    BY DEF IsRing, Distinct
  <1> HIDE DEF N
  <1>2. PICK a \in 1 .. N : a = (IF k = N THEN 1 ELSE k + 1) /\ a # k
    BY <1>0
  <1>3. PICK b \in 1 .. N : b = (IF k = 1 THEN N ELSE k - 1) /\ b # k
    BY <1>0
  <1>4. nx[q[k]] = q[a]
    <2>1. CASE k = N
      BY <1>0, <1>1, <1>2, <2>1 DEF N
    <2>2. CASE k # N
      <3>1. k \in 1 .. N - 1
        BY <1>0, <2>2
      <3> QED
        BY <1>1, <1>2, <2>2, <3>1
    <2> QED
      BY <2>1, <2>2
  <1>5. pv[q[k]] = q[b]
    <2>1. CASE k = 1
      BY <1>1, <1>3, <2>1
    <2>2. CASE k # 1
      <3>1. PICK i \in 1 .. N - 1 : i = k - 1 /\ i + 1 = k
        BY <1>0, <2>2
      <3>2. pv[q[i + 1]] = q[i]
        BY <1>1
      <3> QED
        BY <1>3, <2>2, <3>1, <3>2
    <2> QED
      BY <2>1, <2>2
  <1>6. q[a] \in Members(q) \ {q[k]} /\ q[b] \in Members(q) \ {q[k]}
    <2>1. k \in 1 .. N
      BY DEF N
    <2> QED
      BY <1>0, <1>1, <1>2, <1>3, <2>1 DEF Members
  <1> QED
    BY <1>2, <1>3, <1>4, <1>5, <1>6 DEF N

(* An element leaves a ring: its neighbours become each other's, and the   *)
(* ring goes round from then on.                                           *)
LEMMA RingRemove ==
  ASSUME NEW S, NEW q \in Seq(S), NEW first, NEW nx, NEW pv, NEW Nil,
         IsRing(q, first, nx, pv, Nil), Len(q) > 1, NEW k \in 1 .. Len(q),
         k = 1 \/ nx[q[Len(q)]] # Nil, NEW x, x = q[k],
         NEW nx_2, NEW pv_2, nx_2[pv[x]] = nx[x], pv_2[nx[x]] = pv[x],
         \A y \in Members(q) \ {x, pv[x]} : nx_2[y] = nx[y],
         \A y \in Members(q) \ {x, nx[x]} : pv_2[y] = pv[y]
  PROVE  LET r == Omit(q, k) IN
         /\ IsRing(r, IF first = x THEN nx[x] ELSE first, nx_2, pv_2, Nil)
         /\ nx_2[r[Len(r)]] = r[1]
  <1> DEFINE N == Len(q)
             r == Omit(q, k)
  <1>0. N \in Nat /\ N > 1 /\ DOMAIN q = 1 .. N /\ k \in Nat /\ 1 <= k /\ k <= N
    OBVIOUS
  <1>1. /\ \A i \in 1 .. N - 1 : nx[q[i]] = q[i + 1] /\ pv[q[i + 1]] = q[i]
        /\ pv[q[1]] = q[N] /\ nx[q[N]] \in {Nil, q[1]} /\ first = q[1]
        /\ \A i, j \in 1 .. N : q[i] = q[j] => i = j
        /\ Distinct(q)
    BY DEF IsRing, Distinct
  <1>2. /\ nx[x] = (IF k = N THEN q[1] ELSE q[k + 1])
        /\ pv[x] = (IF k = 1 THEN q[N] ELSE q[k - 1])
    BY RingNeighbours
  <1>3. /\ r \in Seq(S) /\ Len(r) = N - 1 /\ Distinct(r)
        /\ \A i \in 1 .. N - 1 : r[i] = IF i < k THEN q[i] ELSE q[i + 1]
    <2>1. /\ Omit(q, k) \in Seq(S) /\ Len(Omit(q, k)) = Len(q) - 1 /\ Distinct(Omit(q, k))
      BY <1>1, OmitDistinct
    <2>2. \A i \in 1 .. N - 1 : r[i] = IF i < k THEN q[i] ELSE q[i + 1]
      BY DEF Omit
    <2> QED
      BY <2>1, <2>2
  <1>k. k \in 1 .. N
    OBVIOUS
  <1> HIDE DEF N, r
  <1>4. PICK a \in 1 .. N : a = (IF k = N THEN 1 ELSE k + 1) /\ nx[x] = q[a]
    BY <1>0, <1>2
  <1>5. PICK b \in 1 .. N : b = (IF k = 1 THEN N ELSE k - 1) /\ pv[x] = q[b]
    BY <1>0, <1>2
  <1>6. /\ nx_2[q[b]] = q[a] /\ pv_2[q[a]] = q[b]
        /\ \A i \in 1 .. N : i # k /\ i # b => nx_2[q[i]] = nx[q[i]]
        /\ \A i \in 1 .. N : i # k /\ i # a => pv_2[q[i]] = pv[q[i]]
    <2>1. \A i \in 1 .. N : q[i] \in Members(q)
      BY <1>0 DEF Members
    <2>2. \A i \in 1 .. N : i # k => q[i] # x
      BY <1>1, <1>k
    <2>3. \A i \in 1 .. N : /\ i # b => q[i] # pv[x]
                            /\ i # a => q[i] # nx[x]
      BY <1>1, <1>4, <1>5
    <2>4. nx_2[q[b]] = q[a] /\ pv_2[q[a]] = q[b]
      BY <1>4, <1>5
    <2>5. ASSUME NEW i \in 1 .. N, i # k PROVE i # b => nx_2[q[i]] = nx[q[i]]
      <3> SUFFICES ASSUME i # b PROVE nx_2[q[i]] = nx[q[i]]
        OBVIOUS
      <3>1. q[i] \in Members(q) \ {x, pv[x]}
        <4>1. q[i] \in Members(q)
          BY <2>1
        <4>2. q[i] # x
          BY <2>2, <2>5
        <4>3. q[i] # pv[x]
          BY <2>3
        <4> QED
          BY <4>1, <4>2, <4>3
      <3> QED
        BY <3>1
    <2>6. ASSUME NEW i \in 1 .. N, i # k PROVE i # a => pv_2[q[i]] = pv[q[i]]
      <3> SUFFICES ASSUME i # a PROVE pv_2[q[i]] = pv[q[i]]
        OBVIOUS
      <3>1. q[i] \in Members(q) \ {x, nx[x]}
        <4>1. q[i] \in Members(q)
          BY <2>1
        <4>2. q[i] # x
          BY <2>2, <2>6
        <4>3. q[i] # nx[x]
          BY <2>3
        <4> QED
          BY <4>1, <4>2, <4>3
      <3> QED
        BY <3>1
    <2> QED
      BY <2>4, <2>5, <2>6
  <1>7. (IF first = x THEN nx[x] ELSE first) = r[1]
    <2>1. CASE k = 1
      <3>1. a = 2 /\ 1 \in 1 .. N - 1 /\ first = x
        BY <1>0, <1>1, <1>4, <2>1
      <3> QED
        BY <1>3, <1>4, <2>1, <3>1
    <2>2. CASE k # 1
      <3>1. 1 \in 1 .. N - 1 /\ 1 < k /\ 1 \in 1 .. N /\ first # x
        BY <1>0, <1>1, <1>k, <2>2
      <3> QED
        BY <1>1, <1>3, <3>1
    <2> QED
      BY <2>1, <2>2
  <1>8. ASSUME NEW i \in 1 .. N - 2 PROVE nx_2[r[i]] = r[i + 1] /\ pv_2[r[i + 1]] = r[i]
    <2>0. i \in 1 .. N - 1 /\ i + 1 \in 1 .. N - 1 /\ i + 2 \in 1 .. N /\ i \in Nat /\ i \in 1 .. N
          /\ i + 1 \in 1 .. N /\ i <= N - 2
      BY <1>0
    <2>1. CASE i + 1 < k
      <3>1. r[i] = q[i] /\ r[i + 1] = q[i + 1] /\ i # k /\ i # b /\ i + 1 # k /\ i + 1 # a
        BY <1>0, <1>3, <1>4, <1>5, <2>0, <2>1
      <3> QED
        BY <1>1, <1>6, <2>0, <3>1
    <2>2. CASE i + 1 = k
      <3>1. r[i] = q[i] /\ r[i + 1] = q[i + 2] /\ i = b /\ i + 2 = a
        BY <1>0, <1>3, <1>4, <1>5, <2>0, <2>2
      <3> QED
        BY <1>6, <3>1
    <2>3. CASE i + 1 > k
      <3>1. r[i] = q[i + 1] /\ r[i + 1] = q[i + 2] /\ i + 1 # k /\ i + 1 # b /\ i + 2 # k
            /\ i + 2 # a
        <4>1. ~(i < k) /\ ~(i + 1 < k) /\ i + 1 # k /\ i + 2 # k
          BY <1>0, <2>0, <2>3
        <4>2. i + 1 # b /\ i + 2 # a
          BY <1>0, <1>4, <1>5, <2>0, <2>3
        <4>3. i + 1 + 1 = i + 2
          BY <2>0
        <4> QED
          BY <1>3, <2>0, <4>1, <4>2, <4>3
      <3>2. PICK j \in 1 .. N - 1 : j = i + 1 /\ j + 1 = i + 2
        BY <2>0
      <3>3. nx[q[i + 1]] = q[i + 2] /\ pv[q[i + 2]] = q[i + 1]
        BY <1>1, <3>2
      <3> QED
        BY <1>6, <2>0, <3>1, <3>3
    <2> QED
      BY <1>0, <2>0, <2>1, <2>2, <2>3
  <1>9. nx_2[r[N - 1]] = r[1] /\ pv_2[r[1]] = r[N - 1]
    <2>0. N - 1 \in 1 .. N - 1 /\ 1 \in 1 .. N - 1 /\ N \in 1 .. N /\ 1 \in 1 .. N /\ 2 \in 1 .. N
          /\ N - 1 \in 1 .. N
      BY <1>0
    <2>1. CASE k = 1
      <3>1. r[1] = q[2] /\ r[N - 1] = q[N] /\ a = 2 /\ b = N
        <4>1. ~(N - 1 < k) /\ ~(1 < k) /\ N - 1 + 1 = N /\ 1 + 1 = 2 /\ 1 # N
          BY <1>0, <2>1
        <4> QED
          BY <1>3, <1>4, <1>5, <2>0, <2>1, <4>1
      <3> QED
        BY <1>6, <3>1
    <2>2. CASE k = N
      <3>1. r[1] = q[1] /\ r[N - 1] = q[N - 1] /\ a = 1 /\ b = N - 1
        BY <1>0, <1>3, <1>4, <1>5, <2>0, <2>2
      <3> QED
        BY <1>6, <3>1
    <2>3. CASE k # 1 /\ k # N
      <3>1. r[1] = q[1] /\ r[N - 1] = q[N] /\ 1 # k /\ 1 # a /\ N # k /\ N # b
        <4>1. ~(N - 1 < k) /\ 1 < k /\ N - 1 + 1 = N
          BY <1>0, <2>3
        <4>2. 1 # a /\ N # b
          BY <1>0, <1>4, <1>5, <2>3
        <4> QED
          BY <1>3, <2>0, <2>3, <4>1, <4>2
      <3>2. nx[q[N]] = q[1] /\ pv[q[1]] = q[N]
        BY <1>1, <2>3 DEF N
      <3> QED
        BY <1>6, <2>0, <3>1, <3>2
    <2> QED
      BY <2>1, <2>2, <2>3
  <1>10. IsRing(r, IF first = x THEN nx[x] ELSE first, nx_2, pv_2, Nil)
    <2>1. N - 1 > 0 /\ N - 1 - 1 = N - 2
      BY <1>0
    <2> QED
      BY <1>3, <1>7, <1>8, <1>9, <2>1 DEF IsRing
  <1> QED
    BY <1>3, <1>9, <1>10 DEF r

(* The links nx_2, pv_2 are nx, pv with x between the last one and first.  *)
LinkedLast(x, q, first, nx, pv, nx_2, pv_2) ==
  /\ nx_2[x] = first /\ nx_2[pv[first]] = x /\ pv_2[first] = x /\ pv_2[x] = pv[first]
  /\ \A y \in Members(q) \ {pv[first]} : nx_2[y] = nx[y]
  /\ \A y \in Members(q) \ {first} : pv_2[y] = pv[y]

(* An element comes between the last one and the first, as the last.       *)
LEMMA RingAppend ==
  ASSUME NEW S, NEW q \in Seq(S), NEW first, NEW nx, NEW pv, NEW Nil,
         IsRing(q, first, nx, pv, Nil), NEW x \in S, x \notin Members(q),
         NEW nx_2, NEW pv_2, LinkedLast(x, q, first, nx, pv, nx_2, pv_2),
         NEW r, r = Append(q, x)
  PROVE  /\ IsRing(r, first, nx_2, pv_2, Nil) /\ r \in Seq(S)
         /\ Members(r) = Members(q) \cup {x}
         /\ Len(r) = Len(q) + 1 /\ r[Len(q) + 1] = x
  <1> USE DEF LinkedLast
  <1> DEFINE N == Len(q)
  <1>1. /\ \A i \in 1 .. N - 1 : nx[q[i]] = q[i + 1] /\ pv[q[i + 1]] = q[i]
        /\ pv[first] = q[N] /\ first = q[1] /\ N > 0
        /\ \A i, j \in 1 .. N : q[i] = q[j] => i = j
        /\ Distinct(q) /\ N \in Nat /\ DOMAIN q = 1 .. N
    BY DEF IsRing, Distinct
  <1>2. /\ Distinct(r) /\ r \in Seq(S) /\ Members(r) = Members(q) \cup {x} /\ Len(r) = N + 1
    BY <1>1, AppendDistinct
  <1>3. (\A i \in 1 .. N : r[i] = q[i]) /\ r[N + 1] = x
    <2>1. r = [i \in 1 .. N + 1 |-> IF i = N + 1 THEN x ELSE q[i]]
      BY AppendIs
    <2> HIDE DEF N
    <2>2. \A i \in 1 .. N : i \in 1 .. N + 1 /\ i # N + 1
      BY <1>1
    <2>3. N + 1 \in 1 .. N + 1
      BY <1>1
    <2> QED
      BY <2>1, <2>2, <2>3
  <1> HIDE DEF N
  <1>4. ASSUME NEW i \in 1 .. N PROVE nx_2[r[i]] = r[i + 1] /\ pv_2[r[i + 1]] = r[i]
    <2>1. CASE i = N
      BY <1>1, <1>3, <2>1
    <2>2. CASE i # N
      <3>1. i \in 1 .. N - 1 /\ i + 1 \in 1 .. N /\ 1 \in 1 .. N /\ N \in 1 .. N /\ i + 1 # 1
        BY <1>1, <2>2
      <3>2. PICK j \in 1 .. N : j = i + 1 /\ j # 1
        BY <3>1
      <3>3. r[i] = q[i] /\ r[i + 1] = q[j] /\ q[i] # q[N] /\ q[j] # q[1]
        BY <1>1, <1>3, <2>2, <3>1, <3>2
      <3>4. q[i] \in Members(q) /\ q[j] \in Members(q)
        BY <1>1, <3>1, <3>2 DEF Members
      <3>5. nx[q[i]] = q[j] /\ pv[q[j]] = q[i]
        BY <1>1, <3>1, <3>2
      <3> QED
        BY <1>1, <3>3, <3>4, <3>5
    <2> QED
      BY <2>1, <2>2
  <1>5. r[1] = first /\ pv_2[r[1]] = r[N + 1] /\ nx_2[r[N + 1]] = r[1]
    <2>1. 1 \in 1 .. N
      BY <1>1
    <2> QED
      BY <1>1, <1>3, <2>1
  <1>6. IsRing(r, first, nx_2, pv_2, Nil)
    <2>1. Len(r) - 1 = N /\ Len(r) > 0 /\ r[Len(r)] = r[N + 1]
      BY <1>1, <1>2
    <2>2. \A i \in 1 .. Len(r) - 1 : nx_2[r[i]] = r[i + 1] /\ pv_2[r[i + 1]] = r[i]
      BY <1>4, <2>1
    <2> QED
      BY <1>2, <1>5, <2>1, <2>2 DEF IsRing
  <1> QED
    BY <1>2, <1>3, <1>6 DEF N

-----------------------------------------------------------------------------
(* f gathers the elements from first on, until the next would be none or   *)
(* the first again.                                                        *)
IsGathering(f, N, first, link, Nil) ==
  f = [i \in 1 .. N |->
         IF i = 1 THEN <<first>>
         ELSE LET s == f[i - 1]  x == link[s[Len(s)]] IN
              IF x \in {Nil, first} THEN s ELSE Append(s, x)]

(* Gathering the elements of a ring gives them in their order.             *)
LEMMA RingGathered ==
  ASSUME NEW N \in Nat, NEW S, NEW Nil, Nil \notin S, NEW q \in Seq(S), Len(q) <= N,
         NEW first, NEW nx, NEW pv, IsRing(q, first, nx, pv, Nil)
  PROVE  /\ \E f : IsGathering(f, N, first, nx, Nil)
         /\ \A f : IsGathering(f, N, first, nx, Nil) => f[N] = q
  <1> DEFINE L == Len(q)
             part == [m \in 1 .. L |-> [j \in 1 .. m |-> q[j]]]
             upto == [i \in 1 .. N |-> IF i < L THEN i ELSE L]
             w == [i \in 1 .. N |-> part[upto[i]]]
  <1>1. /\ \A i \in 1 .. L - 1 : nx[q[i]] = q[i + 1]
        /\ nx[q[L]] \in {Nil, first} /\ first = q[1] /\ L > 0
        /\ \A i, j \in 1 .. L : q[i] = q[j] => i = j
        /\ L \in Nat /\ L <= N /\ \A i \in 1 .. L : q[i] \in S
    BY DEF IsRing, Distinct
  <1>2. \A m \in 1 .. L : part[m] \in Seq(S) /\ Len(part[m]) = m /\ part[m][m] = q[m]
    <2> SUFFICES ASSUME NEW m \in 1 .. L
                 PROVE  part[m] \in Seq(S) /\ Len(part[m]) = m /\ part[m][m] = q[m]
      OBVIOUS
    <2>1. PICK s : s = [j \in 1 .. m |-> q[j]]
      OBVIOUS
    <2>2. part[m] = s
      BY <2>1
    <2>3. m \in Nat /\ \A j \in 1 .. m : j \in 1 .. L
      BY <1>1
    <2>4. s \in [1 .. m -> S]
      BY <1>1, <2>1, <2>3
    <2>5. s \in Seq(S) /\ Len(s) = m /\ s[m] = q[m]
      BY <2>1, <2>3, <2>4
    <2> QED
      BY <2>2, <2>5
  <1>3. ASSUME NEW m \in 1 .. L - 1 PROVE part[m + 1] = Append(part[m], q[m + 1])
    <2>1. m \in 1 .. L /\ m + 1 \in 1 .. L /\ m \in Nat
      BY <1>1
    <2>2. PICK s \in Seq(S) : s = part[m] /\ Len(s) = m /\ s = [j \in 1 .. m |-> q[j]]
      BY <1>2, <2>1
    <2>3. PICK e \in S : e = q[m + 1]
      BY <1>1, <2>1
    <2>4. Append(s, e) = [j \in 1 .. m + 1 |-> IF j = m + 1 THEN e ELSE s[j]]
      BY <2>2, AppendIs
    <2>5. \A j \in 1 .. m + 1 : (IF j = m + 1 THEN e ELSE s[j]) = q[j]
      <3> SUFFICES ASSUME NEW j \in 1 .. m + 1, j # m + 1 PROVE s[j] = q[j]
        BY <2>3
      <3>1. j \in 1 .. m
        BY <2>1
      <3> QED
        BY <2>2, <3>1
    <2>6. part[m + 1] = [j \in 1 .. m + 1 |-> q[j]]
      BY <2>1
    <2> HIDE DEF part
    <2>7. part[m + 1] = Append(s, e)
      BY <2>4, <2>5, <2>6
    <2> QED
      BY <2>2, <2>3, <2>7
  <1>4. part[1] = <<first>> /\ part[L] = q
    <2>1. part[1] = [j \in 1 .. 1 |-> q[j]]
      BY <1>1
    <2>2. part[L] = [j \in 1 .. L |-> q[j]]
      BY <1>1
    <2>3. q = [j \in 1 .. L |-> q[j]]
      OBVIOUS
    <2>4. [j \in 1 .. 1 |-> q[j]] = <<q[1]>>
      OBVIOUS
    <2> HIDE DEF part, L
    <2> QED
      BY <1>1, <2>1, <2>2, <2>3, <2>4
  <1>u. \A i \in 1 .. N : upto[i] = (IF i < L THEN i ELSE L) /\ w[i] = part[upto[i]]
    OBVIOUS
  <1>8. w = [i \in 1 .. N |-> w[i]]
    OBVIOUS
  <1> HIDE DEF w, upto, part, L
  <1>5. \A i \in 1 .. N : upto[i] \in 1 .. L /\ w[i] = part[upto[i]]
    BY <1>1, <1>u
  <1>6. N >= 1 /\ upto[1] = 1 /\ upto[N] = L
    <2>1. 1 \in 1 .. N /\ N \in 1 .. N
      BY <1>1
    <2> QED
      BY <1>1, <1>u, <2>1
  <1>7. ASSUME NEW i \in 1 .. N, i # 1
        PROVE  /\ i - 1 \in 1 .. N
               /\ upto[i] = IF upto[i - 1] = L THEN L ELSE upto[i - 1] + 1
    <2>1. i - 1 \in 1 .. N /\ i \in Nat
      BY <1>7
    <2>2. /\ upto[i] = IF i < L THEN i ELSE L
          /\ upto[i - 1] = IF i - 1 < L THEN i - 1 ELSE L
      BY <1>u, <2>1
    <2> QED
      BY <1>1, <2>1, <2>2
  <1>9. ASSUME NEW i \in 1 .. N, NEW s, i # 1 => s = w[i - 1]
        PROVE  w[i] = IF i = 1 THEN <<first>>
                      ELSE IF nx[s[Len(s)]] \in {Nil, first} THEN s
                           ELSE Append(s, nx[s[Len(s)]])
    <2>1. CASE i = 1
      BY <1>4, <1>5, <1>6, <2>1
    <2>2. CASE i # 1
      <3>1. PICK m \in 1 .. L : m = upto[i - 1] /\ s = part[m]
        BY SMTT(60), <1>5, <1>7, <1>9, <2>2
      <3>2. Len(s) = m /\ s[m] = q[m]
        BY <1>2, <3>1
      <3>3. CASE m = L
        <4>1. w[i] = part[L]
          BY <1>5, <1>7, <2>2, <3>1, <3>3
        <4> QED
          BY <1>1, <2>2, <3>1, <3>2, <3>3, <4>1
      <3>4. CASE m # L
        <4>1. m \in 1 .. L - 1 /\ m + 1 \in 1 .. L /\ 1 \in 1 .. L /\ m + 1 # 1
          BY <1>1, <3>4
        <4>2. nx[q[m]] = q[m + 1] /\ q[m + 1] # Nil /\ q[m + 1] # first
          BY <1>1, <4>1
        <4>3. w[i] = part[m + 1]
          BY <1>5, <1>7, <2>2, <3>1, <3>4
        <4> QED
          BY ZenonT(60), <1>3, <2>2, <3>1, <3>2, <4>1, <4>2, <4>3
      <3> QED
        BY <3>3, <3>4
    <2> QED
      BY <2>1, <2>2
  <1>10. IsGathering(w, N, first, nx, Nil)
    <2>1. \A i \in 1 .. N :
            w[i] = IF i = 1 THEN <<first>>
                   ELSE LET s == w[i - 1]  x == nx[s[Len(s)]] IN
                        IF x \in {Nil, first} THEN s ELSE Append(s, x)
      BY <1>9
    <2> QED
      BY <1>8, <2>1 DEF IsGathering
  <1>11. ASSUME NEW f, IsGathering(f, N, first, nx, Nil) PROVE f[N] = q
    <2>1. \A i \in 1 .. N :
            f[i] = IF i = 1 THEN <<first>>
                   ELSE LET s == f[i - 1]  x == nx[s[Len(s)]] IN
                        IF x \in {Nil, first} THEN s ELSE Append(s, x)
      BY <1>11 DEF IsGathering
    <2> DEFINE P == {n \in 0 .. N - 1 : f[n + 1] = w[n + 1]}
    <2>2. N - 1 \in Nat
      BY <1>6
    <2>3. 0 \in P
      <3>1. 1 \in 1 .. N /\ 0 + 1 = 1
        BY <1>6
      <3>2. f[1] = <<first>> /\ w[1] = <<first>>
        BY <1>9, <2>1, <3>1
      <3> QED
        BY <2>2, <3>1, <3>2
    <2>4. \A n \in 0 .. N - 1 : n < N - 1 /\ n \in P => n + 1 \in P
      <3> SUFFICES ASSUME NEW n \in 0 .. N - 1, n < N - 1, f[n + 1] = w[n + 1]
                   PROVE  n + 1 \in 0 .. N - 1 /\ f[n + 1 + 1] = w[n + 1 + 1]
        OBVIOUS
      <3>1. PICK i \in 1 .. N : i = n + 1 + 1 /\ i # 1 /\ i - 1 = n + 1
        BY <2>2
      <3>2. PICK s : s = w[i - 1] /\ s = f[i - 1]
        BY <3>1
      <3>3. f[i] = IF nx[s[Len(s)]] \in {Nil, first} THEN s ELSE Append(s, nx[s[Len(s)]])
        BY <2>1, <3>1, <3>2
      <3>4. w[i] = IF nx[s[Len(s)]] \in {Nil, first} THEN s ELSE Append(s, nx[s[Len(s)]])
        BY <1>9, <3>1, <3>2
      <3> QED
        BY <2>2, <3>1, <3>3, <3>4
    <2>5. 0 .. N - 1 \subseteq P
      <3> HIDE DEF P
      <3> QED
        BY <2>2, <2>3, <2>4, UpTo
    <2>6. N - 1 \in P /\ N - 1 + 1 = N
      <3> HIDE DEF P
      <3>1. N - 1 \in 0 .. N - 1
        BY <2>2
      <3> QED
        BY <2>5, <3>1
    <2>7. f[N] = w[N]
      BY <2>6
    <2>8. N \in 1 .. N
      BY <1>6
    <2> QED
      BY <1>4, <1>5, <1>6, <2>7, <2>8
  <1> QED
    BY <1>10, <1>11
=============================================================================
