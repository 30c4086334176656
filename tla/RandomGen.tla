----------------------------- MODULE RandomGen -----------------------------
(***************************************************************************)
(* random() of the C library (stdlib/random.c) with its exchangeable state *)
(* arrays.  An array is a function: place 0 is state[-1], which keeps type *)
(* and rear pointer while the array is not in use, and 1 .. deg the state. *)
(* Numbers are words of Modulus values.                                    *)
(***************************************************************************)
EXTENDS Integers, Sequences, SequencesExt

CONSTANTS
  Modulus,               \* 2^32
  Degrees, Seps, Breaks  \* degrees[], seps[], BREAK_0 ..: sequences by type + 1

ASSUME RandomAssumption ==
  /\ Modulus \in Nat \ {0} /\ Modulus % 2 = 0
  /\ Len(Degrees) = Len(Seps) /\ Len(Breaks) = Len(Degrees)
  /\ \A t \in 2 .. Len(Degrees) : Seps[t] \in 1 .. Degrees[t] - 1

MaxTypes == Len(Degrees)
Deg(type) == Degrees[type + 1]
Sep(type) == Seps[type + 1]

(* A generator is [mem, cur, type, f, r]: all arrays, the one in use, its  *)
(* type, and fptr and rptr as offsets from state; out is what random()     *)
(* returned last.                                                          *)
Lcg(x) == (x * (1103515245 % Modulus) + 12345) % Modulus

(* random().                                                               *)
Random(g) ==
  IF g.type = 0
  THEN LET i == Lcg(g.mem[g.cur][1]) % (Modulus \div 2)
       IN [g EXCEPT !.mem[g.cur][1] = i, !.out = i]
  ELSE LET sum == (g.mem[g.cur][g.f + 1] + g.mem[g.cur][g.r + 1]) % Modulus
           end == Deg(g.type)
       IN [g EXCEPT !.mem[g.cur][g.f + 1] = sum, !.out = sum \div 2,
                    !.f = IF g.f + 1 >= end THEN 0 ELSE g.f + 1,
                    !.r = IF g.f + 1 >= end \/ g.r + 1 < end THEN g.r + 1 ELSE 0]

After(g, many) ==
  LET At[n \in 0 .. many] == IF n = 0 THEN g ELSE LET x == At[n - 1] IN Random(x)
  IN At[many]

(* srandom().                                                              *)
Srandom(g, seed) ==
  LET State[i \in 1 .. Deg(g.type)] == IF i = 1 THEN seed ELSE Lcg(State[i - 1])
      filled == [g EXCEPT !.mem[g.cur] = [i \in 0 .. Deg(g.type) |->
                                            IF i = 0 THEN @[0] ELSE State[i]],
                          !.f = Sep(g.type), !.r = 0]
  IN IF g.type = 0 THEN [g EXCEPT !.mem[g.cur] = [i \in 0 .. 1 |-> IF i = 0 THEN @[0] ELSE seed]]
     ELSE After(filled, 10 * Deg(g.type))

(* What initstate() and setstate() leave in state[-1].                     *)
Parked(g) ==
  [g EXCEPT !.mem[g.cur][0] = IF g.type = 0 THEN 0 ELSE MaxTypes * g.r + g.type]

(* initstate(): the largest type that n bytes have room for.               *)
Initstate(g, seed, array, n) ==
  LET fit == {t \in 1 .. MaxTypes : Breaks[t] <= n}
  IN IF fit = {} THEN Parked(g)
     ELSE Parked(Srandom([Parked(g) EXCEPT !.cur = array, !.type = Cardinality(fit) - 1,
                                           !.mem[array] = [i \in {0} |-> 0]],
                         seed))

(* Mutant: both pointers start from the same place.                        *)
FrontAtRear(rear, type) == rear % Deg(type)

(* setstate(): where the front pointer is for a rear one.                  *)
FrontAt(rear, type) == (rear + Sep(type)) % Deg(type)

(* setstate(): type and rear are read before the current ones are saved.   *)
Setstate(g, array) ==
  LET type == g.mem[array][0] % MaxTypes
      rear == g.mem[array][0] \div MaxTypes
      new == [Parked(g) EXCEPT !.cur = array, !.type = type]
  IN IF type = 0 THEN new ELSE [new EXCEPT !.r = rear, !.f = FrontAt(rear, type)]

(* The numbers an array gives when it is used alone from initstate() on.   *)
Alone(g, many) ==
  [n \in 1 .. many |-> After(g, n).out]

(* A program that goes from one state array to another whenever it likes   *)
(* gets from each the same numbers as from that array alone.  setstate()   *)
(* with the array in use is left out: random.c says that it is OK to call  *)
(* it, but it goes back to the rear pointer of the last exchange.          *)
StreamsKeep(start, ops) ==
  LET Step(x, op) ==
        CASE op = 0 -> [x EXCEPT !.g = Random(@), !.got[x.g.cur] = Append(@, Random(x.g).out)]
          [] op # 0 /\ op # x.g.cur -> [x EXCEPT !.g = Setstate(@, op)]
          [] OTHER -> x
      Done[n \in 0 .. Len(ops)] ==
        IF n = 0 THEN [g |-> start, got |-> [a \in DOMAIN start.mem |-> << >>]]
        ELSE LET x == Done[n - 1] IN Step(x, ops[n])
      end == Done[Len(ops)]
  IN \A a \in DOMAIN start.mem :
       end.got[a] = Alone(IF a = start.cur THEN start ELSE Setstate(start, a), Len(end.got[a]))
=============================================================================
