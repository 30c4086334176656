------------------------------ MODULE HashTab ------------------------------
(***************************************************************************)
(* The chained hash table of dev/hash.c.  A table is a function of its     *)
(* buckets to chains of nodes [key, data]; a run of operations folds over  *)
(* it.                                                                     *)
(***************************************************************************)
EXTENDS Naturals, Sequences, SequencesExt, Bitwise

CONSTANTS
  Count,     \* the buckets, a power of 2
  MaxNodes   \* nodes hash_node_pool can give

NoData == "null"

HashFunc(key) == ((key ^^ shiftR(key, 2)) ^^ shiftR(key, 6)) & (Count - 1)

(* hash_alloc().                                                           *)
HashAlloc == [nodes |-> [i \in 0 .. Count - 1 |-> << >>], refcnt |-> 0, ret |-> NoData]

(* hash_insert(): in front of the chain, whether the key is there or not.  *)
HashInsert(h, key, data) ==
  IF h.refcnt = MaxNodes THEN [h EXCEPT !.ret = 0]
  ELSE [nodes |-> [h.nodes EXCEPT ![HashFunc(key)] = <<[key |-> key, data |-> data]>> \o @],
        refcnt |-> h.refcnt + 1, ret |-> 1]

(* The place of the first node of a key in its chain, 0 if there is none.  *)
PlaceOf(h, key) ==
  SelectInSeq(h.nodes[HashFunc(key)], LAMBDA n : n.key = key)

(* Mutant: the chain ends with the node that is removed.                   *)
HashRemoveRest(h, key) ==
  IF PlaceOf(h, key) = 0 THEN [h EXCEPT !.ret = 0]
  ELSE [nodes |-> [h.nodes EXCEPT ![HashFunc(key)] = SubSeq(@, 1, PlaceOf(h, key) - 1)],
        refcnt |-> h.refcnt - 1, ret |-> 1]

(* hash_remove(): the first node of the key is unlinked.                   *)
HashRemove(h, key) ==
  IF PlaceOf(h, key) = 0 THEN [h EXCEPT !.ret = 0]
  ELSE [nodes |-> [h.nodes EXCEPT ![HashFunc(key)] = RemoveAt(@, PlaceOf(h, key))],
        refcnt |-> h.refcnt - 1, ret |-> 1]

(* hash_lookup().                                                          *)
HashLookup(h, key) ==
  IF PlaceOf(h, key) = 0 THEN NoData
  ELSE h.nodes[HashFunc(key)][PlaceOf(h, key)].data

(* An operation is <<"insert", key, data>> or <<"remove", key>>.           *)
HashDo(h, op) ==
  IF op[1] = "insert" THEN HashInsert(h, op[2], op[3]) ELSE HashRemove(h, op[2])

(* After any operations the table holds, for each key, a stack of what was *)
(* inserted: the newest shadows the others and removing it brings the one  *)
(* before back; keys of one bucket do not disturb one another; refcnt      *)
(* counts the nodes.                                                       *)
HashIsStacks(ops, keys) ==
  LET h == FoldLeft(HashDo, HashAlloc, ops)
      s == FoldLeft(LAMBDA x, op :
             CASE op[1] = "insert" /\ x.nodes < MaxNodes ->
                    [nodes |-> x.nodes + 1, of |-> [x.of EXCEPT ![op[2]] = <<op[3]>> \o @]]
               [] op[1] = "remove" /\ x.of[op[2]] # << >> ->
                    [nodes |-> x.nodes - 1, of |-> [x.of EXCEPT ![op[2]] = Tail(@)]]
               [] OTHER -> x,
             [nodes |-> 0, of |-> [k \in keys |-> << >>]], ops)
  IN /\ h.refcnt = s.nodes
     /\ \A k \in keys : HashLookup(h, k) = IF s.of[k] = << >> THEN NoData ELSE Head(s.of[k])
=============================================================================
