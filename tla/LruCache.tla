------------------------------ MODULE LruCache ------------------------------
(* What the buffer cache promises: a block is in one buffer at most; a     *)
(* block that is in none gets the buffer that was given back longest ago;  *)
(* a buffer that is taken is nobody else's until it is given back.         *)
EXTENDS Sequences, SequencesExt

CONSTANTS
  Bufs, Blks, NoBlk,
  Loose      \* some block is not kept track of

VARIABLES
  order,     \* the buffers not taken, the one given back longest ago first
  content,   \* the block each buffer stands for
  sound      \* the cache finds what it has

(* All buffers in an order.                                                *)
Whole(q) == q \in Seq(Bufs) /\ IsInjective(q) /\ Range(q) = Bufs

LInit == content = [x \in Bufs |-> NoBlk] /\ Whole(order) /\ sound \in BOOLEAN

(* The block is in a buffer: that one, wherever it is in the order.        *)
Hit(k) == content[order[k]] \in Blks /\ UNCHANGED content

(* It is in none, if the cache is sound: the first one of the order.       *)
Miss(k) ==
  /\ k = 1
  /\ \E b \in Blks :
       /\ sound => \A x \in Bufs : content[x] # b
       /\ content' = [content EXCEPT ![order[k]] = b]

(* The block that is not kept track of: a buffer for it is one that stands *)
(* for no other, or the one given back longest ago.                        *)
Aside(k) ==
  /\ Loose /\ (k = 1 \/ content[order[k]] = NoBlk)
  /\ content' = [content EXCEPT ![order[k]] = NoBlk]

(* A buffer is taken for a block.  If it is taken already, nothing changes.*)
Take ==
  /\ \E k \in DOMAIN order :
       order' = RemoveAt(order, k) /\ (Hit(k) \/ Miss(k) \/ Aside(k))
  /\ UNCHANGED sound

Give ==
  /\ \E x \in Bufs \ Range(order) : order' = Append(order, x)
  /\ UNCHANGED <<content, sound>>

(* The cache is set up anew.                                               *)
Reset == content' = [x \in Bufs |-> NoBlk] /\ Whole(order') /\ sound' \in BOOLEAN

LNext == Take \/ Give \/ Reset

LSpec == LInit /\ [][LNext]_<<order, content, sound>>
=============================================================================
