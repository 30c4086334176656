------------------------------ MODULE Mailbox ------------------------------
(***************************************************************************)
(* What a port promises: messages are received once each and in the order  *)
(* they were sent, a sender returns only after its message was taken, a    *)
(* message is dropped only when every slot of the port is in use, and an   *)
(* interrupt is announced by one message however often it fires before     *)
(* that message is taken.                                                  *)
(***************************************************************************)
EXTENDS Naturals, Sequences, FiniteSets

CONSTANTS Clients, Isr, Slots

VARIABLES
  box,    \* what was sent and not yet taken, oldest first
  stage,  \* how far each client is with its message
  left    \* messages each client has yet to send

vars == <<box, stage, left>>

InUse == {c \in Clients : stage[c] # "idle"}

Init ==
  /\ box = << >>
  /\ stage = [c \in Clients |-> "idle"]
  /\ left \in [Clients -> Nat]

Begin(c) ==
  /\ stage[c] = "idle" /\ left[c] > 0
  /\ Cardinality(InUse) < Slots
  /\ stage' = [stage EXCEPT ![c] = "begun"]
  /\ left' = [left EXCEPT ![c] = @ - 1]
  /\ UNCHANGED box

Drop(c) ==
  /\ stage[c] = "idle" /\ left[c] > 0
  /\ Cardinality(InUse) = Slots
  /\ left' = [left EXCEPT ![c] = @ - 1]
  /\ UNCHANGED <<box, stage>>

Send(c) ==
  /\ stage[c] = "begun"
  /\ stage' = [stage EXCEPT ![c] = "sent"]
  /\ box' = Append(box, c)
  /\ UNCHANGED left

Interrupt ==
  /\ \A i \in DOMAIN box : box[i] # Isr
  /\ box' = Append(box, Isr)
  /\ UNCHANGED <<stage, left>>

Take ==
  /\ box # << >>
  /\ box' = Tail(box)
  /\ stage' = [c \in Clients |-> IF c = Head(box) THEN "taken" ELSE stage[c]]
  /\ UNCHANGED left

Return(c) ==
  /\ stage[c] = "taken"
  /\ stage' = [stage EXCEPT ![c] = "idle"]
  /\ UNCHANGED <<box, left>>

Next ==
  \/ \E c \in Clients : Begin(c) \/ Drop(c) \/ Send(c) \/ Return(c)
  \/ Interrupt
  \/ Take

Spec == Init /\ [][Next]_vars
=============================================================================
