------------------------------ MODULE Keyboard ------------------------------
(***************************************************************************)
(* The keyboard driver pc/kb.c: the interrupt handler kb_isr() and the     *)
(* console thread in get_key(), which share a ring of scan codes and the   *)
(* pointer kb_waiter.                                                      *)
(*                                                                         *)
(* Modifier keys, release codes and the translation of a code into a       *)
(* character change nothing that is modelled and are left out, as is       *)
(* Ctl-C, which reboots.  Interrupts are off in kb_isr() and in each       *)
(* splhi() section, so these are single steps.                             *)
(***************************************************************************)
EXTENDS Naturals, Sequences

CONSTANTS
  Keys,      \* scan codes of keys
  None,      \* no key (kb_readbuf() returns 0), and no waiter
  Reader,    \* the console thread, the one caller of get_key()
  KB_BUFSZ

ASSUME KeyboardAssumption ==
  KB_BUFSZ \in Nat \ {0} /\ None \notin Keys /\ Reader # None

VARIABLES
  kb_buf, kb_count, pkbin, pkbout,
  kb_waiter,
  asleep,    \* the reader is in state TS_WAITING
  pc,        \* the reader's next step
  got        \* the last key the reader read

ring == <<kb_buf, kb_count, pkbin, pkbout>>
vars == <<ring, kb_waiter, asleep, pc, got>>

Slot == 0 .. KB_BUFSZ - 1

(* A pointer moves on and wraps.                                           *)
Step(p) == IF p + 1 >= KB_BUFSZ THEN 0 ELSE p + 1

Init ==
  /\ kb_buf = [i \in Slot |-> None]
  /\ kb_count = 0 /\ pkbin = 0 /\ pkbout = 0
  /\ kb_waiter = None /\ asleep = FALSE
  /\ pc = "first" /\ got = None

(* Mutant: a full ring is reset without its read pointer.                  *)
InsertKeepsOut(k) ==
  \/ /\ kb_count < KB_BUFSZ
     /\ kb_buf' = [kb_buf EXCEPT ![pkbin] = k]
     /\ kb_count' = kb_count + 1
     /\ pkbin' = Step(pkbin)
     /\ UNCHANGED pkbout
  \/ /\ kb_count >= KB_BUFSZ
     /\ kb_count' = 0 /\ pkbin' = 0
     /\ UNCHANGED <<kb_buf, pkbout>>

(* kb_isr(): the key is put into the ring, or, when the ring is full,      *)
(* everything in it is dropped; then the waiter is woken.                  *)
Insert(k) ==
  \/ /\ kb_count < KB_BUFSZ
     /\ kb_buf' = [kb_buf EXCEPT ![pkbin] = k]
     /\ kb_count' = kb_count + 1
     /\ pkbin' = Step(pkbin)
     /\ UNCHANGED pkbout
  \/ /\ kb_count >= KB_BUFSZ
     /\ kb_count' = 0 /\ pkbin' = 0 /\ pkbout' = 0
     /\ UNCHANGED kb_buf

(* Mutant: kb_waiter stays set.                                            *)
WakeWaiterOnly ==
  /\ asleep' = (asleep /\ kb_waiter # Reader)
  /\ UNCHANGED kb_waiter

(* The waiter, if there is one, is woken and forgotten.                    *)
WakeWaiter ==
  /\ asleep' = (asleep /\ kb_waiter # Reader)
  /\ kb_waiter' = None

Isr(k) == Insert(k) /\ WakeWaiter /\ UNCHANGED <<pc, got>>

(* kb_readbuf(): the next key of the ring, if there is one.                *)
ReadBuf ==
  /\ kb_count > 0
  /\ kb_count' = kb_count - 1
  /\ got' = kb_buf[pkbout]
  /\ pkbout' = Step(pkbout)
  /\ UNCHANGED <<kb_buf, pkbin>>

(* get_key() takes a key at its first look ...                             *)
GetKey ==
  /\ pc = "first"
  /\ ReadBuf
  /\ UNCHANGED <<kb_waiter, asleep, pc>>

(* ... or finds none ...                                                   *)
FindNone ==
  /\ pc = "first" /\ kb_count = 0
  /\ pc' = "sleep"
  /\ UNCHANGED <<ring, kb_waiter, asleep, got>>

(* ... and then sleeps, in a splhi() section of its own ...                *)
Sleep ==
  /\ pc = "sleep"
  /\ kb_waiter' = Reader /\ asleep' = TRUE
  /\ pc' = "second"
  /\ UNCHANGED <<ring, got>>

(* ... to look once more when woken; the console calls get_key() again,    *)
(* whether it got a key or none.                                           *)
GetKeyAgain ==
  /\ pc = "second" /\ ~asleep
  /\ \/ ReadBuf
     \/ kb_count = 0 /\ UNCHANGED <<ring, got>>
  /\ pc' = "first"
  /\ UNCHANGED <<kb_waiter, asleep>>

Console == GetKey \/ FindNone \/ Sleep \/ GetKeyAgain
Next == Console \/ \E k \in Keys : Isr(k)

Spec == Init /\ [][Next]_vars
-----------------------------------------------------------------------------
(* kb_waiter names exactly the thread that sleeps: a sleeping console can  *)
(* be woken by the next key, and thread_wakeup() is never called for a     *)
(* thread that is up already (thread.c:159-162).                           *)
WaiterAsleep == (kb_waiter = Reader) <=> asleep

(* The ring is a queue of at most KB_BUFSZ keys.                           *)
Keyb == INSTANCE Typeahead WITH
  Size  <- KB_BUFSZ,
  typed <- [i \in 1 .. kb_count |-> kb_buf[(pkbout + i - 1) % KB_BUFSZ]],
  read  <- got

ImplementsTypeahead == Keyb!Spec

(* kb.c:236 "check for threads waiting for key": the console never sleeps  *)
(* while there is a key for it to read.                                    *)
NoKeyWaits == asleep => kb_count = 0
=============================================================================
