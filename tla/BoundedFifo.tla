----------------------------- MODULE BoundedFifo -----------------------------
(***************************************************************************)
(* What a ring promises the two threads it connects: a first-in, first-out *)
(* queue of bounded capacity, each accepted item received whole and once.  *)
(***************************************************************************)
EXTENDS Integers, Sequences

CONSTANTS Item, NoItem, Capacity,
  Lossy   \* may an offered item be given up?

VARIABLES
  sending,   \* the item the sender is trying to push, or NoItem
  queue,     \* the items accepted and not yet received
  got        \* the item received last, or NoItem

vars == <<sending, queue, got>>

Init == sending = NoItem /\ queue = <<>> /\ got = NoItem

Offer(x) ==
  /\ sending = NoItem
  /\ sending' = x
  /\ UNCHANGED <<queue, got>>

Accept ==
  /\ sending # NoItem /\ Len(queue) < Capacity
  /\ queue' = Append(queue, sending)
  /\ sending' = NoItem
  /\ UNCHANGED got

GiveUp ==
  /\ Lossy /\ sending # NoItem
  /\ sending' = NoItem
  /\ UNCHANGED <<queue, got>>

Take ==
  /\ queue # <<>>
  /\ got' = Head(queue)
  /\ queue' = Tail(queue)
  /\ UNCHANGED sending

Next == (\E x \in Item : Offer(x)) \/ Accept \/ GiveUp \/ Take

Spec == Init /\ [][Next]_vars
=============================================================================
