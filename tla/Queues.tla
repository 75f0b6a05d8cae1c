-------------------------------- MODULE Queues --------------------------------
(***************************************************************************)
(* The orders of a price level as a sequence, first in line first.         *)
(***************************************************************************)
EXTENDS Integers, SequencesExt

\* Where an order is on its level, and the level without it.
Position(q, o) == CHOOSE i \in DOMAIN q : q[i] = o
Unlinked(q, o) == RemoveAt(q, Position(q, o))

\* x is served before y.
InFront(q, x, y) == \E i, j \in DOMAIN q : i < j /\ q[i] = x /\ q[j] = y
===============================================================================
