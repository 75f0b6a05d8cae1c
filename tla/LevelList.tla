------------------------------ MODULE LevelList ------------------------------
(***************************************************************************)
(* The intrusive doubly-linked lists of src/core/types.h: a PriceLevel     *)
(* points to its first and last order, and the orders to each other.  All  *)
(* levels share the orders of one pool, so a pointer left behind by one    *)
(* level would surface in another.                                         *)
(*                                                                         *)
(* `queue` is a ghost: the sequences module OrderBook keeps for the same   *)
(* lists.  The callers' duty is read off it, and is what OrderBook's       *)
(* PoolExact and LevelsFiled guarantee: only an order on no level is       *)
(* appended, and an order is removed from the level it is on.              *)
(***************************************************************************)
EXTENDS Integers, Queues

CONSTANTS Order, Level, null, none

ASSUME ConstantsAssumption ==
  /\ null \notin Order
  /\ none \notin Level

VARIABLES
  mem,      \* the pointers: head and tail of levels, next and prev of orders
  swept,    \* the level a match loop is on, or none
  cursor,   \* restingAsk or restingBid of that loop
  queue     \* ghost: level -> the orders on it, first in line first

vars == <<mem, swept, cursor, queue>>

Pointer == Order \cup {null}
Memory == [head : [Level -> Pointer], tail : [Level -> Pointer],
           next : [Order -> Pointer], prev : [Order -> Pointer]]

Idle == swept = none
On(l) == Range(queue[l])
Loose(o) == \A l \in Level : o \notin On(l)

-----------------------------------------------------------------------------
\* appendOrder.  It does not touch order->next: that must be nullptr already.
AppendOrder(m, l, o) ==
  IF m.head[l] = null
  THEN [m EXCEPT !.head[l] = o, !.tail[l] = o]
  ELSE [m EXCEPT !.next[m.tail[l]] = o, !.prev[o] = m.tail[l], !.tail[l] = o]

\* The four pointers around a removed order: who comes before it now leads to
\* who comes after it, and back.
LinkForward(m, l, p, n) ==
  IF p # null THEN [m EXCEPT !.next[p] = n] ELSE [m EXCEPT !.head[l] = n]

\* The last order of a level is removed, and the tail still points to it.
BugTailKept(m, l, p, n) == IF n # null THEN [m EXCEPT !.prev[n] = p] ELSE m

LinkBack(m, l, p, n) ==
  IF n # null THEN [m EXCEPT !.prev[n] = p] ELSE [m EXCEPT !.tail[l] = p]

\* What removeOrder, release, acquire and modifyOrder each do to an order.
Reset(m, o) == [m EXCEPT !.next[o] = null, !.prev[o] = null]

RemoveOrder(m, l, o) ==
  Reset(LinkBack(LinkForward(m, l, m.prev[o], m.next[o]), l, m.prev[o], m.next[o]), o)

\* A level without a head is erased from its map; the next order at that price
\* finds a new PriceLevel.
EraseIfEmpty(m, l) == IF m.head[l] = null THEN [m EXCEPT !.tail[l] = null] ELSE m

-----------------------------------------------------------------------------
Init ==
  /\ mem = [head |-> [l \in Level |-> null], tail |-> [l \in Level |-> null],
            next |-> [o \in Order |-> null], prev |-> [o \in Order |-> null]]
  /\ swept = none
  /\ cursor = null
  /\ queue = [l \in Level |-> <<>>]

\* addOrder of an order just acquired.
AddOrder(o, l) ==
  /\ Idle /\ Loose(o)
  /\ mem' = AppendOrder(Reset(mem, o), l, o)
  /\ queue' = [queue EXCEPT ![l] = Append(@, o)]
  /\ UNCHANGED <<swept, cursor>>

\* cancelOrder, and release.
CancelOrder(o, l) ==
  /\ Idle /\ o \in On(l)
  /\ mem' = Reset(EraseIfEmpty(RemoveOrder(mem, l, o), l), o)
  /\ queue' = [queue EXCEPT ![l] = Unlinked(@, o)]
  /\ UNCHANGED <<swept, cursor>>

\* modifyOrder, case 2: from level l to level k, which may be the same one.
ReplaceOrder(o, l, k) ==
  /\ Idle /\ o \in On(l)
  /\ mem' = AppendOrder(Reset(EraseIfEmpty(RemoveOrder(mem, l, o), l), o), k, o)
  /\ queue' = LET cut == [queue EXCEPT ![l] = Unlinked(@, o)]
              IN [cut EXCEPT ![k] = Append(@, o)]
  /\ UNCHANGED <<swept, cursor>>

\* A match loop comes to its best level, which has an order ...
StartLevel(l) ==
  /\ Idle /\ mem.head[l] # null
  /\ swept' = l
  /\ cursor' = mem.head[l]
  /\ UNCHANGED <<mem, queue>>

\* The loop reads `next` from the order it has just released.
BugNextAfterRelease ==
  /\ ~Idle /\ cursor # null
  /\ mem' = Reset(RemoveOrder(mem, swept, cursor), cursor)
  /\ cursor' = mem'.next[cursor]
  /\ queue' = [queue EXCEPT ![swept] = Unlinked(@, cursor)]
  /\ UNCHANGED swept

\* ... removes and releases each order it fills, having read its `next` ...
FillMaker ==
  /\ ~Idle /\ cursor # null
  /\ cursor' = mem.next[cursor]
  /\ mem' = Reset(RemoveOrder(mem, swept, cursor), cursor)
  /\ queue' = [queue EXCEPT ![swept] = Unlinked(@, cursor)]
  /\ UNCHANGED swept

\* ... and leaves when there is no other, or when the taker is filled.
EndLevel ==
  /\ ~Idle
  /\ mem' = EraseIfEmpty(mem, swept)
  /\ swept' = none
  /\ cursor' = null
  /\ UNCHANGED queue

Next ==
  \/ \E o \in Order, l \in Level : AddOrder(o, l) \/ CancelOrder(o, l)
  \/ \E o \in Order, l, k \in Level : ReplaceOrder(o, l, k)
  \/ \E l \in Level : StartLevel(l)
  \/ FillMaker
  \/ EndLevel

Spec == Init /\ [][Next]_vars

-----------------------------------------------------------------------------
\* Every variable has its type.
TypeOK ==
  /\ mem \in Memory
  /\ swept \in Level \cup {none}
  /\ cursor \in Pointer
  /\ queue \in [Level -> Seq(Order)]

\* Following the pointers of l from either end visits the orders of q.
Represents(m, l, q) ==
  /\ m.head[l] = IF q = <<>> THEN null ELSE q[1]
  /\ m.tail[l] = IF q = <<>> THEN null ELSE q[Len(q)]
  /\ \A i \in 1 .. Len(q) :
        /\ m.next[q[i]] = IF i = Len(q) THEN null ELSE q[i + 1]
        /\ m.prev[q[i]] = IF i = 1 THEN null ELSE q[i - 1]

\* The pointers are the sequences module OrderBook reasons about, whatever the
\* order of appends and removals: no order is skipped, repeated, or reachable
\* from two levels, and one that is on no level points nowhere, which
\* appendOrder relies on.
PointersMatchQueues ==
  /\ \A l \in Level : Represents(mem, l, queue[l])
  /\ \A o \in Order : Loose(o) => mem.next[o] = null /\ mem.prev[o] = null

\* The match loop always stands at the first in line, and is through with the
\* level (nextAsk = nullptr) exactly when the level is empty, though it takes
\* its next order from one that it unlinks and releases.
SweepInOrder == ~Idle => cursor = mem.head[swept]
=============================================================================
