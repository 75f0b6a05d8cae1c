----------------------------- MODULE ClientView ------------------------------
(***************************************************************************)
(* The matching engine as its clients see it.  They know orders by their   *)
(* ids, which processOrder and modifyOrder put into trades and take from   *)
(* messages: this module says which id stands for which order, and that    *)
(* under it the engine is a price-time book.                               *)
(***************************************************************************)
EXTENDS OrderBook

\* What the engine says of an order when it trades or acknowledges it.
Terms(o) == [side |-> order[o].side, price |-> order[o].price, quantity |-> order[o].quantity]

\* The order that rests under an id.
AddressOf(i) == CHOOSE o \in Queued(book) : order[o].id = i

RestingView == [i \in RestingIds |-> Terms(AddressOf(i))]

\* The pairs of ids of which the first is served before the second.
PairsInFront(q) == {<<q[ij[1]], q[ij[2]]>> :
                      ij \in {ij \in (DOMAIN q) \X (DOMAIN q) : ij[1] < ij[2]}}
AheadView == {<<order[pair[1]].id, order[pair[2]].id>> :
                pair \in UNION {PairsInFront(Queue(book[s], p)) : s \in Side, p \in Price}}

IncomingView == IF taker = null THEN {} ELSE {order[taker]}

PTB == INSTANCE PriceTimeBook WITH
  resting <- RestingView, ahead <- AheadView, incoming <- IncomingView

-----------------------------------------------------------------------------
\* Every order that rests is found by its id, so that a cancel or a
\* replacement of it takes effect.
RestingIndexed == \A o \in Queued(book) :
  order[o].id \in DOMAIN orderMap /\ orderMap[order[o].id] = o

\* The engine is a price-time book for clients who give each live order an id
\* of its own.
ImplementsPriceTimeBook == PTB!Init /\ [][PTB!Next]_(PTB!vars)
==============================================================================
