---------------------------- MODULE PriceTimeBook ----------------------------
(***************************************************************************)
(* What a price-time order book promises to clients who give every live    *)
(* order an id of its own: "best price first, FIFO within a level", cancel *)
(* by id, and replacement that keeps the place of an order made smaller.   *)
(* No pool, no index, no levels: orders are known by their ids, and `ahead`*)
(* says which of two orders at the same price came first.                  *)
(***************************************************************************)
EXTENDS Integers

CONSTANTS OrderId, Price, Quantity

Side == {"BUY", "SELL"}
Other(s) == IF s = "BUY" THEN "SELL" ELSE "BUY"

VARIABLES
  resting,    \* id -> [side, price, quantity] of the orders that rest
  ahead,      \* <<i, j>>: i and j rest at one price, and i is served first
  incoming,   \* the order being executed: {} or a set with its record
  trade       \* the trade of this step, or a record of zeros

vars == <<resting, ahead, incoming, trade>>

NoTrade == [buyOrderId |-> 0, sellOrderId |-> 0, price |-> 0, quantity |-> 0]
Ids == DOMAIN resting

\* A buy takes the lowest offers first, a sell the highest bids.
Preferred(s, p, q) == IF s = "SELL" THEN p < q ELSE p > q
Accepts(o, p) ==
  \/ o.isMarket
  \/ o.side = "BUY" /\ p <= o.price
  \/ o.side = "SELL" /\ p >= o.price

SamePlace(i, side, price) == resting[i].side = side /\ resting[i].price = price

\* The resting order an incoming one must trade with next.
IsNext(i, o) ==
  /\ resting[i].side = Other(o.side)
  /\ Accepts(o, resting[i].price)
  /\ \A j \in Ids : resting[j].side = Other(o.side) =>
        ~Preferred(resting[j].side, resting[j].price, resting[i].price)
  /\ \A j \in Ids : <<j, i>> \notin ahead

Without(i) == [j \in Ids \ {i} |-> resting[j]]
AheadWithout(i) == {pair \in ahead : pair[1] # i /\ pair[2] # i}
Behind(i, others, side, price) == {<<j, i>> : j \in {k \in others : SamePlace(k, side, price)}}

Init ==
  /\ resting = <<>>
  /\ ahead = {}
  /\ incoming = {}
  /\ trade = NoTrade

Submit(i, p, q, s, m) ==
  /\ incoming = {}
  /\ incoming' = {[id |-> i, side |-> s, price |-> p, quantity |-> q, isMarket |-> m]}
  /\ i \notin Ids
  /\ trade' = NoTrade
  /\ UNCHANGED <<resting, ahead>>

\* The incoming order o trades with the first of those it accepts: all that
\* both can, at the resting order's price.
Fill(o, i) ==
  /\ o.quantity > 0
  /\ IsNext(i, o)
  /\ LET left == resting[i].quantity
         qty == IF left < o.quantity THEN left ELSE o.quantity
     IN /\ incoming' = {[o EXCEPT !.quantity = @ - qty]}
        /\ trade' = [buyOrderId  |-> IF o.side = "BUY" THEN o.id ELSE i,
                     sellOrderId |-> IF o.side = "SELL" THEN o.id ELSE i,
                     price |-> resting[i].price, quantity |-> qty]
        /\ IF qty = left
           THEN resting' = Without(i) /\ ahead' = AheadWithout(i)
           ELSE resting' = [resting EXCEPT ![i].quantity = @ - qty] /\ ahead' = ahead

\* Nothing more to trade: what is left of a limit order rests, last in line.
Done(o) ==
  /\ incoming' = {}
  /\ trade' = NoTrade
  /\ o.quantity = 0 \/ \A i \in Ids : ~IsNext(i, o)
  /\ IF o.quantity = 0 \/ o.isMarket
     THEN UNCHANGED <<resting, ahead>>
     ELSE /\ resting' = [j \in Ids \cup {o.id} |->
                           IF j = o.id THEN [side |-> o.side, price |-> o.price,
                                             quantity |-> o.quantity]
                           ELSE resting[j]]
          /\ ahead' = ahead \cup Behind(o.id, Ids, o.side, o.price)

Cancel(i) ==
  /\ incoming = {} /\ incoming' = {}
  /\ i \in Ids
  /\ resting' = Without(i)
  /\ ahead' = AheadWithout(i)
  /\ trade' = NoTrade

\* Order i becomes order j: in its place if it only gets smaller, else last
\* in line at its new price.
Replace(i, j, p, q) ==
  /\ incoming = {} /\ incoming' = {}
  /\ i \in Ids
  /\ j = i \/ j \notin Ids
  /\ LET s == resting[i].side
         rename(k) == IF k = i THEN j ELSE k
     IN /\ resting' = [k \in (Ids \ {i}) \cup {j} |->
                         IF k = j THEN [side |-> s, price |-> p, quantity |-> q]
                         ELSE resting[k]]
        /\ ahead' = IF p = resting[i].price /\ q < resting[i].quantity
                    THEN {<<rename(pair[1]), rename(pair[2])>> : pair \in ahead}
                    ELSE AheadWithout(i) \cup Behind(j, Ids \ {i}, s, p)
  /\ trade' = NoTrade

Execute == \E o \in incoming : Done(o) \/ \E i \in Ids : Fill(o, i)

Next ==
  \/ \E i \in OrderId, p \in Price, q \in Quantity, s \in Side, m \in BOOLEAN :
        Submit(i, p, q, s, m)
  \/ Execute
  \/ \E i \in OrderId : Cancel(i)
  \/ \E i, j \in OrderId, p \in Price, q \in Quantity : Replace(i, j, p, q)

Spec == Init /\ [][Next]_vars
=============================================================================
