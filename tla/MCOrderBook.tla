----------------------------- MODULE MCOrderBook -----------------------------
(***************************************************************************)
(* TLC's instances of OrderBook, with the clients' view of it.             *)
(***************************************************************************)
EXTENDS ClientView

CONSTANTS i1, i2, i3

MCOrderId1 == {i1}
MCOrderId2 == {i1, i2}
MCOrderId3 == {i1, i2, i3}
MCPrice == {1, 2}
MCQuantity == {1, 2}
MCQuantity0 == {0, 1, 2}     \* a FIX quantity of 2^32 arrives as 0

\* Ids are only compared and used as keys.
SymmetricIds == Permutations(OrderId)

-----------------------------------------------------------------------------
\* Price priority among those who want to trade: a limit order trades only if
\* no resting order of its own side offers a better price.
BestPriceFirst ==
  [][trade' # NoTrade /\ ~order[taker].isMarket =>
       \A p \in DOMAIN book[order[taker].side] :
          ~Better(order[taker].side, p, order[taker].price)]_vars
==============================================================================
