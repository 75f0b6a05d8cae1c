---------------------------- MODULE MCMarketMaker -----------------------------
(***************************************************************************)
(* TLC's instance of MarketMaker.  Prices are few and close to the seeded  *)
(* book; a position of one share moves the quotes by half the spread.      *)
(***************************************************************************)
EXTENDS MarketMaker

MCOrderId == 1 .. 40
MCPrice == 0 .. 22
MCQuantity == {1, 2}
MCSimPrice == {4, 6}
===============================================================================
