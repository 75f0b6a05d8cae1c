------------------------------ MODULE MCGateway -------------------------------
(***************************************************************************)
(* TLC's instance of Gateway: 3 times 3 is a product that wraps, 2 times 3 *)
(* one above the limit; the quantity 5 is cut to 0, and 4 is above the     *)
(* limit.  At 50% the collar around 2 admits 1 and 3, the one around 1     *)
(* only 1.                                                                 *)
(***************************************************************************)
EXTENDS Gateway

CONSTANTS i1, i2, i3

MCOrderId == {i1, i2, i3}
MCPrice == 0 .. 3
MCMsgQty == {1, 3, 4, 5}
MCQuantity == 0 .. 4

SymmetricIds == Permutations(OrderId)
===============================================================================
