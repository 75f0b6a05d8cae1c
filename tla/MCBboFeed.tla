------------------------------ MODULE MCBboFeed -------------------------------
(***************************************************************************)
(* TLC's instance of BboFeed.                                              *)
(***************************************************************************)
EXTENDS BboFeed

CONSTANT i1

MCOrderId == {i1}
MCPrice == {1, 2}
MCQuantity == {0, 1}
===============================================================================
