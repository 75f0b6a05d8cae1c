------------------------------ MODULE MCSpscRing ------------------------------
(***************************************************************************)
(* TLC's instance of SpscRing.                                             *)
(***************************************************************************)
EXTENDS SpscRing

CONSTANTS a, b

MCItem == {a, b}
===============================================================================
