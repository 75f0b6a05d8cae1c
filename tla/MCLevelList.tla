----------------------------- MODULE MCLevelList -----------------------------
(***************************************************************************)
(* TLC's instance of LevelList.                                            *)
(***************************************************************************)
EXTENDS LevelList

CONSTANTS o1, o2, o3, o4, bid, ask

MCOrder == {o1, o2, o3, o4}
MCLevel == {bid, ask}
==============================================================================
