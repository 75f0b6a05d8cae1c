--------------------------- MODULE MCNetworkIngress ---------------------------
(***************************************************************************)
(* TLC's instance of NetworkIngress.  The messages: an order, one without  *)
(* a price, one with a checksum only; prices with no, few, too many        *)
(* decimals, with two dots and with too many digits for the integers; tags *)
(* that are no number, that end in 10 and that are too big for an int; a   *)
(* value with 10= inside; one given up.                                    *)
(***************************************************************************)
EXTENDS NetworkIngress

Field(t, s) == <<Tag(t), Text(s)>>
CheckSum == Field(Numeral(10), <<>>)
Id(s) == Field(Numeral(11), s)
Qty(n) == Field(Numeral(38), <<n>>)

MCMessage ==
  {Id(<<1>>) \o Field(Numeral(44), p) \o CheckSum :
     p \in {<<3, Dot, 1>>, <<3>>, <<Dot, 4, 1, 5>>, <<3, Dot, 2, Dot, 1>>, <<9, 9, 9>>}}
  \cup {Id(<<2, 1>>) \o Field(Numeral(41), <<1>>) \o CheckSum,
        Field(Numeral(35), <<20>>) \o Field(Numeral(35), <<>>) \o Qty(7) \o CheckSum,
        Id(<<1>>) \o Field(<<1, 1, 0>>, <<5>>) \o Qty(2) \o CheckSum,
        Id(<<1, 0, Equals>>) \o CheckSum,
        Qty(4) \o Field(<<2, 9, 4>>, <<6>>) \o Field(<<Dot>>, <<5>>) \o CheckSum,
        Id(<<3>>) \o <<Tag(Numeral(44)), End>>,
        CheckSum}
MCGarbage == {0}
===============================================================================
