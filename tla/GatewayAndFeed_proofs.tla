------------------------ MODULE GatewayAndFeed_proofs -------------------------
(***************************************************************************)
(* What is built around the matching engine, the gateway in front of it    *)
(* and the feed behind it.  Either runs the engine unchanged.              *)
(*                                                                         *)
(* The gateway: what rests in the book is within the limits of the risk    *)
(* engine and what trades is within its collar, but for the messages those *)
(* limits miss, and the rate limiter lets fewer than twice its limit pass: *)
(* for any limits, integer widths, prices and quantities.                  *)
(*                                                                         *)
(* The feed: a subscriber that nothing is on the way to holds the best     *)
(* prices of the book, unless the newest snapshot was lost: for any ring,  *)
(* any loss and any orders.                                                *)
(***************************************************************************)
EXTENDS Gateway, BboFeed, OrderBook_proofs

Within(p, q) == p > 0 /\ q <= maxOrderQty /\ p * q <= maxNotional

\* Some message that named the order was missed, or the order is within the
\* limits and, unless it still trades, not of size zero.
Limited(r, missed, trading) ==
  \/ r.id \in missed
  \/ /\ r.isMarket \/ Within(r.price, r.quantity)
     /\ trading \/ r.quantity > 0

\* All but the free orders are limited.
GateInv ==
  \A o \in 1 .. Len(order) : o \notin Free => Limited(order[o], escaped, o = taker)

-----------------------------------------------------------------------------
\* A step of the gateway is a step of the engine or leaves it alone.
LEMMA GatewayStepIsEngineStep == [GatewayNext]_gatewayVars => [Next]_vars
<1> SUFFICES ASSUME [GatewayNext]_gatewayVars PROVE [Next]_vars
  OBVIOUS
<1>1. ASSUME NEW i \in OrderId, NEW s \in Side, NEW msg \in Sound, NewOrderSingle(i, s, msg)
      PROVE  Next
  <2>1. msg.price \in Price /\ msg.qty % QtyMod \in Quantity /\ msg.isMarket \in BOOLEAN
    BY GatewayAssumption DEF Sound, Terms
  <2>2. Submit(i, msg.price, msg.qty % QtyMod, s, msg.isMarket)
    BY <1>1 DEF NewOrderSingle
  <2> QED BY <2>1, <2>2 DEF Next
<1>2. ASSUME NEW origId \in OrderId, NEW i \in OrderId, NEW msg \in Sound,
             CancelReplace(origId, i, msg)
      PROVE  Next
  <2>1. msg.price \in Price /\ msg.qty % QtyMod \in Quantity
    BY GatewayAssumption DEF Sound, Terms
  <2>2. \/ ReduceOrder(origId, i, msg.price, msg.qty % QtyMod)
        \/ ReplaceOrder(origId, i, msg.price, msg.qty % QtyMod)
    BY <1>2 DEF CancelReplace
  <2> QED BY <2>1, <2>2 DEF Next
<1>3. CASE CancelReplaceGone \/ Reject \/ RejectUncounted
  BY <1>3 DEF CancelReplaceGone, Reject, RejectUncounted, gatewayVars
<1>4. ASSUME NEW i \in OrderId, CancelRequest(i) PROVE Next
  BY <1>4 DEF CancelRequest, Next
<1>5. CASE Process
  BY <1>5 DEF Process, Sweep, Next
<1>6. CASE Tick \/ UNCHANGED gatewayVars
  BY <1>6 DEF Tick, gatewayVars
<1> QED BY <1>1, <1>2, <1>3, <1>4, <1>5, <1>6 DEF GatewayNext

-----------------------------------------------------------------------------
\* A product with a smaller quantity is no larger.
LEMMA SmallerProduct ==
  ASSUME NEW p \in Nat, NEW q \in Nat, NEW d \in Nat, d <= q
  PROVE  p * (q - d) <= p * q
<1>1. p * (q - d) = p * q - p * d
  OBVIOUS
<1>2. p * d >= 0 /\ p * q \in Int /\ p * d \in Int
  OBVIOUS
<1> QED BY <1>1, <1>2

\* What is within the limits stays there as it is filled.
LEMMA FilledWithin ==
  ASSUME NEW p \in Int, NEW q \in Nat, NEW d \in Nat, d <= q, Within(p, q)
  PROVE  Within(p, q - d)
<1>1. p \in Nat /\ p > 0 /\ q <= maxOrderQty /\ p * q <= maxNotional
  BY DEF Within
<1>2. p * (q - d) <= p * q
  BY <1>1, SmallerProduct
<1>3. p * (q - d) <= maxNotional
  <2>1. p * (q - d) \in Int /\ p * q \in Int
    BY <1>1
  <2> QED BY <1>1, <1>2, <2>1, GatewayAssumption
<1>4. q - d <= maxOrderQty
  BY <1>1, GatewayAssumption
<1> QED BY <1>1, <1>3, <1>4 DEF Within

\* int64_t holds what is small enough.
LEMMA SmallInt64 ==
  ASSUME NEW n \in Nat, n < HalfWord
  PROVE  Risk!Int64(n) = n
<1>1. HalfWord \in Nat \ {0}
  BY GatewayAssumption
<1>2. (n + HalfWord) % (2 * HalfWord) = n + HalfWord
  BY <1>1
<1> QED BY <1>1, <1>2 DEF Risk!Int64

\* A message that passed and was not misread asks for what the limits allow.
LEMMA PassedWithin ==
  ASSUME NEW msg \in Sound, ~Misread(msg)
  PROVE  /\ msg.qty % QtyMod > 0
         /\ msg.isMarket \/ Within(msg.price, msg.qty % QtyMod)
<1>1. /\ msg.qty \in Int /\ msg.price \in Int
      /\ QtyMod \in Nat \ {0} /\ HalfWord \in Nat \ {0}
  <2>1. msg.price \in MsgPrice /\ msg.qty \in MsgQty
    BY DEF Sound, Terms
  <2>2. /\ MsgPrice \subseteq Int /\ MsgQty \subseteq Int
        /\ QtyMod \in Nat \ {0} /\ HalfWord \in Nat \ {0}
    <3>1. Price \subseteq Int
      BY ConstantsAssumption
    <3> QED BY <3>1, GatewayAssumption, ConstantsAssumption
  <2> QED BY <2>1, <2>2
<1>2. /\ msg.qty > 0
      /\ msg.isMarket \/ msg.price > 0
      /\ msg.qty % QtyMod <= maxOrderQty
      /\ msg.isMarket \/ Risk!Int64(msg.price * msg.qty) <= maxNotional
  <2>1. /\ ~Risk!InvalidQuantity(msg) /\ ~Risk!InvalidPrice(msg)
        /\ ~Risk!FatFingerSize(msg) /\ ~Risk!FatFingerNotional(msg)
    BY DEF Sound, Risk!Sound
  <2>2. msg.qty > 0 /\ (msg.isMarket \/ msg.price > 0)
    BY <1>1, <2>1 DEF Risk!InvalidQuantity, Risk!InvalidPrice
  <2>3. msg.qty % QtyMod <= maxOrderQty
    <3>1. msg.qty % QtyMod \in Int
      BY <1>1
    <3> QED BY <2>1, <3>1, GatewayAssumption DEF Risk!FatFingerSize
  <2>4. msg.isMarket \/ Risk!Int64(msg.price * msg.qty) <= maxNotional
    <3>1. Risk!Int64(msg.price * msg.qty) \in Int
      <4>1. msg.price * msg.qty \in Int /\ 2 * HalfWord \in Nat \ {0}
        BY <1>1
      <4> QED BY <1>1, <4>1 DEF Risk!Int64
    <3> QED BY <2>1, <3>1, GatewayAssumption DEF Risk!FatFingerNotional
  <2> QED BY <2>2, <2>3, <2>4
<1>3. msg.qty < QtyMod /\ msg.price * msg.qty < HalfWord
  <2>1. msg.price * msg.qty \in Int
    BY <1>1
  <2> QED BY <1>1, <2>1 DEF Misread
<1>4. msg.qty % QtyMod = msg.qty
  BY <1>1, <1>2, <1>3
<1>5. msg.isMarket \/ msg.price * msg.qty <= maxNotional
  <2>1. CASE ~msg.isMarket
    <3>1. msg.price * msg.qty \in Nat
      BY <1>1, <1>2, <2>1
    <3> QED BY <1>2, <1>3, <3>1, SmallInt64
  <2> QED BY <2>1
<1> QED BY <1>2, <1>4, <1>5 DEF Within
\* A message that was accepted leaves behind an order within the limits.
LEMMA AcceptedLimited ==
  ASSUME NEW msg \in Sound, NEW i \in OrderId, NEW r, NEW missed, NEW trading \in BOOLEAN,
         Note(i, missed), Misread(msg) => missed,
         r.id = i, r.price = msg.price, r.quantity = msg.qty % QtyMod,
         r.isMarket \in BOOLEAN, msg.isMarket => r.isMarket \/ missed
  PROVE  Limited(r, escaped', trading)
<1>1. CASE missed
  BY <1>1 DEF Note, Limited
<1>2. CASE ~missed
  <2>1. /\ msg.qty % QtyMod > 0
        /\ msg.isMarket \/ Within(msg.price, msg.qty % QtyMod)
    BY <1>2, PassedWithin
  <2> QED BY <1>2, <2>1 DEF Limited
<1> QED BY <1>1, <1>2

\* Prices and quantities are integers.
LEMMA OrderNumbers ==
  ASSUME NEW r \in Order
  PROVE  r.price \in Int /\ r.quantity \in Nat
<1>1. r.price \in Price /\ r.quantity \in 0 .. QtyMod - 1
  BY DEF Order
<1>2. Price \subseteq Int /\ QtyMod \in Int
  BY ConstantsAssumption
<1>3. r.quantity \in Nat
  BY <1>1, <1>2
<1> QED BY <1>1, <1>2, <1>3

\* So does a fill.
LEMMA FilledLimited ==
  ASSUME NEW r \in Order, NEW d \in Nat, d <= r.quantity, NEW trading \in BOOLEAN,
         NEW still \in BOOLEAN, Limited(r, escaped, trading), still \/ r.quantity - d > 0
  PROVE  Limited([r EXCEPT !.quantity = r.quantity - d], escaped, still)
<1> DEFINE new == [r EXCEPT !.quantity = r.quantity - d]
<1>1. /\ new.id = r.id /\ new.price = r.price /\ new.isMarket = r.isMarket
      /\ new.quantity = r.quantity - d
  BY DEF Order
<1>2. r.price \in Int /\ r.quantity \in Nat
  BY OrderNumbers
<1> HIDE DEF new
<1>3. CASE r.id \in escaped
  BY <1>1, <1>3 DEF Limited
<1>4. CASE r.isMarket
  BY <1>1, <1>4 DEF Limited
<1>5. CASE Within(r.price, r.quantity)
  BY <1>1, <1>2, <1>5, FilledWithin DEF Limited
<1> QED BY <1>3, <1>4, <1>5 DEF Limited, new

\* What was limited stays so while the set of missed ids grows.
LEMMA StillLimited ==
  ASSUME NEW r, NEW trading, NEW still, Limited(r, escaped, trading), trading => still,
         escaped \subseteq escaped'
  PROVE  Limited(r, escaped', still)
BY DEF Limited

\* A new order is handed out within the limits, and no other is touched.
LEMMA NewOrderLimited ==
  ASSUME IInv, GateInv, NEW i \in OrderId, NEW s \in Side, NEW msg \in Sound,
         NewOrderSingle(i, s, msg)
  PROVE  GateInv'
<1> DEFINE new == [id |-> i, price |-> msg.price, quantity |-> msg.qty % QtyMod,
                   side |-> s, isMarket |-> msg.isMarket]
           n == Len(order)
<1>1. /\ Note(i, Misread(msg)) /\ Acquire(new) /\ taker = null
  BY DEF NewOrderSingle, Submit
<1>2. Limited(new, escaped', TRUE) /\ escaped \subseteq escaped'
  <2>1. escaped \subseteq escaped'
    BY <1>1 DEF Note
  <2>2. new.isMarket \in BOOLEAN
    BY DEF Sound, Terms
  <2>3. Limited(new, escaped', TRUE)
    BY <1>1, <2>2, AcceptedLimited
  <2> QED BY <2>1, <2>3
<1> HIDE DEF new
<1>3. /\ n \in Nat /\ DOMAIN order = 1 .. n
      /\ order \in Seq(Order \cup {Blank})
      /\ freeList \in Seq(1 .. n) /\ IsInjective(freeList)
  BY LenProperties DEF IInv, Typed
<1>4. ASSUME NEW o \in 1 .. n, o \notin Free PROVE Limited(order[o], escaped', o = taker')
  <2>1. Limited(order[o], escaped, o = taker)
    BY <1>4 DEF GateInv
  <2>2. o # taker
    BY <1>1, <1>3 DEF null
  <2> QED BY <1>2, <2>1, <2>2, StillLimited
<1>5. CASE freeList = <<>>
  <2>1. order' = Append(order, new) /\ taker' = n + 1 /\ freeList' = freeList
    BY <1>1, <1>5 DEF Acquire
  <2>2. /\ Len(order') = n + 1 /\ order'[n + 1] = new
        /\ \A o \in 1 .. n : order'[o] = order[o]
    <3>1. PICK f : f = order /\ Len(f) = n /\ f \in Seq(Order \cup {Blank})
      BY <1>3
    <3>2. order' = Append(f, new)
      BY <2>1, <3>1
    <3>3. Len(order') = n + 1 /\ order'[n + 1] = new /\ \A o \in 1 .. n : order'[o] = f[o]
      BY <1>3, <3>1, <3>2
    <3> QED BY <3>1, <3>3
  <2>3. Free' = Free
    BY <2>1 DEF Free
  <2>4. ASSUME NEW o \in 1 .. n + 1, o \notin Free
        PROVE  Limited(order'[o], escaped', o = taker')
    <3>1. CASE o = n + 1
      BY <1>2, <2>1, <2>2, <3>1 DEF Limited
    <3>2. CASE o # n + 1
      <4>1. o \in 1 .. n
        BY <1>3, <3>2
      <4> QED BY <1>4, <2>2, <2>4, <4>1
    <3> QED BY <3>1, <3>2
  <2> QED BY <2>2, <2>3, <2>4 DEF GateInv
<1>6. CASE freeList # <<>>
  <2> DEFINE a == Last(freeList)
  <2>1. order' = [order EXCEPT ![a] = new] /\ taker' = a /\ freeList' = Front(freeList)
    BY <1>1, <1>6 DEF Acquire
  <2>2. a \in 1 .. n /\ a \in Free /\ Free' = Free \ {a}
    BY <1>3, <1>6, <2>1, FrontRange DEF Free
  <2> HIDE DEF a
  <2>3. /\ Len(order') = n /\ order'[a] = new
        /\ \A o \in 1 .. n : o # a => order'[o] = order[o]
    <3>1. /\ DOMAIN order' = 1 .. n /\ order'[a] = new
          /\ \A o \in 1 .. n : o # a => order'[o] = order[o]
      BY <1>3, <2>1, <2>2
    <3>2. Len(order') = n
      <4>1. IInv'
        <5>1. msg.price \in Price /\ msg.qty % QtyMod \in Quantity /\ msg.isMarket \in BOOLEAN
          BY GatewayAssumption DEF Sound, Terms
        <5>2. Submit(i, msg.price, msg.qty % QtyMod, s, msg.isMarket)
          BY DEF NewOrderSingle
        <5> QED BY <5>1, <5>2, SubmitStep
      <4>2. order' \in Seq(Order \cup {Blank})
        BY <4>1 DEF IInv, Typed
      <4>3. Len(order') \in Nat /\ DOMAIN order' = 1 .. Len(order')
        BY <4>2, LenProperties
      <4> QED BY <1>3, <3>1, <4>3
    <3> QED BY <3>1, <3>2
  <2>4. ASSUME NEW o \in 1 .. n, o \notin Free'
        PROVE  Limited(order'[o], escaped', o = taker')
    <3>1. CASE o = a
      BY <1>2, <2>1, <2>3, <3>1 DEF Limited
    <3>2. CASE o # a
      BY <1>4, <2>2, <2>3, <2>4, <3>2
    <3> QED BY <3>1, <3>2
  <2> QED BY <2>3, <2>4 DEF GateInv
<1> QED BY <1>5, <1>6

\* A replaced order is within the limits, or named by the message they missed.
LEMMA ReplacedLimited ==
  ASSUME IInv, GateInv, NEW origId \in OrderId, NEW i \in OrderId, NEW msg \in Sound,
         CancelReplace(origId, i, msg)
  PROVE  GateInv'
<1> DEFINE O == orderMap[origId]
           n == Len(order)
           missed == Misread(msg) \/ msg.isMarket
<1>1. /\ Note(i, missed) /\ escaped \subseteq escaped' /\ taker' = taker
      /\ freeList' = freeList
  BY DEF CancelReplace, Note, ReduceOrder, ReplaceOrder
<1>2. /\ n \in Nat /\ order \in [1 .. n -> Order \cup {Blank}]
  BY LenProperties DEF IInv, Typed
<1>3. ASSUME NEW o \in 1 .. n, o \notin Free PROVE Limited(order[o], escaped', o = taker)
  <2>1. Limited(order[o], escaped, o = taker)
    BY <1>3 DEF GateInv
  <2> QED BY <1>1, <2>1, StillLimited
<1>4. CASE \/ ReduceOrder(origId, i, msg.price, msg.qty % QtyMod)
           \/ ReplaceOrder(origId, i, msg.price, msg.qty % QtyMod)
  <2>1. /\ origId \in DOMAIN orderMap
        /\ \/ /\ msg.price = order[O].price
              /\ order' = [order EXCEPT ![O].quantity = msg.qty % QtyMod, ![O].id = i]
           \/ order' = [order EXCEPT ![O].quantity = msg.qty % QtyMod, ![O].id = i,
                                     ![O].price = msg.price]
    BY <1>4 DEF ReduceOrder, ReplaceOrder
  <2>2. O \in 1 .. n /\ order[O] \in Order
    BY <2>1, IndexFacts
  <2> HIDE DEF O
  <2>3. /\ DOMAIN order' = 1 .. n
        /\ \A o \in 1 .. n : o # O => order'[o] = order[o]
        /\ order'[O].id = i /\ order'[O].price = msg.price
        /\ order'[O].quantity = msg.qty % QtyMod
        /\ order'[O].isMarket = order[O].isMarket
    BY <1>2, <2>1, <2>2 DEF Order
  <2>4. Len(order') = n
    BY <1>2, <2>3, <2>1, <2>2
  <2>5. Limited(order'[O], escaped', O = taker)
    <3>1. order'[O].isMarket \in BOOLEAN
      BY <2>2, <2>3 DEF Order
    <3> QED BY <1>1, <2>3, <3>1, AcceptedLimited
  <2>6. ASSUME NEW o \in 1 .. n, o \notin Free PROVE Limited(order'[o], escaped', o = taker)
    BY <1>3, <2>3, <2>5, <2>6
  <2> QED BY <1>1, <2>4, <2>6 DEF GateInv, Free
<1> QED BY <1>4 DEF CancelReplace

\* A cancelled order is free.
LEMMA CancelLimited ==
  ASSUME IInv, GateInv, NEW i \in OrderId, CancelRequest(i)
  PROVE  GateInv'
<1> DEFINE n == Len(order)
           O == orderMap[i]
<1>1. /\ i \in DOMAIN orderMap /\ taker' = taker /\ escaped' = escaped
      /\ order' = [order EXCEPT ![O] = Blank]
      /\ freeList' = Append(freeList, O)
  BY DEF CancelRequest, CancelOrder
<1>2. O \in 1 .. n /\ O \notin Free
  BY <1>1, IndexFacts
<1>3. n \in Nat /\ order \in [1 .. n -> Order \cup {Blank}]
  BY LenProperties DEF IInv, Typed
<1> HIDE DEF O
<1>4. Free' = Free \cup {O}
  BY <1>1, <1>2, ReleaseFree
<1>5. /\ Len(order') = n
      /\ \A o \in 1 .. n : o # O => order'[o] = order[o]
  BY <1>1, <1>2, <1>3
<1>6. ASSUME NEW o \in 1 .. n, o \notin Free'
      PROVE  Limited(order'[o], escaped', o = taker')
  BY <1>1, <1>4, <1>5, <1>6 DEF GateInv
<1> QED BY <1>5, <1>6 DEF GateInv

\* A trade leaves the taker and a maker that keeps a remainder within the
\* limits; a maker that keeps none is free.
LEMMA FillLimited ==
  ASSUME IInv, GateInv, FillMaker \/ FillTaker, escaped' = escaped
  PROVE  GateInv'
<1> DEFINE n == Len(order)
           M == Maker
           a == order[taker].quantity
           b == order[M].quantity
           cut(o, d) == [order[o] EXCEPT !.quantity = order[o].quantity - d]
<1>1. Marketable /\ taker # null /\ taker' = taker
  BY DEF FillMaker, FillTaker, Marketable
<1>2. /\ M \in 1 .. n /\ M \notin Free /\ M # taker /\ order[M] \in Order
      /\ taker \in 1 .. n /\ taker \notin Free /\ order[taker] \in Order
  BY <1>1, MakerFacts, LinkedFacts, TakerFacts
<1>3. a \in Nat /\ b \in Nat
  BY <1>2, OrderNumbers
<1>4. n \in Nat /\ order \in [1 .. n -> Order \cup {Blank}]
  BY LenProperties DEF IInv, Typed
<1>5. /\ Limited(order[taker], escaped, TRUE)
      /\ Limited(order[M], escaped, FALSE)
  <2>1. Limited(order[taker], escaped, taker = taker) /\ Limited(order[M], escaped, M = taker)
    BY <1>2 DEF GateInv
  <2> QED BY <1>2, <2>1 DEF Limited
<1>6. CASE FillMaker
  <2>1. /\ b <= a
        /\ order' = [order EXCEPT ![taker].quantity = @ - b, ![M] = Blank]
        /\ freeList' = Append(freeList, M)
    BY <1>6 DEF FillMaker
  <2> HIDE DEF M, b
  <2>2. /\ Len(order') = n /\ order'[taker] = cut(taker, b)
        /\ \A o \in 1 .. n : o # M /\ o # taker => order'[o] = order[o]
    <3> DEFINE rest == cut(taker, b)
    <3>1. order' = [[order EXCEPT ![taker] = rest] EXCEPT ![M] = Blank]
      BY <2>1
    <3> HIDE DEF rest
    <3>2. /\ Len(order') = n /\ order'[taker] = rest
          /\ \A o \in 1 .. n : o # M /\ o # taker => order'[o] = order[o]
      BY <1>2, <1>4, <3>1
    <3> QED BY <3>2 DEF rest
  <2>3. Free' = Free \cup {M}
    BY <1>2, <2>1, ReleaseFree
  <2>4. Limited(cut(taker, b), escaped, TRUE)
    BY <1>2, <1>3, <1>5, <2>1, FilledLimited
  <2>5. ASSUME NEW o \in 1 .. n, o \notin Free'
        PROVE  Limited(order'[o], escaped', o = taker')
    <3>1. CASE o = taker
      BY <1>1, <2>2, <2>4, <3>1 DEF Limited
    <3>2. CASE o # taker
      <4>1. Limited(order[o], escaped, o = taker)
        BY <2>3, <2>5 DEF GateInv
      <4> QED BY <1>1, <2>2, <2>3, <2>5, <3>2, <4>1
    <3> QED BY <3>1, <3>2
  <2> QED BY <2>2, <2>5 DEF GateInv
<1>7. CASE FillTaker
  <2>1. /\ b > a
        /\ order' = [order EXCEPT ![taker].quantity = 0, ![M].quantity = @ - a]
        /\ freeList' = freeList
    BY <1>7 DEF FillTaker
  <2>2. Limited(cut(M, a), escaped, FALSE) /\ Limited(cut(taker, a), escaped, TRUE)
    <3>1. b - a > 0 /\ a <= b /\ a <= a
      BY <1>3, <2>1
    <3> QED BY <1>2, <1>3, <1>5, <3>1, FilledLimited
  <2> HIDE DEF M
  <2>3. /\ Len(order') = n
        /\ order'[taker] = cut(taker, a) /\ order'[M] = cut(M, a)
        /\ \A o \in 1 .. n : o # M /\ o # taker => order'[o] = order[o]
    <3> DEFINE left == cut(taker, a)
               rest == cut(M, a)
    <3>1. left = [order[taker] EXCEPT !.quantity = 0]
      BY <1>3
    <3>2. order' = [[order EXCEPT ![taker] = left] EXCEPT ![M] = rest]
      BY <1>2, <2>1, <3>1
    <3> HIDE DEF left, rest
    <3>3. /\ Len(order') = n /\ order'[taker] = left /\ order'[M] = rest
          /\ \A o \in 1 .. n : o # M /\ o # taker => order'[o] = order[o]
      BY <1>2, <1>4, <3>2
    <3> QED BY <3>3 DEF left, rest
  <2>4. ASSUME NEW o \in 1 .. n, o \notin Free
        PROVE  Limited(order'[o], escaped', o = taker')
    <3>1. CASE o = taker
      BY <1>1, <2>2, <2>3, <3>1 DEF Limited
    <3>2. CASE o = M
      BY <1>1, <1>2, <2>2, <2>3, <3>2 DEF Limited
    <3>3. CASE o # taker /\ o # M
      <4>1. Limited(order[o], escaped, o = taker)
        BY <2>4 DEF GateInv
      <4> QED BY <1>1, <2>3, <3>3, <4>1
    <3> QED BY <3>1, <3>2, <3>3
  <2> QED BY <2>1, <2>3, <2>4 DEF GateInv, Free
<1> QED BY <1>6, <1>7

\* An order comes to rest only with a remainder.
LEMMA FinishLimited ==
  ASSUME IInv, GateInv, Finish, escaped' = escaped
  PROVE  GateInv'
<1> DEFINE n == Len(order)
<1>1. taker # null /\ taker' = null
  BY DEF Finish
<1>2. taker \in 1 .. n /\ taker \notin Free
  BY <1>1, TakerFacts
<1>3. n \in Nat /\ order \in [1 .. n -> Order \cup {Blank}]
  BY LenProperties DEF IInv, Typed
<1>4. ASSUME NEW o \in 1 .. n, o \notin Free, o # taker
      PROVE  Limited(order[o], escaped', o = taker')
  <2>1. Limited(order[o], escaped, o = taker)
    BY <1>4 DEF GateInv
  <2> QED BY <1>4, <2>1 DEF Limited
<1>5. CASE order[taker].quantity > 0 /\ ~order[taker].isMarket
  <2>1. order' = order /\ freeList' = freeList
    BY <1>5 DEF Finish, Rest
  <2>2. Limited(order[taker], escaped', taker = taker')
    <3>1. Limited(order[taker], escaped, taker = taker)
      BY <1>2 DEF GateInv
    <3> QED BY <1>5, <3>1 DEF Limited
  <2>3. ASSUME NEW o \in 1 .. n, o \notin Free PROVE Limited(order[o], escaped', o = taker')
    BY <1>4, <2>2, <2>3
  <2> QED BY <2>1, <2>3 DEF GateInv, Free
<1>6. CASE ~(order[taker].quantity > 0 /\ ~order[taker].isMarket)
  <2>1. order' = [order EXCEPT ![taker] = Blank] /\ freeList' = Append(freeList, taker)
    BY <1>6 DEF Finish, Discard
  <2>2. /\ Len(order') = n
        /\ \A o \in 1 .. n : o # taker => order'[o] = order[o]
    BY <1>2, <1>3, <2>1
  <2>3. Free' = Free \cup {taker}
    BY <1>2, <2>1, ReleaseFree
  <2>4. ASSUME NEW o \in 1 .. n, o \notin Free'
        PROVE  Limited(order'[o], escaped', o = taker')
    BY <1>4, <2>2, <2>3, <2>4
  <2> QED BY <2>2, <2>4 DEF GateInv
<1> QED BY <1>5, <1>6

\* No step of the gateway lets an order past the limits unnoticed.
LEMMA GateStep == IInv /\ GateInv /\ [GatewayNext]_gatewayVars => GateInv'
<1> SUFFICES ASSUME IInv, GateInv, [GatewayNext]_gatewayVars PROVE GateInv'
  OBVIOUS
<1>1. CASE CancelReplaceGone \/ Reject \/ RejectUncounted
  <2>1. UNCHANGED <<vars, escaped>>
    BY <1>1 DEF CancelReplaceGone, Reject, RejectUncounted, gatewayVars
  <2>2. order' = order /\ freeList' = freeList /\ taker' = taker /\ escaped' = escaped
    BY <2>1 DEF vars
  <2> QED BY <2>2 DEF GateInv, Free
<1>2. ASSUME UNCHANGED <<vars, escaped>> PROVE GateInv'
  <2>1. order' = order /\ freeList' = freeList /\ taker' = taker /\ escaped' = escaped
    BY <1>2 DEF vars
  <2> QED BY <2>1 DEF GateInv, Free
<1>3. CASE Process
  BY <1>3, FillLimited, FinishLimited DEF Process, Sweep
<1>4. CASE Tick \/ UNCHANGED gatewayVars
  BY <1>2, <1>4 DEF Tick, gatewayVars
<1> QED
  BY <1>1, <1>2, <1>3, <1>4, NewOrderLimited, ReplacedLimited, CancelLimited
  DEF GatewayNext

-----------------------------------------------------------------------------
\* Behind the gateway the matching engine runs as it does on its own: whatever
\* holds of its specification holds of the gateway's.
THEOREM GatewayRunsEngine == GatewaySpec => Spec
BY GatewayStepIsEngineStep, PTL DEF GatewaySpec, GatewayInit, Spec

\* The pool starts with every order free.
LEMMA InitGateInv == GatewayInit => GateInv
<1> SUFFICES ASSUME Init PROVE GateInv
  BY DEF GatewayInit
<1>1. DOMAIN freeList = 1 .. PoolSize /\ \A o \in 1 .. PoolSize : freeList[o] = o
  BY DEF Init
<1>2. Len(order) = PoolSize
  <2>1. order \in [1 .. PoolSize -> {Blank}] /\ PoolSize \in Nat
    BY ConstantsAssumption DEF Init
  <2> QED BY <2>1
<1> QED BY <1>1, <1>2 DEF GateInv, Free, Range

\* Whatever trades and replacements led there, an order in the book is within
\* the limits on size and value, or a message that named it was one the limits
\* miss (property RestingWithinLimits).
THEOREM RestingStaysWithinLimits == GatewaySpec => []RestingWithinLimits
<1>1. IInv /\ GateInv => RestingWithinLimits
  <2> SUFFICES ASSUME IInv, GateInv, NEW o \in Queued(book), order[o].id \notin escaped
               PROVE  /\ order[o].price > 0
                      /\ order[o].quantity \in 1 .. maxOrderQty
                      /\ order[o].price * order[o].quantity <= maxNotional
    BY DEF RestingWithinLimits
  <2>1. o \in 1 .. Len(order) /\ o \notin Free /\ o # taker
    BY IInvImplies DEF PoolExact, Queued
  <2>2. ~order[o].isMarket
    BY IInvImplies DEF LevelsFiled, Queued
  <2>3. Limited(order[o], escaped, o = taker)
    BY <2>1 DEF GateInv
  <2>4. Within(order[o].price, order[o].quantity) /\ order[o].quantity > 0
    BY <2>1, <2>2, <2>3 DEF Limited
  <2>5. order[o].quantity \in Nat
    BY <2>1, OrderNumbers DEF IInv, Held
  <2> QED BY <2>4, <2>5, GatewayAssumption DEF Within
<1> QED BY <1>1, InitGateInv, GateStep, GatewayRunsEngine, Invariance, PTL DEF GatewaySpec
-----------------------------------------------------------------------------
(* The rate limiter.                                                       *)

\* How many messages of the limiter's window were accepted: those after the
\* limit are counted too, but rejected.
Admitted == IF windowMsgCount < maxMsgsPerWindow THEN windowMsgCount ELSE maxMsgsPerWindow
Earlier == Len(accepted) - Admitted

\* What was accepted before the window was accepted no later than it started;
\* the window starts with a message; and what was accepted before the window
\* before it, or was the first message of that if it was full, is older by a
\* window's length.
RateInv ==
  /\ windowMsgCount \in Nat /\ windowStart \in Nat /\ now \in Nat
  /\ windowStart <= now
  /\ windowMsgCount = 0 => windowStart + windowDuration <= now
  /\ accepted \in Seq(Nat)
  /\ Admitted <= Len(accepted)
  /\ \A k \in 1 .. Len(accepted) :
        /\ accepted[k] <= now
        /\ k <= Earlier => accepted[k] <= windowStart
        /\ k = Earlier + 1 => accepted[k] = windowStart
        /\ k > Earlier => accepted[k] >= windowStart
        /\ k <= Earlier - maxMsgsPerWindow + 1 => accepted[k] + windowDuration <= windowStart
  /\ LessThanTwice

\* A counted message that is accepted.
LEMMA AcceptRate == ASSUME RateInv, Accept PROVE RateInv'
<1> DEFINE n == Len(accepted)
           m == maxMsgsPerWindow
           d == windowDuration
           rolls == now - windowStart >= d
<1>1. /\ m \in Nat /\ d \in Nat /\ now \in Nat /\ windowStart \in Nat /\ windowMsgCount \in Nat
      /\ accepted \in Seq(Nat) /\ n \in Nat
  BY GatewayAssumption, LenProperties DEF RateInv
<1>2. /\ accepted' = Append(accepted, now) /\ now' = now
      /\ windowMsgCount' <= m
      /\ windowMsgCount' = IF rolls THEN 1 ELSE windowMsgCount + 1
      /\ windowStart' = IF rolls THEN now ELSE windowStart
  BY DEF Accept, Limiter, Risk!RateLimit, Risk!Passed
<1>3. /\ accepted' \in Seq(Nat) /\ Len(accepted') = n + 1 /\ accepted'[n + 1] = now
      /\ \A k \in 1 .. n : accepted'[k] = accepted[k] /\ accepted[k] \in Nat
  BY <1>1, <1>2, AppendProperties, ElementOfSeq
<1>4. DOMAIN accepted = 1 .. n /\ DOMAIN accepted' = 1 .. n + 1
  BY <1>1, <1>3, LenProperties
<1>5. /\ Admitted \in Nat /\ Admitted <= n /\ Earlier = n - Admitted
      /\ windowStart <= now
      /\ Admitted = IF windowMsgCount < m THEN windowMsgCount ELSE m
  BY <1>1 DEF RateInv, Admitted, Earlier
<1>6. /\ Admitted' = windowMsgCount' /\ windowMsgCount' \in Nat
      /\ Earlier' = n + 1 - windowMsgCount'
  BY <1>1, <1>2, <1>3 DEF Admitted, Earlier
<1> DEFINE e == Earlier
           e1 == Earlier'
           s1 == windowStart'
<1>7. /\ e1 = IF rolls THEN n ELSE e
      /\ e1 \in Nat /\ e \in Nat /\ s1 \in Nat /\ s1 <= now
      /\ rolls => windowStart + d <= s1 /\ s1 = now
      /\ ~rolls => s1 = windowStart
      /\ m > 0
  <2>1. /\ rolls => windowStart + d <= s1 /\ s1 = now
        /\ ~rolls => s1 = windowStart
        /\ s1 \in Nat /\ s1 <= now /\ m > 0
    BY <1>1, <1>2, <1>5
  <2>2. CASE rolls
    <3>1. e1 = n
      BY <1>1, <1>2, <1>6, <2>2
    <3> QED BY <1>1, <1>5, <2>1, <2>2, <3>1
  <2>3. CASE ~rolls
    <3>1. windowMsgCount' = windowMsgCount + 1 /\ windowMsgCount < m
      BY <1>1, <1>2, <2>3
    <3>2. e1 = e
      BY <1>1, <1>5, <1>6, <3>1
    <3> QED BY <1>1, <1>5, <2>1, <2>3, <3>2
  <2> QED BY <2>2, <2>3
<1>8. ASSUME NEW k \in 1 .. n
      PROVE  /\ accepted[k] \in Nat /\ accepted[k] <= now
             /\ k <= e => accepted[k] <= windowStart
             /\ k = e + 1 => accepted[k] = windowStart
             /\ k > e => accepted[k] >= windowStart
             /\ k <= e - m + 1 => accepted[k] + d <= windowStart
  BY <1>3 DEF RateInv
<1>9. n + 1 = e1 + 1 => s1 = now
  <2>1. windowMsgCount = 0 => rolls
    BY <1>1 DEF RateInv
  <2>2. CASE ~rolls
    <3>1. Admitted = windowMsgCount /\ windowMsgCount # 0
      BY <1>1, <1>2, <1>5, <2>1, <2>2
    <3>2. e < n
      BY <1>1, <1>5, <3>1
    <3> QED BY <1>1, <1>7, <2>2, <3>2
  <2> QED BY <1>7, <2>2
<1>10. e1 >= n + 1 - m
  BY <1>1, <1>2, <1>6
<1> HIDE DEF n, m, d, rolls, e, e1, s1
<1>11. ASSUME NEW k \in 1 .. n
       PROVE  /\ k <= e1 => accepted[k] <= s1
              /\ k = e1 + 1 => accepted[k] = s1
              /\ k > e1 => accepted[k] >= s1
              /\ k <= e1 - m + 1 => accepted[k] + d <= s1
  <2>1. CASE rolls
    <3>1. n - m <= e
      BY <1>1, <1>5 DEF n, m, e
    <3>2. /\ e1 = n /\ s1 = now
          /\ k <= n - m + 1 => k <= e + 1
      BY <1>1, <1>7, <2>1, <3>1
    <3>3. k <= e + 1 => accepted[k] + d <= s1
      BY SMTT(20), <1>1, <1>7, <1>8, <2>1
    <3> QED BY <1>1, <1>8, <3>2, <3>3
  <2>2. CASE ~rolls
    BY <1>7, <1>8, <2>2
  <2> QED BY <2>1, <2>2
<1>12. ASSUME NEW k \in 1 .. n + 1
       PROVE  /\ accepted'[k] <= now
              /\ k <= e1 => accepted'[k] <= s1
              /\ k = e1 + 1 => accepted'[k] = s1
              /\ k > e1 => accepted'[k] >= s1
              /\ k <= e1 - m + 1 => accepted'[k] + d <= s1
  <2>1. CASE k \in 1 .. n
    BY <1>3, <1>8, <1>11, <2>1 DEF n
  <2>2. CASE k = n + 1
    <3>1. e1 <= n
      BY <1>1, <1>5, <1>7 DEF n, e
    <3>2. accepted'[k] = now
      BY <1>3, <2>2 DEF n
    <3> QED BY <1>1, <1>7, <1>9, <2>2, <3>1, <3>2
  <2> QED BY <1>1, <2>1, <2>2
<1>13. ASSUME NEW first \in 1 .. n + 1, NEW last \in 1 .. n + 1, last = first + 2 * m - 1
       PROVE  accepted'[last] - accepted'[first] >= d
  <2>1. CASE last \in 1 .. n
    <3>1. first \in 1 .. n
      BY <1>1, <1>7, <1>13, <2>1
    <3>2. accepted[last] - accepted[first] >= d
      BY <1>4, <1>13, <2>1, <3>1 DEF RateInv, LessThanTwice, n, m, d
    <3> QED BY <1>3, <2>1, <3>1, <3>2 DEF n
  <2>2. CASE last = n + 1
    <3>1. first <= e1 - m + 1 /\ first \in 1 .. n
      BY <1>1, <1>7, <1>10, <1>13, <2>2
    <3>2. accepted[first] + d <= s1 /\ accepted[first] \in Nat
      BY <1>8, <1>11, <3>1
    <3>3. accepted'[last] = now /\ accepted'[first] = accepted[first]
      BY <1>3, <2>2, <3>1 DEF n
    <3> QED BY <1>1, <1>7, <3>2, <3>3
  <2> QED BY <1>1, <2>1, <2>2
<1>14. LessThanTwice'
  BY <1>4, <1>13 DEF LessThanTwice, n, m, d
<1> QED
  BY <1>1, <1>2, <1>3, <1>5, <1>6, <1>7, <1>12, <1>14 DEF RateInv, n, m, d, rolls, e, e1, s1

\* A counted message that is rejected: the window is full, or none may pass.
LEMMA RejectRate == ASSUME RateInv, Reject PROVE RateInv'
<1> DEFINE n == Len(accepted)
           m == maxMsgsPerWindow
           d == windowDuration
           rolls == now - windowStart >= d
<1>1. /\ m \in Nat /\ d \in Nat /\ now \in Nat /\ windowStart \in Nat /\ windowMsgCount \in Nat
      /\ n \in Nat /\ windowStart <= now
  BY GatewayAssumption, LenProperties DEF RateInv
<1>2. /\ accepted' = accepted /\ now' = now
      /\ ~(windowMsgCount' <= m)
      /\ windowMsgCount' = IF rolls THEN 1 ELSE windowMsgCount + 1
      /\ windowStart' = IF rolls THEN now ELSE windowStart
  BY DEF Reject, Limiter, Risk!RateLimit, Risk!Passed
<1>3. Admitted' = Admitted /\ Earlier' = Earlier
  BY <1>1, <1>2 DEF Admitted, Earlier
<1>4. LessThanTwice'
  BY <1>2 DEF RateInv, LessThanTwice
<1>5. CASE ~rolls
  BY <1>1, <1>2, <1>3, <1>4, <1>5 DEF RateInv
<1>6. CASE rolls
  <2>1. m = 0 /\ Admitted = 0 /\ Earlier = n
    BY <1>1, <1>2, <1>6 DEF Admitted, Earlier
  <2>2. ASSUME NEW k \in 1 .. n
        PROVE  /\ accepted[k] <= now /\ accepted[k] + d <= now
               /\ k <= n /\ k <= n - m + 1
    <3>1. k <= n /\ k <= n - m + 1
      BY <1>1, <2>1
    <3>2. accepted[k] <= now /\ accepted[k] + d <= windowStart /\ accepted[k] \in Nat
      BY <2>1, <3>1, ElementOfSeq DEF RateInv
    <3> QED BY <1>1, <3>1, <3>2
  <2> QED BY <1>1, <1>2, <1>3, <1>4, <1>6, <2>1, <2>2 DEF RateInv
<1> QED BY <1>5, <1>6

\* Every step of the gateway keeps the limiter's account.
LEMMA RateStep == RateInv /\ [GatewayNext]_gatewayVars => RateInv'
<1> SUFFICES ASSUME RateInv, [GatewayNext]_gatewayVars PROVE RateInv'
  OBVIOUS
<1>1. ASSUME UNCHANGED <<windowMsgCount, windowStart, accepted>>, now' \in Nat, now <= now'
      PROVE  RateInv'
  <2>1. now \in Nat /\ windowStart \in Nat /\ windowDuration \in Nat /\ accepted \in Seq(Nat)
    BY GatewayAssumption DEF RateInv
  <2>2. \A k \in 1 .. Len(accepted) : accepted[k] \in Nat
    BY <2>1, ElementOfSeq
  <2>3. Admitted' = Admitted /\ Earlier' = Earlier /\ Len(accepted') = Len(accepted)
    BY <1>1 DEF Admitted, Earlier
  <2>4. LessThanTwice'
    BY <1>1 DEF RateInv, LessThanTwice
  <2> QED BY <1>1, <2>1, <2>2, <2>3, <2>4 DEF RateInv
<1>2. now \in Nat
  BY DEF RateInv
<1>3. CASE \/ \E msg \in Sound :
               \/ \E i \in OrderId, s \in Side : NewOrderSingle(i, s, msg)
               \/ \E origId, i \in OrderId : CancelReplace(origId, i, msg)
           \/ CancelReplaceGone
  BY <1>3, AcceptRate DEF NewOrderSingle, CancelReplace, CancelReplaceGone
<1>4. CASE RejectUncounted \/ Process \/ UNCHANGED gatewayVars
  BY <1>1, <1>2, <1>4 DEF RejectUncounted, Process, gatewayVars
<1>5. CASE \E i \in OrderId : CancelRequest(i)
  BY <1>1, <1>2, <1>5 DEF CancelRequest
<1>6. CASE Tick
  BY <1>1, <1>2, <1>6 DEF Tick
<1> QED BY <1>3, <1>4, <1>5, <1>6, RejectRate DEF GatewayNext

\* However messages are timed, within any stretch of one window's length fewer
\* than twice the limit are accepted (property LessThanTwice): no two
\* neighbouring windows of the limiter can both be full within it.
THEOREM FewerThanTwicePass == GatewaySpec => []LessThanTwice
<1>1. GatewayInit => RateInv
  <2> SUFFICES ASSUME GatewayInit PROVE RateInv
    OBVIOUS
  <2>1. /\ windowMsgCount = 0 /\ windowStart = 0 /\ now = windowDuration /\ accepted = <<>>
        /\ windowDuration \in Nat /\ maxMsgsPerWindow \in Nat
    BY GatewayAssumption DEF GatewayInit, Risk!RiskInit
  <2>2. Admitted = 0
    BY <2>1 DEF Admitted
  <2> QED BY <2>1, <2>2 DEF RateInv, LessThanTwice
<1>2. RateInv => LessThanTwice
  BY DEF RateInv
<1> QED BY <1>1, <1>2, RateStep, PTL DEF GatewaySpec
-----------------------------------------------------------------------------
(* The collar.                                                             *)

\* Half a distance, rounded up.
Half(n) == (n + 1) \div 2

\* A bid and an ask at or below it are so close that each is within the collar
\* around their midpoint, rounded up: what a book crossed by replacements keeps
\* to, as each of them was within the collar around the midpoint it moved from.
Close(bid, ask) ==
  Half(bid - ask) * BasisPoints <= (ask + Half(bid - ask)) * collarBps

\* A price is within the collar around a reference.
Near(p, ref) == (p - ref) * BasisPoints <= ref * collarBps /\ (ref - p) * BasisPoints <= ref * collarBps

\* The collar and the notional limit are not negative, and the sum of two prices
\* within that limit fits an int64_t.  RiskConfig's own values are such.
SaneLimits ==
  collarBps \in Nat /\ maxNotional \in Nat /\ maxNotional + maxNotional < HalfWord

LEMMA SmallerFactor ==
  ASSUME NEW a \in Int, NEW b \in Int, NEW c \in Nat, a <= b
  PROVE  a * c <= b * c /\ a * c \in Int /\ b * c \in Int
<1>1. b * c = a * c + (b - a) * c
  OBVIOUS
<1>2. (b - a) * c >= 0 /\ a * c \in Int /\ b * c \in Int /\ (b - a) * c \in Int
  OBVIOUS
<1> QED BY <1>1, <1>2

\* Closer to an ask is no worse.
LEMMA NearerClose ==
  ASSUME SaneLimits, NEW p \in Nat, NEW k \in Nat, NEW h \in Nat, h <= k,
         k * BasisPoints <= (p + k) * collarBps
  PROVE  h * BasisPoints <= (p + h) * collarBps
<1> DEFINE B == BasisPoints
           x == collarBps
<1>1. B \in Nat /\ x \in Nat
  BY GatewayAssumption DEF SaneLimits
<1> HIDE DEF B, x
<1>2. k * B <= (p + k) * x
  BY DEF B, x
<1>3. CASE x >= B
  <2>1. B * h <= x * h
    BY <1>1, <1>3, SmallerFactor
  <2>2. h * x <= (p + h) * x
    BY <1>1, SmallerFactor
  <2>3. B * h = h * B /\ x * h = h * x /\ h * B \in Int /\ h * x \in Int /\ (p + h) * x \in Int
    BY <1>1
  <2> QED BY <2>1, <2>2, <2>3 DEF B, x
<1>4. CASE x < B
  <2>1. h * (B - x) <= k * (B - x)
    <3>1. B - x \in Nat
      BY <1>1, <1>4
    <3> QED BY <3>1, SmallerFactor
  <2>2. /\ h * (B - x) = h * B - h * x /\ k * (B - x) = k * B - k * x
        /\ (p + k) * x = p * x + k * x /\ (p + h) * x = p * x + h * x
    BY <1>1
  <2>3. /\ h * B \in Int /\ h * x \in Int /\ k * B \in Int /\ k * x \in Int /\ p * x \in Int
    BY <1>1
  <2> QED BY <1>2, <2>1, <2>2, <2>3 DEF B, x
<1> QED BY <1>1, <1>3, <1>4

\* So is a crossed pair inside a close one.
LEMMA InnerClose ==
  ASSUME SaneLimits, NEW bid \in Nat, NEW ask \in Nat, NEW b \in Nat, NEW a \in Nat,
         Close(bid, ask), b <= bid, ask <= a, a <= b
  PROVE  Close(b, a)
<1> DEFINE k == Half(bid - ask)
           h == Half(b - ask)
           g == Half(b - a)
<1>1. BasisPoints \in Nat /\ collarBps \in Nat
  BY GatewayAssumption DEF SaneLimits
<1>2. /\ k \in Int /\ 2 * k >= bid - ask /\ 2 * k <= bid - ask + 1
      /\ h \in Int /\ 2 * h >= b - ask /\ 2 * h <= b - ask + 1
      /\ g \in Int /\ 2 * g >= b - a /\ 2 * g <= b - a + 1
  BY DEF Half
<1>3. k * BasisPoints <= (ask + k) * collarBps
  BY DEF Close
<1> HIDE DEF k, h, g
<1>4. /\ k \in Nat /\ h \in Nat /\ g \in Nat
      /\ h <= k /\ g <= h /\ ask + h <= a + g
  BY <1>2
<1>5. h * BasisPoints <= (ask + h) * collarBps
  BY <1>3, <1>4, NearerClose
<1>6. g * BasisPoints <= h * BasisPoints /\ (ask + h) * collarBps <= (a + g) * collarBps
  <2>1. ask + h \in Int /\ a + g \in Int
    BY <1>4
  <2> QED BY <1>1, <1>4, <2>1, SmallerFactor
<1>7. /\ g * BasisPoints \in Int /\ h * BasisPoints \in Int
      /\ (ask + h) * collarBps \in Int /\ (a + g) * collarBps \in Int
  BY <1>1, <1>4
<1> QED BY <1>5, <1>6, <1>7 DEF Close, g

\* A bid that moves up, to within the collar around the midpoint, is close to
\* the asks it crosses.
LEMMA RaisedBidClose ==
  ASSUME SaneLimits, NEW b \in Nat, NEW a \in Nat, NEW p \in Nat, NEW q \in Nat,
         b < p, a <= q, q <= p, Near(p, (b + a) \div 2)
  PROVE  Close(p, q)
<1> DEFINE r == (b + a) \div 2
           h == Half(p - q)
<1>1. BasisPoints \in Nat /\ collarBps \in Nat
  BY GatewayAssumption DEF SaneLimits
<1>2. /\ r \in Nat /\ 2 * r <= b + a /\ 2 * r >= b + a - 1
      /\ h \in Int /\ 2 * h >= p - q /\ 2 * h <= p - q + 1
  BY DEF Half
<1>3. (p - r) * BasisPoints <= r * collarBps
  BY DEF Near
<1> HIDE DEF r, h
<1>4. h \in Nat /\ h <= p - r /\ r <= q + h
  BY <1>2
<1>5. h * BasisPoints <= (p - r) * BasisPoints /\ r * collarBps <= (q + h) * collarBps
  <2>1. p - r \in Int /\ q + h \in Int
    BY <1>2, <1>4
  <2> QED BY <1>1, <1>2, <1>4, <2>1, SmallerFactor
<1>6. /\ h * BasisPoints \in Int /\ (p - r) * BasisPoints \in Int
      /\ r * collarBps \in Int /\ (q + h) * collarBps \in Int
  BY <1>1, <1>2, <1>4
<1> QED BY <1>3, <1>5, <1>6 DEF Close, h

\* So is an ask that moves down to the bids it crosses.
LEMMA LoweredAskClose ==
  ASSUME SaneLimits, NEW b \in Nat, NEW a \in Nat, NEW p \in Nat, NEW q \in Nat,
         p < a, q <= b, p <= q, Near(p, (b + a) \div 2)
  PROVE  Close(q, p)
<1> DEFINE r == (b + a) \div 2
           h == Half(q - p)
           k == r - p
<1>1. /\ r \in Nat /\ 2 * r <= b + a /\ 2 * r >= b + a - 1
      /\ h \in Int /\ 2 * h >= q - p /\ 2 * h <= q - p + 1
  BY DEF Half
<1>2. k * BasisPoints <= r * collarBps
  BY DEF Near
<1> HIDE DEF r, h
<1>3. h \in Nat /\ k \in Nat /\ h <= k /\ r = p + k
  BY <1>1
<1> HIDE DEF k
<1>4. h * BasisPoints <= (p + h) * collarBps
  BY <1>2, <1>3, NearerClose
<1> QED BY <1>4 DEF Close, h

\* Between a bid and an ask that are close, nothing is farther from their
\* midpoint than the collar of one tick more.
LEMMA CloseToMidpoint ==
  ASSUME SaneLimits, NEW b \in Nat, NEW a \in Nat, Close(b, a), a <= b,
         NEW t \in a .. b
  PROVE  LET r == (b + a) \div 2
         IN /\ (t - r) * BasisPoints <= (r + 1) * collarBps
            /\ (r - t) * BasisPoints <= (r + 1) * collarBps
<1> DEFINE r == (b + a) \div 2
           h == Half(b - a)
<1>1. BasisPoints \in Nat /\ collarBps \in Nat
  BY GatewayAssumption DEF SaneLimits
<1>2. /\ r \in Nat /\ 2 * r <= b + a /\ 2 * r >= b + a - 1
      /\ h \in Int /\ 2 * h >= b - a /\ 2 * h <= b - a + 1
  BY DEF Half
<1>3. h * BasisPoints <= (a + h) * collarBps
  BY DEF Close
<1> HIDE DEF r, h
<1>4. t - r <= h /\ r - t <= h /\ a + h <= r + 1 /\ t - r \in Int /\ r - t \in Int
  BY <1>2
<1>5. /\ (t - r) * BasisPoints <= h * BasisPoints /\ (r - t) * BasisPoints <= h * BasisPoints
      /\ (a + h) * collarBps <= (r + 1) * collarBps
  <2>1. a + h \in Int /\ r + 1 \in Int
    BY <1>2
  <2> QED BY <1>1, <1>2, <1>4, <2>1, SmallerFactor
<1>6. /\ (t - r) * BasisPoints \in Int /\ (r - t) * BasisPoints \in Int /\ h * BasisPoints \in Int
      /\ (a + h) * collarBps \in Int /\ (r + 1) * collarBps \in Int
  BY <1>1, <1>2, <1>4
<1> QED BY <1>3, <1>5, <1>6 DEF r
-----------------------------------------------------------------------------
(* The collar of an accepted message.                                      *)

Ref(top) == Risk!RefPrice(top.bid, top.ask)

\* Prices within the limits neither wrap nor truncate on their way into the
\* reference price.
LEMMA RefValue ==
  ASSUME SaneLimits, NEW b \in 0 .. maxNotional, NEW a \in 0 .. maxNotional
  PROVE  /\ Risk!RefPrice(b, a) = IF b > 0 /\ a > 0 THEN (b + a) \div 2
                                  ELSE IF b > 0 THEN b ELSE a
         /\ Risk!RefPrice(b, a) \in 0 .. maxNotional
<1>1. maxNotional \in Int /\ HalfWord \in Nat \ {0}
  BY GatewayAssumption
<1>2. b + a \in Nat /\ b + a < HalfWord
  BY <1>1 DEF SaneLimits
<1>3. Risk!Int64(b + a) = b + a
  BY <1>2, SmallInt64
<1>4. Risk!Quotient(Risk!Int64(b + a), 2) = (b + a) \div 2
  BY <1>2, <1>3 DEF Risk!Quotient
<1>5. (b + a) \div 2 \in 0 .. maxNotional
  BY <1>1
<1> QED BY <1>4, <1>5 DEF Risk!RefPrice

\* Rounded towards zero, wrapped or not, the collar is no wider than it should be.
LEMMA CollarNoWider ==
  ASSUME NEW y \in Nat
  PROVE  /\ Risk!Quotient(Risk!Int64(y), BasisPoints) \in Int
         /\ Risk!Quotient(Risk!Int64(y), BasisPoints) * BasisPoints <= y
<1> DEFINE n == Risk!Int64(y)
           B == BasisPoints
           H == HalfWord
<1>1. B \in Nat \ {0} /\ H \in Nat \ {0}
  BY GatewayAssumption
<1>2. n \in Int /\ n <= y
  <2>1. 2 * H \in Nat \ {0} /\ y + H \in Nat
    BY <1>1
  <2>2. (y + H) % (2 * H) \in Nat /\ (y + H) % (2 * H) <= y + H
    <3> DEFINE m == 2 * H
               z == y + H
    <3>1. m \in Nat \ {0} /\ z \in Nat
      BY <2>1
    <3> HIDE DEF m, z
    <3>2. z % m \in Nat /\ z % m <= z
      <4>1. CASE z < m
        BY <3>1, <4>1
      <4>2. CASE z >= m
        BY <3>1, <4>2
      <4> QED BY <3>1, <4>1, <4>2
    <3> QED BY <3>2 DEF m, z
  <2> QED BY <1>1, <2>2 DEF Risk!Int64
<1> HIDE DEF n, B
<1>3. CASE n < 0
  <2>1. (-n) \div B \in Nat
    BY <1>1, <1>2, <1>3
  <2>2. PICK k \in Nat : k = (-n) \div B
    BY <2>1
  <2>3. Risk!Quotient(n, B) = -k
    BY <1>3, <2>2 DEF Risk!Quotient
  <2>4. (-k) * B <= 0 * B /\ 0 * B = 0
    BY <1>1, SmallerFactor
  <2>5. (-k) * B \in Int
    BY <1>1
  <2> QED BY <2>3, <2>4, <2>5 DEF n, B
<1>4. CASE n >= 0
  <2>1. Risk!Quotient(n, B) = n \div B
    BY <1>2, <1>4 DEF Risk!Quotient
  <2>2. n \div B \in Int /\ (n \div B) * B <= n /\ (n \div B) * B \in Int
    BY <1>1, <1>2, <1>4
  <2> QED BY <1>2, <2>1, <2>2 DEF n, B
<1> QED BY <1>2, <1>3, <1>4

\* A limit order's message that passed the checks names a price within the
\* collar, if there is a market.
LEMMA PassedNear ==
  ASSUME SaneLimits, NEW msg \in Sound, ~Misread(msg), ~msg.isMarket,
         TopOfBook(book).bid \in 0 .. maxNotional, TopOfBook(book).ask \in 0 .. maxNotional,
         TopOfBook(book).bid > 0 \/ TopOfBook(book).ask > 0
  PROVE  Near(msg.price, Ref(TopOfBook(book))) /\ msg.price \in 1 .. maxNotional
<1> DEFINE b == TopOfBook(book).bid
           a == TopOfBook(book).ask
           r == Risk!RefPrice(b, a)
           p == msg.price
           y == r * collarBps
           dist == IF p > r THEN p - r ELSE r - p
           q == Risk!Quotient(Risk!Int64(y), BasisPoints)
<1>1. p \in 1 .. maxNotional
  <2> DEFINE size == msg.qty % QtyMod
  <2>1. size > 0 /\ Within(p, size)
    BY PassedWithin
  <2>2. p \in Int /\ size \in Nat
    <3>1. msg.price \in MsgPrice /\ msg.qty \in Int
      BY GatewayAssumption DEF Sound, Terms
    <3>2. Price \subseteq Int /\ MsgPrice \subseteq Price /\ QtyMod \in Nat \ {0}
      BY ConstantsAssumption, GatewayAssumption
    <3>3. p \in Int
      BY <3>1, <3>2
    <3>4. size \in Nat
      BY <3>1, <3>2
    <3> QED BY <3>3, <3>4
  <2> HIDE DEF size, p
  <2>3. p > 0 /\ p * size <= maxNotional
    BY <2>1 DEF Within
  <2>4. p * 1 <= p * size
    <3>1. 1 * p <= size * p
      BY <2>1, <2>2, <2>3, SmallerFactor
    <3> QED BY <2>2, <3>1
  <2>5. p * size \in Int /\ p * 1 = p
    BY <2>2
  <2> QED BY <2>2, <2>3, <2>4, <2>5, GatewayAssumption
<1>2. r \in 0 .. maxNotional
  BY RefValue
<1>3. /\ maxNotional \in Int /\ collarBps \in Nat /\ BasisPoints \in Nat
      /\ maxNotional < HalfWord /\ HalfWord \in Nat
  BY <1>2, GatewayAssumption DEF SaneLimits
<1>4. Risk!Int64(dist) <= q
  <2>1. ~Risk!PriceCollar(msg, b, a)
    BY DEF Sound, Risk!Sound
  <2>2. ~(Risk!Int64(dist) > q)
    BY <2>1 DEF Risk!PriceCollar
  <2>3. y \in Nat
    BY <1>2, <1>3
  <2>4. q \in Int
    BY <2>3, CollarNoWider
  <2>5. dist \in Nat /\ dist < HalfWord
    BY <1>1, <1>2, <1>3
  <2>6. Risk!Int64(dist) = dist
    BY <2>5, SmallInt64
  <2> HIDE DEF q, dist
  <2> QED BY <2>2, <2>4, <2>5, <2>6
<1>5. dist \in Nat /\ Risk!Int64(dist) = dist
  <2>1. dist \in Nat /\ dist < HalfWord
    BY <1>1, <1>2, <1>3
  <2> HIDE DEF dist
  <2> QED BY <2>1, SmallInt64
<1>6. y \in Nat
  BY <1>2, <1>3
<1>7. q \in Int /\ q * BasisPoints <= y
  BY <1>6, CollarNoWider
<1>8. p - r <= dist /\ r - p <= dist /\ p - r \in Int /\ r - p \in Int
  BY <1>1, <1>2
<1>9. Ref(TopOfBook(book)) = r
  BY DEF Ref
<1> HIDE DEF p, r, dist, q
<1>10. /\ (p - r) * BasisPoints <= q * BasisPoints
       /\ (r - p) * BasisPoints <= q * BasisPoints
  <2>1. p - r <= q /\ r - p <= q
    BY <1>4, <1>5, <1>7, <1>8
  <2> QED BY <1>3, <1>7, <1>8, <2>1, SmallerFactor
<1>11. /\ (p - r) * BasisPoints \in Int /\ (r - p) * BasisPoints \in Int
       /\ q * BasisPoints \in Int
  BY <1>3, <1>7, <1>8
<1>12. (p - r) * BasisPoints <= y /\ (r - p) * BasisPoints <= y
  <2> HIDE DEF y
  <2> QED BY <1>6, <1>7, <1>10, <1>11
<1> QED BY <1>1, <1>9, <1>12 DEF Near, p
-----------------------------------------------------------------------------
(* The book behind the collar.                                             *)

BookClose ==
  \A bid \in DOMAIN book["BUY"], ask \in DOMAIN book["SELL"] : bid >= ask => Close(bid, ask)

\* What a sweep knows of the market its order arrived to: its own side is as it
\* was, the other has only lost prices since, and a limit order is within the
\* collar around the midpoint of then.
SweepCollar ==
  /\ before.bid \in 0 .. maxNotional /\ before.ask \in 0 .. maxNotional
  /\ before.ask > 0 /\ before.bid >= before.ask => Close(before.bid, before.ask)
  /\ \A p \in DOMAIN book["BUY"] : p > 0 /\ p <= before.bid
  /\ \A p \in DOMAIN book["SELL"] : before.ask > 0 /\ before.ask <= p
  /\ order[taker].side = "BUY" /\ before.bid > 0 => before.bid \in DOMAIN book["BUY"]
  /\ order[taker].side = "SELL" /\ before.ask > 0 => before.ask \in DOMAIN book["SELL"]
  /\ ~order[taker].isMarket /\ (before.bid > 0 \/ before.ask > 0)
       => Near(order[taker].price, Ref(before))

CollarInv == escaped = {} => BookClose /\ (taker # null => SweepCollar)

\* While no message has escaped, all prices in the book are within the limits.
LEMMA RestingPrices ==
  ASSUME IInv, GateInv, escaped = {}, NEW s \in Side, NEW p \in DOMAIN book[s]
  PROVE  p \in 1 .. maxNotional
<1>1. /\ book[s][p].queue # <<>> /\ book[s][p].queue \in Seq(1 .. Len(order))
      /\ p \in Price
  BY DEF IInv, Sides, BookOK, SideOK, PriceLevel
<1>2. PICK o \in Range(book[s][p].queue) : TRUE
  <2>1. PICK q : q = book[s][p].queue /\ q \in Seq(1 .. Len(order)) /\ q # <<>>
    BY <1>1
  <2>2. Len(q) \in Nat \ {0} /\ DOMAIN q = 1 .. Len(q)
    BY <2>1, EmptySeq, LenProperties
  <2>3. q[1] \in Range(q)
    BY <2>2 DEF Range
  <2> QED BY <2>1, <2>3
<1>3. o \in Linked(book[s], p)
  BY <1>2 DEF Linked
<1>4. /\ o \in 1 .. Len(order) /\ o \notin Free /\ o # taker
      /\ order[o] \in Order /\ order[o].price = p
  BY <1>1, <1>3, LinkedFacts
<1>5. ~order[o].isMarket
  BY <1>1, <1>3 DEF IInv, Filed
<1>6. Within(p, order[o].quantity) /\ order[o].quantity > 0
  <2>1. Limited(order[o], escaped, o = taker)
    BY <1>4 DEF GateInv
  <2> QED BY <1>4, <1>5, <2>1 DEF Limited
<1>7. p \in Int /\ order[o].quantity \in Nat
  BY <1>4, OrderNumbers
<1>8. PICK q \in Nat : q = order[o].quantity
  BY <1>7
<1>9. p > 0 /\ p * q <= maxNotional /\ q > 0
  BY <1>6, <1>8 DEF Within
<1>10. 1 * p <= q * p
  BY <1>7, <1>9, SmallerFactor
<1>11. 1 * p = p /\ q * p = p * q /\ p * q \in Int
  BY <1>7
<1> QED BY <1>7, <1>9, <1>10, <1>11, GatewayAssumption

\* The top of the book is a price of it that no other of its side beats.
LEMMA TopFacts ==
  ASSUME SaneLimits, IInv, GateInv, escaped = {}
  PROVE  LET top == TopOfBook(book)
         IN /\ top.bid \in 0 .. maxNotional /\ top.ask \in 0 .. maxNotional
            /\ \A p \in DOMAIN book["BUY"] : p > 0 /\ p <= top.bid
            /\ \A p \in DOMAIN book["SELL"] : top.ask > 0 /\ top.ask <= p
            /\ top.bid > 0 => top.bid \in DOMAIN book["BUY"]
            /\ top.ask > 0 => top.ask \in DOMAIN book["SELL"]
<1> DEFINE best(s) == BestPrice(book[s], s)
<1>1. maxNotional \in Nat
  BY DEF SaneLimits
<1>2. ASSUME NEW s \in Side
      PROVE  \/ DOMAIN book[s] = {} /\ best(s) = 0
             \/ /\ best(s) \in DOMAIN book[s]
                /\ \A p \in DOMAIN book[s] : ~Better(s, p, best(s))
  <2>1. DOMAIN book[s] \subseteq Price
    BY DEF IInv, Sides, BookOK, SideOK
  <2>2. CASE DOMAIN book[s] = {}
    BY <2>2 DEF BestPrice, NoPrice
  <2>3. CASE DOMAIN book[s] # {}
    BY <2>1, <2>3, BestExists DEF BestPrice
  <2> QED BY <2>2, <2>3
<1>3. ASSUME NEW s \in Side, NEW p \in DOMAIN book[s] PROVE p \in 1 .. maxNotional
  BY <1>3, RestingPrices
<1>4. TopOfBook(book).bid = best("BUY") /\ TopOfBook(book).ask = best("SELL")
  BY DEF TopOfBook
<1>5. /\ best("BUY") \in 0 .. maxNotional
      /\ \A p \in DOMAIN book["BUY"] : p > 0 /\ p <= best("BUY")
      /\ best("BUY") > 0 => best("BUY") \in DOMAIN book["BUY"]
  <2> HIDE DEF best
  <2>1. "BUY" \in Side
    BY DEF Side
  <2> QED BY <1>1, <1>2, <1>3, <2>1 DEF Better
<1>6. /\ best("SELL") \in 0 .. maxNotional
      /\ \A p \in DOMAIN book["SELL"] : best("SELL") > 0 /\ best("SELL") <= p
      /\ best("SELL") > 0 => best("SELL") \in DOMAIN book["SELL"]
  <2> HIDE DEF best
  <2>1. "SELL" \in Side
    BY DEF Side
  <2> QED BY <1>1, <1>2, <1>3, <2>1 DEF Better
<1> QED BY <1>4, <1>5, <1>6

\* Prices that leave the book leave it close.
LEMMA FewerClose ==
  ASSUME BookClose, NoNewPrice(book', book)
  PROVE  BookClose'
<1>1. DOMAIN book'["BUY"] \subseteq DOMAIN book["BUY"] /\ DOMAIN book'["SELL"] \subseteq DOMAIN book["SELL"]
  BY DEF NoNewPrice, Side
<1> QED BY <1>1 DEF BookClose

\* A new order takes its picture of the market.
LEMMA NewOrderCollar ==
  ASSUME SaneLimits, IInv, GateInv, CollarInv,
         NEW i \in OrderId, NEW s \in Side, NEW msg \in Sound, NewOrderSingle(i, s, msg)
  PROVE  CollarInv'
<1> SUFFICES ASSUME escaped' = {} PROVE BookClose' /\ SweepCollar'
  BY DEF CollarInv
<1> DEFINE new == [id |-> i, price |-> msg.price, quantity |-> msg.qty % QtyMod,
                   side |-> s, isMarket |-> msg.isMarket]
           top == TopOfBook(book)
<1>1. /\ Note(i, Misread(msg)) /\ Acquire(new) /\ book' = book /\ before' = top
  BY DEF NewOrderSingle, Submit
<1>2. escaped = {} /\ ~Misread(msg)
  BY <1>1 DEF Note
<1>3. BookClose
  BY <1>2 DEF CollarInv
<1>4. order'[taker'] = new
  <2> HIDE DEF new
  <2>1. /\ order \in Seq(Order \cup {Blank})
        /\ freeList \in Seq(1 .. Len(order)) /\ IsInjective(freeList)
    BY DEF IInv, Typed
  <2>2. CASE freeList = <<>>
    <3>1. order' = Append(order, new) /\ taker' = Len(order) + 1
      BY <1>1, <2>2 DEF Acquire
    <3> QED BY <2>1, <3>1
  <2>3. CASE freeList # <<>>
    <3> DEFINE a == Last(freeList)
    <3>1. order' = [order EXCEPT ![a] = new] /\ taker' = a
      BY <1>1, <2>3 DEF Acquire
    <3>2. a \in DOMAIN order
      <4>1. Len(order) \in Nat /\ DOMAIN order = 1 .. Len(order)
        BY <2>1, LenProperties
      <4> QED BY <2>1, <2>3, <4>1, FrontRange
    <3> HIDE DEF a
    <3> QED BY <3>1, <3>2
  <2> QED BY <2>2, <2>3
<1>5. /\ top.bid \in 0 .. maxNotional /\ top.ask \in 0 .. maxNotional
      /\ \A p \in DOMAIN book["BUY"] : p > 0 /\ p <= top.bid
      /\ \A p \in DOMAIN book["SELL"] : top.ask > 0 /\ top.ask <= p
      /\ top.bid > 0 => top.bid \in DOMAIN book["BUY"]
      /\ top.ask > 0 => top.ask \in DOMAIN book["SELL"]
  BY <1>2, TopFacts
<1>6. ~msg.isMarket /\ (top.bid > 0 \/ top.ask > 0) => Near(msg.price, Ref(top))
  BY <1>2, <1>5, PassedNear
<1>7. top.ask > 0 /\ top.bid >= top.ask => Close(top.bid, top.ask)
  <2> HIDE DEF top
  <2>1. top.ask > 0 /\ top.bid >= top.ask => top.bid > 0
    BY <1>5
  <2> QED BY <1>3, <1>5, <2>1 DEF BookClose
<1>8. Ref(before)' = Ref(top)
  BY <1>1 DEF Ref
<1> HIDE DEF top
<1>9. SweepCollar'
  BY <1>1, <1>4, <1>5, <1>6, <1>7, <1>8 DEF SweepCollar
<1>10. BookClose'
  BY <1>1, <1>3 DEF BookClose
<1> QED BY <1>9, <1>10
\* A trade changes neither the order in flight, but for its quantity, nor its
\* side of the book, and takes prices from the other.
LEMMA FillKeeps ==
  ASSUME IInv, FillMaker \/ FillTaker
  PROVE  /\ taker # null /\ taker' = taker /\ before' = before
         /\ MakerSide \in Side /\ MakerSide = Opposite(order[taker].side)
         /\ order[taker].side \in Side
         /\ \A t \in Side : t # MakerSide => book'[t] = book[t]
         /\ NoNewPrice(book', book)
         /\ order'[taker].side = order[taker].side
         /\ order'[taker].price = order[taker].price
         /\ order'[taker].isMarket = order[taker].isMarket
<1>1. /\ Marketable /\ taker # null /\ taker' = taker /\ before' = before
  BY DEF FillMaker, FillTaker, Marketable
<1>2. MakerSide \in Side /\ Maker \in Linked(book[MakerSide], MakerPrice) /\ MakerPrice \in Price
  BY <1>1, MakerFacts
<1>3. /\ taker \in 1 .. Len(order) /\ order[taker] \in Order
      /\ Maker \in 1 .. Len(order) /\ Maker # taker
  BY <1>1, <1>2, TakerFacts, LinkedFacts
<1>4. DOMAIN order = 1 .. Len(order)
  BY LenProperties DEF IInv, Typed
<1>5. \A t \in Side : t # MakerSide => book'[t] = book[t]
  <2>1. CASE FillMaker
    <3> DEFINE new == RemoveOrder(ReduceVolume(book[MakerSide], MakerPrice, order[Maker].quantity),
                                  MakerPrice, Maker, 0)
    <3>1. book' = [book EXCEPT ![MakerSide] = new]
      BY <2>1 DEF FillMaker
    <3> HIDE DEF new
    <3> QED BY <1>2, <3>1, SideExcept
  <2>2. CASE FillTaker
    <3> DEFINE new == ReduceVolume(book[MakerSide], MakerPrice, order[taker].quantity)
    <3>1. book' = [book EXCEPT ![MakerSide] = new]
      BY <2>2 DEF FillTaker
    <3> HIDE DEF new
    <3> QED BY <1>2, <3>1, SideExcept
  <2> QED BY <2>1, <2>2
<1>6. /\ order'[taker].side = order[taker].side
      /\ order'[taker].price = order[taker].price
      /\ order'[taker].isMarket = order[taker].isMarket
  <2> DEFINE M == Maker
  <2>1. CASE FillMaker
    <3> DEFINE qty == order[Maker].quantity
    <3>1. order' = [order EXCEPT ![taker].quantity = @ - qty, ![M] = Blank]
      BY <2>1 DEF FillMaker
    <3> HIDE DEF M, qty
    <3>2. M # taker /\ M \in 1 .. Len(order)
      BY <1>3 DEF M
    <3>3. order'[taker] = [order[taker] EXCEPT !.quantity = @ - qty]
      BY <1>3, <1>4, <3>1, <3>2
    <3> QED BY <1>3, <3>3 DEF Order
  <2>2. CASE FillTaker
    <3> DEFINE qty == order[taker].quantity
    <3>1. order' = [order EXCEPT ![taker].quantity = 0, ![M].quantity = @ - qty]
      BY <2>2 DEF FillTaker
    <3> HIDE DEF M, qty
    <3>2. M # taker /\ M \in 1 .. Len(order)
      BY <1>3 DEF M
    <3>3. order'[taker] = [order[taker] EXCEPT !.quantity = 0]
      BY <1>3, <1>4, <3>1, <3>2
    <3> QED BY <1>3, <3>3 DEF Order
  <2> QED BY <2>1, <2>2
<1>7. MakerSide = Opposite(order[taker].side) /\ order[taker].side \in Side
  BY <1>3 DEF MakerSide, Order
<1> QED BY <1>1, <1>2, <1>5, <1>6, <1>7, TradeNoNewPrice

LEMMA FillCollar ==
  ASSUME IInv, CollarInv, FillMaker \/ FillTaker, escaped' = escaped
  PROVE  CollarInv'
<1> SUFFICES ASSUME escaped = {} PROVE BookClose' /\ SweepCollar'
  BY DEF CollarInv
<1>1. /\ taker # null /\ taker' = taker /\ before' = before
      /\ MakerSide = Opposite(order[taker].side) /\ order[taker].side \in Side
      /\ \A t \in Side : t # MakerSide => book'[t] = book[t]
      /\ NoNewPrice(book', book)
      /\ order'[taker].side = order[taker].side
      /\ order'[taker].price = order[taker].price
      /\ order'[taker].isMarket = order[taker].isMarket
  BY FillKeeps
<1>2. BookClose /\ SweepCollar
  BY <1>1 DEF CollarInv
<1>3. /\ DOMAIN book'["BUY"] \subseteq DOMAIN book["BUY"]
      /\ DOMAIN book'["SELL"] \subseteq DOMAIN book["SELL"]
  BY <1>1 DEF NoNewPrice, Side
<1>4. /\ order[taker].side = "BUY" => book'["BUY"] = book["BUY"]
      /\ order[taker].side = "SELL" => book'["SELL"] = book["SELL"]
  BY <1>1 DEF Opposite, Side
<1>5. Ref(before)' = Ref(before)
  BY <1>1 DEF Ref
<1>6. SweepCollar'
  BY <1>1, <1>2, <1>3, <1>4, <1>5 DEF SweepCollar
<1> QED BY <1>1, <1>2, <1>6, FewerClose

\* What comes to rest crosses nothing.
LEMMA FinishCollar ==
  ASSUME IInv, CollarInv, Finish, escaped' = escaped
  PROVE  CollarInv'
<1> SUFFICES ASSUME escaped = {} PROVE BookClose'
  BY DEF CollarInv, Finish
<1>1. BookClose /\ taker # null /\ ~Marketable
  BY DEF CollarInv, Finish
<1>2. CASE order[taker].quantity > 0 /\ ~order[taker].isMarket
  <2> DEFINE s == order[taker].side
             p == order[taker].price
             new == AppendOrder(book[s], p, taker, order[taker].quantity)
  <2>1. book' = [book EXCEPT ![s] = new]
    BY <1>2 DEF Finish, Rest
  <2>2. s \in Side /\ p \in Price
    BY <1>1, TakerFacts DEF Order
  <2>3. DOMAIN new = DOMAIN book[s] \cup {p}
    BY ZenonT(40), AppendPrices
  <2> HIDE DEF new
  <2>4. book'[s] = new /\ \A t \in Side : t # s => book'[t] = book[t]
    BY <2>1, <2>2, SideExcept
  <2>5. MakerSide = IF s = "BUY" THEN "SELL" ELSE "BUY"
    BY DEF MakerSide, Opposite
  <2>6. \A r \in DOMAIN book[MakerSide] : Better(MakerSide, p, r)
    BY <1>1, <1>2, RestsUncrossed
  <2>7. p \in Int /\ \A t \in Side : \A r \in DOMAIN book[t] : r \in Int
    <3>1. Price \subseteq Int
      BY ConstantsAssumption
    <3> QED BY <2>2, <3>1 DEF IInv, Sides, BookOK, SideOK
  <2> HIDE DEF s, p
  <2>8. CASE s = "BUY"
    <3>1. DOMAIN book'["BUY"] = DOMAIN book["BUY"] \cup {p} /\ book'["SELL"] = book["SELL"]
      BY <2>3, <2>4, <2>8 DEF Side
    <3>2. \A r \in DOMAIN book["SELL"] : ~(p >= r)
      BY <2>5, <2>6, <2>7, <2>8 DEF Better, Side
    <3> QED BY <1>1, <3>1, <3>2 DEF BookClose
  <2>9. CASE s = "SELL"
    <3>1. DOMAIN book'["SELL"] = DOMAIN book["SELL"] \cup {p} /\ book'["BUY"] = book["BUY"]
      BY <2>3, <2>4, <2>9 DEF Side
    <3>2. \A r \in DOMAIN book["BUY"] : ~(r >= p)
      BY <2>5, <2>6, <2>7, <2>9 DEF Better, Side
    <3> QED BY <1>1, <3>1, <3>2 DEF BookClose
  <2> QED BY <2>2, <2>8, <2>9 DEF Side
<1>3. CASE ~(order[taker].quantity > 0 /\ ~order[taker].isMarket)
  <2>1. book' = book
    BY <1>3 DEF Finish, Discard
  <2> QED BY <1>1, <2>1 DEF BookClose
<1> QED BY <1>2, <1>3
\* A replacement may cross the book, but within the collar around the midpoint
\* it moves from.
LEMMA ReplaceClose ==
  ASSUME SaneLimits, IInv, GateInv, BookClose, escaped = {},
         NEW origId \in OrderId, NEW i \in OrderId, NEW msg \in Sound,
         ~Misread(msg), ~msg.isMarket,
         ReplaceOrder(origId, i, msg.price, msg.qty % QtyMod)
  PROVE  BookClose'
<1> DEFINE top == TopOfBook(book)
           b == top.bid
           a == top.ask
           p == msg.price
           S == order[orderMap[origId]].side
           bids == DOMAIN book["BUY"]
           asks == DOMAIN book["SELL"]
<1>1. p \in Price /\ msg.qty % QtyMod \in Quantity
  BY GatewayAssumption DEF Sound, Terms
<1>2. /\ S \in Side /\ order[orderMap[origId]].price \in DOMAIN book[S]
      /\ DOMAIN book'[S] \subseteq DOMAIN book[S] \cup {p}
      /\ \A t \in Side : t # S => book'[t] = book[t]
  BY <1>1, ReplacePrices
<1>3. /\ b \in 0 .. maxNotional /\ a \in 0 .. maxNotional
      /\ \A r \in bids : r > 0 /\ r <= b
      /\ \A r \in asks : a > 0 /\ a <= r
      /\ b > 0 => b \in bids
      /\ a > 0 => a \in asks
  BY TopFacts
<1>4. b > 0 \/ a > 0 => Near(p, Ref(top)) /\ p \in 1 .. maxNotional
  BY <1>3, PassedNear
<1>5. b > 0 /\ a > 0 => Ref(top) = (b + a) \div 2
  BY <1>3, RefValue DEF Ref
<1>6. /\ maxNotional \in Nat
      /\ \A r \in bids : r \in Nat
      /\ \A r \in asks : r \in Nat
  <2>1. maxNotional \in Nat
    BY DEF SaneLimits
  <2>2. \A r \in bids : r \in 1 .. maxNotional
    BY RestingPrices DEF Side
  <2>3. \A r \in asks : r \in 1 .. maxNotional
    BY RestingPrices DEF Side
  <2> QED BY <2>1, <2>2, <2>3
<1> HIDE DEF top, p, S
<1>7. CASE S = "BUY"
  <2>1. /\ DOMAIN book'["BUY"] \subseteq bids \cup {p} /\ DOMAIN book'["SELL"] = asks
        /\ b > 0 /\ b \in bids
    <3>1. order[orderMap[origId]].price \in bids
      BY <1>2, <1>7
    <3>2. b > 0
      BY <1>3, <1>6, <3>1
    <3> QED BY <1>2, <1>3, <1>7, <3>2 DEF Side
  <2>2. ASSUME NEW q \in asks, p >= q PROVE Close(p, q)
    <3>1. a > 0 /\ a <= q /\ q \in Nat /\ a \in Nat /\ b \in Nat
      BY <1>3, <1>6
    <3>2. p \in Nat /\ Near(p, (b + a) \div 2)
      BY <1>4, <1>5, <2>1, <3>1
    <3>3. CASE p <= b
      <4>1. Close(b, q)
        <5>1. b >= q
          BY <2>2, <3>1, <3>2, <3>3
        <5> QED BY <2>1, <5>1 DEF BookClose
      <4> QED BY <2>2, <3>1, <3>2, <3>3, <4>1, InnerClose
    <3>4. CASE b < p
      BY <2>2, <3>1, <3>2, <3>4, RaisedBidClose
    <3> QED BY <3>1, <3>2, <3>3, <3>4
  <2> QED BY <2>1, <2>2 DEF BookClose
<1>8. CASE S = "SELL"
  <2>1. /\ DOMAIN book'["SELL"] \subseteq asks \cup {p} /\ DOMAIN book'["BUY"] = bids
        /\ a > 0 /\ a \in asks
    <3>1. order[orderMap[origId]].price \in asks
      BY <1>2, <1>8
    <3>2. a > 0
      BY <1>3, <1>6, <3>1
    <3> QED BY <1>2, <1>3, <1>8, <3>2 DEF Side
  <2>2. ASSUME NEW q \in bids, q >= p PROVE Close(q, p)
    <3>1. q > 0 /\ q <= b /\ q \in Nat /\ a \in Nat /\ b \in Nat /\ b > 0
      BY <1>3, <1>6
    <3>2. p \in Nat /\ Near(p, (b + a) \div 2)
      BY <1>4, <1>5, <2>1, <3>1
    <3>3. CASE a <= p
      <4>1. Close(q, a)
        <5>1. q >= a
          BY <2>2, <3>1, <3>2, <3>3
        <5> QED BY <2>1, <5>1 DEF BookClose
      <4> QED BY <2>2, <3>1, <3>2, <3>3, <4>1, InnerClose
    <3>4. CASE p < a
      BY <2>2, <3>1, <3>2, <3>4, LoweredAskClose
    <3> QED BY <3>1, <3>2, <3>3, <3>4
  <2> QED BY <2>1, <2>2 DEF BookClose
<1> QED BY <1>2, <1>7, <1>8 DEF Side

\* Every step of the gateway keeps the book to the collar.
LEMMA CollarStep ==
  SaneLimits /\ IInv /\ GateInv /\ CollarInv /\ [GatewayNext]_gatewayVars => CollarInv'
<1> SUFFICES ASSUME SaneLimits, IInv, GateInv, CollarInv, [GatewayNext]_gatewayVars
             PROVE  CollarInv'
  OBVIOUS
<1>1. ASSUME UNCHANGED <<vars, escaped>> PROVE CollarInv'
  <2>1. /\ order' = order /\ book' = book /\ taker' = taker /\ before' = before
        /\ escaped' = escaped
    BY <1>1 DEF vars
  <2>2. Ref(before)' = Ref(before)
    BY <2>1 DEF Ref
  <2> QED BY <2>1, <2>2 DEF CollarInv, BookClose, SweepCollar
<1>2. CASE CancelReplaceGone \/ Reject \/ RejectUncounted \/ Tick \/ UNCHANGED gatewayVars
  <2>1. UNCHANGED <<vars, escaped>>
    BY <1>2 DEF CancelReplaceGone, Reject, RejectUncounted, Tick, gatewayVars
  <2> QED BY <1>1, <2>1
<1>3. CASE Process
  BY <1>3, FillCollar, FinishCollar DEF Process, Sweep
<1>4. ASSUME NEW i \in OrderId, CancelRequest(i) PROVE CollarInv'
  <2>1. CancelOrder(i) /\ escaped' = escaped /\ taker = null /\ taker' = null
    BY <1>4 DEF CancelRequest, CancelOrder
  <2>2. NoNewPrice(book', book)
    BY <2>1, CancelNoNewPrice
  <2> QED BY <2>1, <2>2, FewerClose DEF CollarInv
<1>5. ASSUME NEW origId \in OrderId, NEW i \in OrderId, NEW msg \in Sound,
             CancelReplace(origId, i, msg)
      PROVE  CollarInv'
  <2> DEFINE qty == msg.qty % QtyMod
  <2>1. /\ ReduceOrder(origId, i, msg.price, qty) \/ ReplaceOrder(origId, i, msg.price, qty)
        /\ Note(i, Misread(msg) \/ msg.isMarket)
    BY <1>5 DEF CancelReplace
  <2>2. taker' = null
    BY <2>1 DEF ReduceOrder, ReplaceOrder
  <2>3. ASSUME escaped' = {} PROVE BookClose'
    <3>1. escaped = {} /\ ~Misread(msg) /\ ~msg.isMarket
      BY <2>1, <2>3 DEF Note
    <3>2. BookClose
      BY <3>1 DEF CollarInv
    <3>3. msg.price \in Price /\ qty \in Quantity
      BY GatewayAssumption DEF Sound, Terms
    <3> HIDE DEF qty
    <3>4. CASE ReduceOrder(origId, i, msg.price, qty)
      BY <3>2, <3>3, <3>4, ReduceNoNewPrice, FewerClose
    <3>5. CASE ReplaceOrder(origId, i, msg.price, qty)
      BY <3>1, <3>2, <3>5, ReplaceClose DEF qty
    <3> QED BY <2>1, <3>4, <3>5
  <2> QED BY <2>2, <2>3 DEF CollarInv
<1> QED BY <1>2, <1>3, <1>4, <1>5, NewOrderCollar DEF GatewayNext

\* A trade of a limit order while no message has escaped.
TradeInside ==
  trade' # NoTrade /\ ~order[taker].isMarket /\ escaped = {}
    => LET ref == Risk!RefPrice(before.bid, before.ask)
           rounding == IF Uncrossed(book) THEN 0 ELSE 1
           reach == (ref + rounding) * collarBps
       IN /\ (trade'.price - ref) * BasisPoints <= reach
          /\ (ref - trade'.price) * BasisPoints <= reach

LEMMA FillInside ==
  ASSUME SaneLimits, IInv, GateInv, CollarInv, FillMaker \/ FillTaker,
         ~order[taker].isMarket, escaped = {}
  PROVE  LET ref == Ref(before)
             rounding == IF Uncrossed(book) THEN 0 ELSE 1
             reach == (ref + rounding) * collarBps
         IN /\ (MakerPrice - ref) * BasisPoints <= reach
            /\ (ref - MakerPrice) * BasisPoints <= reach
<1> DEFINE t == MakerPrice
           p == order[taker].price
           s == order[taker].side
           b == before.bid
           a == before.ask
           r == Ref(before)
           x == collarBps
           B == BasisPoints
           rounding == IF Uncrossed(book) THEN 0 ELSE 1
<1>1. Marketable /\ taker # null /\ SweepCollar
  BY DEF FillMaker, FillTaker, Marketable, CollarInv
<1>2. /\ s \in Side /\ MakerSide = Opposite(s) /\ MakerSide \in Side
      /\ t \in DOMAIN book[MakerSide]
  BY <1>1, FillKeeps, MakerFacts
<1>3. /\ b \in 0 .. maxNotional /\ a \in 0 .. maxNotional
      /\ a > 0 /\ b >= a => Close(b, a)
      /\ \A q \in DOMAIN book["BUY"] : q > 0 /\ q <= b
      /\ \A q \in DOMAIN book["SELL"] : a > 0 /\ a <= q
      /\ s = "BUY" /\ b > 0 => b \in DOMAIN book["BUY"]
      /\ s = "SELL" /\ a > 0 => a \in DOMAIN book["SELL"]
      /\ b > 0 \/ a > 0 => Near(p, r)
  BY <1>1 DEF SweepCollar
<1>4. /\ r = IF b > 0 /\ a > 0 THEN (b + a) \div 2 ELSE IF b > 0 THEN b ELSE a
      /\ r \in 0 .. maxNotional
  BY <1>3, RefValue DEF Ref
<1>5. x \in Nat /\ B \in Nat /\ maxNotional \in Nat /\ t \in 1 .. maxNotional /\ p \in Int
  <2>1. t \in 1 .. maxNotional
    BY <1>2, RestingPrices
  <2>2. p \in Int
    BY <1>1, TakerFacts, OrderNumbers
  <2> QED BY <2>1, <2>2, GatewayAssumption DEF SaneLimits
<1>6. ~Better(MakerSide, p, t)
  BY <1>1 DEF Marketable
<1>7. \A q \in DOMAIN book[MakerSide] : ~Better(MakerSide, q, t)
  <2>1. DOMAIN book[MakerSide] \subseteq Price /\ DOMAIN book[MakerSide] # {}
    BY <1>2 DEF IInv, Sides, BookOK, SideOK
  <2> QED BY <1>2, <2>1, BestExists DEF MakerPrice
<1> HIDE DEF t, p, s, b, a, r, x, B
<1>8. r * x <= (r + rounding) * x /\ r * x \in Nat /\ (r + rounding) * x \in Nat
  <2>1. r \in Nat /\ rounding \in 0 .. 1
    BY <1>4, <1>5
  <2> HIDE DEF rounding
  <2>2. r + rounding \in Nat /\ r <= r + rounding
    BY <2>1
  <2> QED BY <1>5, <2>1, <2>2, SmallerFactor
<1>9. Near(p, r)
  <2>1. CASE s = "BUY"
    BY <1>2, <1>3, <2>1 DEF Opposite
  <2>2. CASE s = "SELL"
    <3>1. t \in DOMAIN book["BUY"]
      BY <1>2, <2>2 DEF Opposite
    <3>2. b > 0
      BY <1>3, <1>5, <3>1
    <3> QED BY <1>3, <3>2
  <2> QED BY <1>2, <2>1, <2>2 DEF Side
<1>10. (p - r) * B <= r * x /\ (r - p) * B <= r * x
  BY <1>9 DEF Near, B, x
\* The order's own limit bounds its trades on one side.
<1>11. ASSUME NEW d \in Int, NEW e \in Int, d <= e, e * B <= r * x PROVE d * B <= (r + rounding) * x
  <2>1. d * B <= e * B /\ d * B \in Int /\ e * B \in Int
    BY <1>5, <1>11, SmallerFactor
  <2> QED BY <1>8, <1>11, <2>1
\* And the best price there was bounds them on the other: where the book is not
\* crossed it is beyond the midpoint,
<1>12. ASSUME NEW d \in Int, d <= 0 PROVE d * B <= (r + rounding) * x
  <2>1. 0 * B = 0 /\ 0 <= r * x
    BY <1>5, <1>8
  <2> QED BY <1>11, <1>12, <2>1
\* and where it is, close to it.
<1>13. ASSUME ~Uncrossed(book)
       PROVE  /\ a > 0 /\ b >= a /\ r = (b + a) \div 2
              /\ \A u \in a .. b : /\ (u - r) * B <= (r + rounding) * x
                                   /\ (r - u) * B <= (r + rounding) * x
  <2>1. PICK u \in DOMAIN book["BUY"], v \in DOMAIN book["SELL"] : ~(u < v)
    BY <1>13 DEF Uncrossed
  <2>2. u \in 1 .. maxNotional /\ v \in 1 .. maxNotional
    BY RestingPrices DEF Side
  <2>3. a > 0 /\ b >= a /\ b \in Nat /\ a \in Nat
    BY <1>3, <1>5, <2>1, <2>2
  <2>4. r = (b + a) \div 2
    BY <1>4, <2>3
  <2>5. Close(b, a)
    BY <1>3, <2>3
  <2>6. rounding = 1
    BY <1>13
  <2> QED BY <2>3, <2>4, <2>5, <2>6, CloseToMidpoint DEF B, x
<1>14. CASE s = "BUY"
  <2>1. t <= p /\ a > 0 /\ a <= t /\ MakerSide = "SELL" /\ t \in DOMAIN book["SELL"]
    BY <1>2, <1>3, <1>5, <1>6, <1>14 DEF Opposite, Better
  <2>2. (t - r) * B <= (r + rounding) * x
    <3>1. t - r \in Int /\ p - r \in Int /\ t - r <= p - r
      BY <1>4, <1>5, <2>1
    <3> QED BY <1>10, <1>11, <3>1
  <2>3. (r - t) * B <= (r + rounding) * x
    <3>1. CASE Uncrossed(book)
      <4>1. b > 0 => b < t
        BY <1>3, <1>14, <2>1, <3>1 DEF Uncrossed
      <4>2. r - t \in Int /\ r - t <= 0
        BY <1>3, <1>4, <1>5, <2>1, <4>1
      <4> QED BY <1>12, <4>2
    <3>2. CASE ~Uncrossed(book)
      <4>1. CASE t <= b
        <5>1. t \in a .. b
          BY <1>3, <1>5, <2>1, <4>1
        <5> QED BY <1>13, <3>2, <5>1
      <4>2. CASE b < t
        <5>1. r - t \in Int /\ r - t <= 0
          BY <1>3, <1>4, <1>5, <2>1, <4>2
        <5> QED BY <1>12, <5>1
      <4> QED BY <1>3, <1>5, <4>1, <4>2
    <3> QED BY <3>1, <3>2
  <2> QED BY <2>2, <2>3 DEF t, r, B, x
<1>15. CASE s = "SELL"
  <2>1. p <= t /\ b > 0 /\ t <= b /\ MakerSide = "BUY" /\ t \in DOMAIN book["BUY"]
    BY <1>2, <1>3, <1>5, <1>6, <1>15 DEF Opposite, Better
  <2>2. (r - t) * B <= (r + rounding) * x
    <3>1. r - t \in Int /\ r - p \in Int /\ r - t <= r - p
      BY <1>4, <1>5, <2>1
    <3> QED BY <1>10, <1>11, <3>1
  <2>3. (t - r) * B <= (r + rounding) * x
    <3>1. CASE a > 0 => t < a
      <4>1. t - r \in Int /\ t - r <= 0
        BY <1>3, <1>4, <1>5, <2>1, <3>1
      <4> QED BY <1>12, <4>1
    <3>2. CASE a > 0 /\ ~(t < a)
      <4>1. ~Uncrossed(book)
        BY <1>3, <1>15, <2>1, <3>2 DEF Uncrossed
      <4>2. t \in a .. b
        BY <1>3, <1>5, <2>1, <3>2
      <4> QED BY <1>13, <4>1, <4>2
    <3> QED BY <3>1, <3>2
  <2> QED BY <2>2, <2>3 DEF t, r, B, x
<1> QED BY <1>2, <1>14, <1>15 DEF Side

LEMMA StepInside ==
  SaneLimits /\ IInv /\ GateInv /\ CollarInv /\ [GatewayNext]_gatewayVars => [TradeInside]_vars
<1> SUFFICES ASSUME SaneLimits, IInv, GateInv, CollarInv, [GatewayNext]_gatewayVars,
                    vars' # vars, trade' # NoTrade, ~order[taker].isMarket, escaped = {}
             PROVE  TradeInside
  BY DEF TradeInside
<1>1. [Next]_vars
  BY GatewayStepIsEngineStep
<1>2. FillMaker \/ FillTaker
  <2>1. Next
    BY <1>1
  <2>2. ASSUME NEW i \in OrderId, NEW p \in Price, NEW q \in Quantity, NEW s \in Side,
               NEW m \in BOOLEAN, Submit(i, p, q, s, m)
        PROVE  FALSE
    BY <2>2 DEF Submit
  <2>3. ASSUME NEW i \in OrderId, CancelOrder(i) PROVE FALSE
    BY <2>3 DEF CancelOrder
  <2>4. ASSUME NEW i \in OrderId, NEW new \in OrderId, NEW p \in Price, NEW q \in Quantity,
               ReduceOrder(i, new, p, q) \/ ReplaceOrder(i, new, p, q)
        PROVE  FALSE
    BY <2>4 DEF ReduceOrder, ReplaceOrder
  <2>5. ~Finish
    BY DEF Finish
  <2> QED BY <2>1, <2>2, <2>3, <2>4, <2>5 DEF Next
<1>3. trade'.price = MakerPrice
  BY <1>2 DEF FillMaker, FillTaker, RecordTrade
<1> QED BY <1>2, <1>3, FillInside DEF TradeInside, Ref

\* Under limits that are not negative and not absurdly large, until a message
\* escapes every trade of a limit order is within the collar around the market
\* it arrived to, or of one tick more in a crossed book (property
\* TradesInsideCollar).
THEOREM TradesStayInsideCollar == SaneLimits => (GatewaySpec => TradesInsideCollar)
<1> SUFFICES ASSUME SaneLimits PROVE GatewaySpec => TradesInsideCollar
  OBVIOUS
<1>1. GatewayInit => CollarInv
  <2>1. Init => DOMAIN book["BUY"] = {} /\ taker = null
    BY DEF Init, Side
  <2> QED BY <2>1 DEF GatewayInit, CollarInv, BookClose
<1>2. IInv /\ GateInv /\ CollarInv /\ [GatewayNext]_gatewayVars => GateInv' /\ CollarInv'
  BY GateStep, CollarStep
<1>3. GatewaySpec => [](IInv /\ GateInv /\ CollarInv)
  BY <1>1, <1>2, InitGateInv, GatewayRunsEngine, Invariance, PTL DEF GatewaySpec
<1>4. IInv /\ GateInv /\ CollarInv /\ [GatewayNext]_gatewayVars => [TradeInside]_vars
  BY StepInside
<1>5. GatewaySpec => [][TradeInside]_vars
  BY <1>3, <1>4, PTL DEF GatewaySpec
<1> QED BY <1>5 DEF TradesInsideCollar, TradeInside

-----------------------------------------------------------------------------
(* The feed.                                                               *)

Top == [bid : Price \cup {NoPrice}, ask : Price \cup {NoPrice}]

\* The prices told or still to be told last.
Newest == IF bboQueue = <<>> THEN seen ELSE bboQueue[Len(bboQueue)]

\* Unless it was lost, the newest snapshot shows the book as it was when the
\* last call of the engine returned.
FeedInv ==
  /\ bboQueue \in Seq(Top)
  /\ lost \in BOOLEAN
  /\ ~lost => Newest = IF taker = null THEN TopOfBook(book) ELSE before

TopTyped == TopOfBook(book) \in Top

\* The best prices of a side are prices it has.
LEMMA TopType == IInv => TopTyped
<1> SUFFICES ASSUME IInv PROVE TopTyped
  OBVIOUS
<1>1. ASSUME NEW s \in Side PROVE BestPrice(book[s], s) \in Price \cup {NoPrice}
  <2>1. DOMAIN book[s] \subseteq Price
    BY DEF IInv, Sides, BookOK, SideOK
  <2>2. CASE DOMAIN book[s] = {}
    BY <2>2 DEF BestPrice
  <2>3. CASE DOMAIN book[s] # {}
    <3>1. Best(book[s], s) \in DOMAIN book[s]
      BY <2>1, <2>3, BestExists
    <3> QED BY <2>1, <2>3, <3>1 DEF BestPrice
  <2> QED BY <2>2, <2>3
<1>2. /\ BestPrice(book["BUY"], "BUY") \in Price \cup {NoPrice}
      /\ BestPrice(book["SELL"], "SELL") \in Price \cup {NoPrice}
  BY <1>1 DEF Side
<1> QED BY <1>2 DEF TopTyped, TopOfBook, Top

\* The first or the last element of a queue, and what is left.
LEMMA QueueEnds ==
  ASSUME NEW S, NEW q \in Seq(S)
  PROVE  /\ Len(q) \in Nat
         /\ q # <<>> => /\ Head(q) = q[1] /\ Head(q) \in S
                        /\ Tail(q) \in Seq(S) /\ Len(Tail(q)) = Len(q) - 1
                        /\ Tail(q) = <<>> => Len(q) = 1
                        /\ Tail(q) # <<>> => Tail(q)[Len(Tail(q))] = q[Len(q)]
         /\ \A x \in S : /\ Append(q, x) \in Seq(S) /\ Append(q, x) # <<>>
                         /\ Append(q, x)[Len(Append(q, x))] = x
<1>1. Len(q) \in Nat
  OBVIOUS
<1>2. ASSUME q # <<>>
      PROVE  /\ Head(q) = q[1] /\ Head(q) \in S
             /\ Tail(q) \in Seq(S) /\ Len(Tail(q)) = Len(q) - 1
             /\ Tail(q) = <<>> => Len(q) = 1
             /\ Tail(q) # <<>> => Tail(q)[Len(Tail(q))] = q[Len(q)]
  <2>1. Len(q) \in Nat \ {0}
    BY <1>2, EmptySeq, LenProperties
  <2>2. /\ Head(q) = q[1] /\ Head(q) \in S
        /\ Tail(q) \in Seq(S) /\ Len(Tail(q)) = Len(q) - 1
    BY <1>2, <2>1, HeadTailProperties
  <2>3. Tail(q) = <<>> => Len(q) = 1
    BY <2>1, <2>2, EmptySeq
  <2>4. ASSUME Tail(q) # <<>> PROVE Tail(q)[Len(Tail(q))] = q[Len(q)]
    <3>1. Len(Tail(q)) \in Nat \ {0}
      <4> DEFINE rest == Tail(q)
      <4>1. rest \in Seq(S) /\ rest # <<>>
        BY <2>2, <2>4
      <4> HIDE DEF rest
      <4>2. Len(rest) \in Nat \ {0}
        BY <4>1, EmptySeq, LenProperties
      <4> QED BY <4>2 DEF rest
    <3>2. Tail(q)[Len(Tail(q))] = q[Len(Tail(q)) + 1]
      BY <1>2, <2>2, <3>1, HeadTailProperties
    <3>3. Len(Tail(q)) + 1 = Len(q)
      BY <2>1, <2>2
    <3> QED BY <3>2, <3>3
  <2> QED BY <2>2, <2>3, <2>4
<1>3. ASSUME NEW x \in S
      PROVE  /\ Append(q, x) \in Seq(S) /\ Append(q, x) # <<>>
             /\ Append(q, x)[Len(Append(q, x))] = x
  <2>1. Append(q, x) \in Seq(S) /\ Len(Append(q, x)) = Len(q) + 1
    BY AppendProperties
  <2>2. Append(q, x)[Len(q) + 1] = x
    BY AppendProperties
  <2>3. Append(q, x) # <<>>
    BY <1>1, <2>1
  <2> QED BY <2>1, <2>2, <2>3
<1> QED BY <1>1, <1>2, <1>3

\* A publication makes the book's top the newest snapshot, or loses it.
LEMMA PublishKeeps ==
  ASSUME FeedInv, TopTyped', NEW moved \in BOOLEAN, Publish(moved), seen' = seen,
         taker' = null, ~moved /\ ~lost => Newest = TopOfBook(book)'
  PROVE  FeedInv'
<1>1. CASE ~moved
  <2>1. bboQueue' = bboQueue /\ lost' = lost /\ Newest' = Newest
    BY <1>1 DEF Publish, Unpublished, Newest
  <2> QED BY <1>1, <2>1 DEF FeedInv
<1>2. CASE moved /\ bboQueue' = Append(bboQueue, TopOfBook(book')) /\ lost' = FALSE
  <2>1. bboQueue' = Append(bboQueue, TopOfBook(book)') /\ lost' = FALSE
    BY <1>2
  <2>2. /\ bboQueue' \in Seq(Top) /\ bboQueue' # <<>>
        /\ bboQueue'[Len(bboQueue')] = TopOfBook(book)'
    BY <2>1, QueueEnds DEF FeedInv, TopTyped
  <2>3. Newest' = TopOfBook(book)'
    BY <2>2 DEF Newest
  <2> QED BY <2>1, <2>2, <2>3 DEF FeedInv
<1>3. CASE moved /\ bboQueue' = bboQueue /\ lost' = TRUE
  BY <1>3 DEF FeedInv
<1>4. \/ ~moved
      \/ moved /\ bboQueue' = Append(bboQueue, TopOfBook(book')) /\ lost' = FALSE
      \/ moved /\ bboQueue' = bboQueue /\ lost' = TRUE
  BY DEF Publish, Published
<1> QED BY <1>1, <1>2, <1>3, <1>4

\* A step of the feed is a step of the engine or leaves it alone.
LEMMA FeedStepIsEngineStep == [FeedNext]_feedVars => [Next]_vars
<1> SUFFICES ASSUME [FeedNext]_feedVars PROVE [Next]_vars
  OBVIOUS
<1>1. ASSUME NEW i \in OrderId, NEW p \in Price, NEW q \in Quantity, NEW s \in Side,
             NEW m \in BOOLEAN, NewOrder(i, p, q, s, m)
      PROVE  Next
  BY <1>1 DEF NewOrder, Next
<1>2. CASE ProcessOrder
  BY <1>2 DEF ProcessOrder, Sweep, Next
<1>3. ASSUME NEW i \in OrderId, Cancel(i) PROVE Next
  BY <1>3 DEF Cancel, Next
<1>4. ASSUME NEW i \in OrderId, NEW new \in OrderId, NEW p \in Price, NEW q \in Quantity,
             Modify(i, new, p, q)
      PROVE  Next
  BY <1>4 DEF Modify, Next
<1>5. CASE Deliver \/ Lose \/ UNCHANGED feedVars
  BY <1>5 DEF Deliver, Lose, feedVars
<1> QED BY <1>1, <1>2, <1>3, <1>4, <1>5 DEF FeedNext

\* acquire hands out an order.
LEMMA SubmitTakes ==
  ASSUME IInv, NEW i, NEW p, NEW q, NEW s, NEW m, Submit(i, p, q, s, m)
  PROVE  taker' # null
<1>1. Len(order) \in Nat /\ freeList \in Seq(1 .. Len(order))
  BY LenProperties DEF IInv, Typed
<1>2. CASE freeList = <<>>
  BY <1>1, <1>2 DEF Submit, Acquire, null
<1>3. CASE freeList # <<>>
  <2>1. taker' = Last(freeList)
    BY <1>3 DEF Submit, Acquire
  <2>2. Last(freeList) \in 1 .. Len(order)
    <3>1. Len(freeList) \in Nat \ {0}
      BY <1>1, <1>3, EmptySeq, LenProperties
    <3> QED BY <1>1, <3>1 DEF Last
  <2> QED BY <2>1, <2>2 DEF null
<1> QED BY <1>2, <1>3

\* Every step of the engine, the ring or the network keeps the invariant.
LEMMA FeedStep == IInv /\ FeedInv /\ [FeedNext]_feedVars => FeedInv'
<1> SUFFICES ASSUME IInv, FeedInv, [FeedNext]_feedVars PROVE FeedInv'
  OBVIOUS
<1>0. TopTyped'
  <2>1. IInv'
    BY FeedStepIsEngineStep, NextIInv
  <2> QED BY <2>1, TopType, PTL
<1>1. ASSUME NEW i \in OrderId, NEW p \in Price, NEW q \in Quantity, NEW s \in Side,
             NEW m \in BOOLEAN, NewOrder(i, p, q, s, m)
      PROVE  FeedInv'
  <2>1. /\ bboQueue' = bboQueue /\ seen' = seen /\ lost' = lost
        /\ taker = null /\ before' = TopOfBook(book) /\ book' = book
    BY <1>1 DEF NewOrder, Submit, queueVars
  <2>2. taker' # null
    BY <1>1, SubmitTakes DEF NewOrder
  <2> QED BY <2>1, <2>2 DEF FeedInv, Newest
<1>2. CASE ProcessOrder
  <2>1. CASE Finish
    <3>1. taker # null /\ taker' = null
      BY <2>1 DEF Finish
    <3>2. Publish(TopOfBook(book)' # before) /\ seen' = seen
      BY <1>2, <3>1 DEF ProcessOrder
    <3> QED BY <1>0, <3>1, <3>2, PublishKeeps DEF FeedInv
  <2>2. CASE FillMaker \/ FillTaker
    <3>1. taker # null /\ taker' = taker /\ before' = before
      BY <2>2 DEF FillMaker, FillTaker, Marketable
    <3>2. bboQueue' = bboQueue /\ lost' = lost /\ seen' = seen
      BY <1>2, <3>1 DEF ProcessOrder, Publish, Unpublished
    <3> QED BY <3>1, <3>2 DEF FeedInv, Newest
  <2> QED BY <1>2, <2>1, <2>2 DEF ProcessOrder, Sweep
<1>3. ASSUME NEW i \in OrderId, Cancel(i) PROVE FeedInv'
  <2>1. Publish(TRUE) /\ seen' = seen /\ taker' = null
    BY <1>3 DEF Cancel, CancelOrder
  <2> QED BY <1>0, <2>1, PublishKeeps
<1>4. ASSUME NEW i \in OrderId, NEW new \in OrderId, NEW p \in Price, NEW q \in Quantity,
             Modify(i, new, p, q)
      PROVE  FeedInv'
  <2>1. taker = null /\ taker' = null
    BY <1>4 DEF Modify, ReduceOrder, ReplaceOrder
  <2>2. Publish(TopOfBook(book)' # TopOfBook(book)) /\ seen' = seen
    BY <1>4 DEF Modify
  <2> QED BY <1>0, <2>1, <2>2, PublishKeeps DEF FeedInv
<1>5. CASE Deliver
  <2>1. /\ bboQueue # <<>> /\ seen' = Head(bboQueue) /\ bboQueue' = Tail(bboQueue)
        /\ lost' = lost /\ book' = book /\ taker' = taker /\ before' = before
    BY <1>5 DEF Deliver, vars
  <2>2. bboQueue' \in Seq(Top) /\ Newest' = Newest
    BY <2>1, QueueEnds DEF FeedInv, Newest
  <2> QED BY <2>1, <2>2 DEF FeedInv
<1>6. CASE Lose
  <2>1. /\ bboQueue # <<>> /\ seen' = seen /\ bboQueue' = Tail(bboQueue)
        /\ lost' = (lost \/ bboQueue' = <<>>)
        /\ book' = book /\ taker' = taker /\ before' = before
    BY <1>6 DEF Lose, vars
  <2>2. bboQueue' \in Seq(Top) /\ (bboQueue' # <<>> => Newest' = Newest)
    BY <2>1, QueueEnds DEF FeedInv, Newest
  <2> QED BY <2>1, <2>2 DEF FeedInv
<1>7. CASE UNCHANGED feedVars
  <2>1. /\ bboQueue' = bboQueue /\ seen' = seen /\ lost' = lost
        /\ book' = book /\ taker' = taker /\ before' = before
    BY <1>7 DEF feedVars, queueVars, vars
  <2> QED BY <2>1 DEF FeedInv, Newest
<1> QED BY <1>1, <1>2, <1>3, <1>4, <1>5, <1>6, <1>7 DEF FeedNext

\* The feed is the matching engine with a queue behind it: whatever holds of
\* the engine's specification holds of the feed's.
THEOREM FeedRunsEngine == FeedSpec => Spec
BY FeedStepIsEngineStep, PTL DEF FeedSpec, FeedInit, Spec

\* A subscriber that nothing is on the way to, and that the newest snapshot
\* reached, holds the best prices of the book, whatever was refused by the ring
\* or lost by the network before (property CaughtUp).
THEOREM FeedCaughtUp == FeedSpec => []CaughtUp
<1>1. FeedInit => FeedInv
  BY EmptySeq DEF FeedInit, Init, FeedInv, Newest
<1>2. FeedInv => CaughtUp
  BY DEF FeedInv, Newest, CaughtUp
<1> QED BY <1>1, <1>2, FeedStep, FeedRunsEngine, Invariance, PTL DEF FeedSpec
===============================================================================
