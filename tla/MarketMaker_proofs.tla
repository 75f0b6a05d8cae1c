-------------------------- MODULE MarketMaker_proofs --------------------------
(***************************************************************************)
(* The market maker, for any configuration and any order flow: it leaves   *)
(* the matching engine its behaviours, knows each of its orders that rest, *)
(* is out when it has stopped, keeps the position it counts within its     *)
(* limit, misses fills in no more than the two ways its code has, keeps    *)
(* accounts that agree with its cash, and never trades with itself.        *)
(***************************************************************************)
EXTENDS MarketMaker, OrderBookClients_proofs

-----------------------------------------------------------------------------
(* The invariant.  What rests is seen as in ClientView, by id.             *)

\* How many times the market maker has been asked to quote, and how high prices
\* can be by then.
Rounds == IF phase = "tick" THEN tick - 1 ELSE tick

PricesFit(top) ==
  /\ 0 .. top + numTicks * Reach \subseteq Price
  /\ SimPrice \subseteq 1 .. top
  /\ startPrice - seedDepthLevels * seedTickSize > 0
  /\ startPrice + seedDepthLevels * seedTickSize <= top
Top == CHOOSE top \in Price : PricesFit(top)
Ceiling == Top + Rounds * Reach

\* The calls that cancel a quote, place one, and seed the book.
Call == [call : {"cancel"}, id : Nat, side : Side]
          \cup [call : {"process"}, id : Nat, price : Int, qty : Quantity, side : Side]
Cancels(c) == c.call = "cancel"
Quotes(c) == c.call = "process" /\ c.id = 0
Seeds(c) == c.call = "process" /\ c.id \in 1 .. 2 * seedDepthLevels
Rank(c) == (IF Cancels(c) THEN 0 ELSE 2) + (IF c.side = "BUY" THEN 1 ELSE 2)

\* A cancel of this side's quote is still to come.
Dropping(s) == \E k \in DOMAIN todo : Cancels(todo[k]) /\ todo[k].side = s

\* The order in flight is the maker's.
OwnInFlight == taker # null /\ Own(order[taker].id)

Counters ==
  /\ phase \in {"order", "tick", "stopped"}
  /\ tick \in 0 .. numTicks /\ (phase = "tick" => tick > 0)
  /\ simId \in 1 .. 2 * seedDepthLevels + 1 + tick
  /\ nextOrderId \in startingId .. startingId + 2 * Rounds
  /\ \A i \in DOMAIN RestingView : i \in 1 .. nextOrderId - 1
  /\ taker # null => order[taker].id \in 1 .. nextOrderId - 1

Priced ==
  /\ \A s \in Side : DOMAIN book[s] \subseteq 1 .. Ceiling
  /\ taker # null /\ ~order[taker].isMarket => order[taker].price \in 1 .. Ceiling
  /\ \A k \in DOMAIN todo : todo[k].call = "process" => todo[k].price \in 1 .. Ceiling

\* Either the book is being seeded, or quotes are first cancelled, then placed.
Calls ==
  /\ todo \in Seq(Call)
  /\ \/ \A k \in DOMAIN todo : Seeds(todo[k])
     \/ \A k \in DOMAIN todo : Cancels(todo[k]) \/ Quotes(todo[k])
  /\ \A j, k \in DOMAIN todo : j < k /\ ~Seeds(todo[j]) => Rank(todo[j]) < Rank(todo[k])
  /\ \A k \in DOMAIN todo : Quotes(todo[k]) =>
        nextOrderId + (5 - Rank(todo[k])) <= startingId + 2 * Rounds
  /\ phase = "tick" => todo = <<>>

Unstarted ==
  (\E k \in DOMAIN todo : Seeds(todo[k])) \/ (taker # null /\ ~OwnInFlight /\ phase # "tick")
    => /\ phase = "order" /\ ~OwnInFlight
       /\ \A s \in Side : quote[s].id = 0
       /\ \A k \in DOMAIN todo : Seeds(todo[k])

\* What is known of a quote before, while and after it is placed.
Tracked ==
  /\ quote \in [Side -> [id : Nat, px : Int]]
  /\ \A s \in Side : quote[s].id = 0 \/ Own(quote[s].id)
  /\ \A i \in DOMAIN RestingView : Own(i) =>
        quote[RestingView[i].side] = [id |-> i, px |-> RestingView[i].price]
  /\ \A k \in DOMAIN todo : Cancels(todo[k]) =>
        todo[k].id = quote[todo[k].side].id /\ Own(todo[k].id)
  /\ \A k \in DOMAIN todo : Quotes(todo[k]) =>
        quote[todo[k].side].id = 0 \/ Dropping(todo[k].side)
  /\ OwnInFlight =>
        /\ phase = "order" /\ ~order[taker].isMarket
        /\ quote[order[taker].side].id = 0
        /\ \A k \in DOMAIN todo :
              Quotes(todo[k]) /\ order[taker].side = "BUY" /\ todo[k].side = "SELL"

Out ==
  killed \/ phase = "stopped" =>
    /\ taker = null /\ phase # "tick"
    /\ \A k \in DOMAIN todo : Cancels(todo[k])
    /\ \A s \in Side : quote[s].id = 0 \/ Dropping(s)

\* What the maker will have counted by the end of the tick, if it looks.
Counted == position - crossing - skipped
Fits(x, q, s) == IF s = "BUY" THEN x + q <= maxPosition ELSE x - q >= -maxPosition
Capped(x) ==
  /\ x \in -maxPosition .. maxPosition
  /\ \A i \in DOMAIN RestingView :
        Own(i) => Fits(x, RestingView[i].quantity, RestingView[i].side)
  /\ OwnInFlight => Fits(x, order[taker].quantity, order[taker].side)
  /\ \A k \in DOMAIN todo : Quotes(todo[k]) => Fits(x, todo[k].qty, todo[k].side)

\* The accounts; what is counted at cost c, and held at the average, is no gain.
Account == [position : Int, realized : Int, avgEntry : Int, unit : Nat \ {0}]
Balanced(a, c) == a.realized = a.unit * c + a.position * a.avgEntry

Trade == [buyOrderId : Nat, sellOrderId : Nat, price : Int, quantity : Nat]
Net(log) == MapThenSumSet(LAMBDA k : Change(log[k]), DOMAIN log)
Accounted ==
  /\ tradeLog \in Seq(Trade)
  /\ {position, crossing, skipped} \subseteq Int
  /\ account \in Account
  /\ Counted = account.position + (IF phase = "tick" THEN Net(tradeLog) ELSE 0)
  /\ phase = "tick" => \A k \in DOMAIN tradeLog :
       /\ Own(tradeLog[k].buyOrderId) <=> tradeLog[k].buyOrderId = quote["BUY"].id
       /\ Own(tradeLog[k].sellOrderId) <=> tradeLog[k].sellOrderId = quote["SELL"].id

MakerInv ==
  /\ Counters /\ Priced /\ Calls /\ Unstarted /\ Tracked /\ Out
  /\ Capped(account.position) /\ Capped(Counted) /\ Accounted

\* The maker's sell orders are above its buy orders, wherever they are.
Apart ==
  /\ OwnInFlight /\ order[taker].side = "BUY" => quote["SELL"].id = 0
  /\ OwnInFlight /\ order[taker].side = "SELL" =>
        quote["BUY"].id = 0 \/ quote["BUY"].px < order[taker].price
  /\ \A k \in DOMAIN todo : Quotes(todo[k]) =>
        LET other == Opposite(todo[k].side)
        IN \/ quote[other].id = 0 \/ Dropping(other)
           \/ todo[k].side = "SELL" /\ quote["BUY"].px < todo[k].price
  /\ \A j, k \in DOMAIN todo : j < k /\ Quotes(todo[j]) /\ Quotes(todo[k]) =>
        todo[j].price < todo[k].price
  /\ \A k \in DOMAIN todo : Quotes(todo[k]) /\ OwnInFlight =>
        order[taker].price < todo[k].price

-----------------------------------------------------------------------------
(* What the steps of the engine do to the orders that rest, by id.         *)

\* What rests, and what is in flight, has the fields of an order.
LEMMA ViewTypes ==
  ASSUME IInv, UInv
  PROVE  /\ \A i \in DOMAIN RestingView :
              RestingView[i] \in [side : Side, price : Price, quantity : 0 .. QtyMod - 1]
         /\ DOMAIN RestingView = DOMAIN orderMap
         /\ taker # null => order[taker] \in Order
         /\ \A o \in Queued(book) : order[o].id \in DOMAIN RestingView
                                    /\ RestingView[order[o].id].side = order[o].side
<1>1. RestingView = [i \in Ids |-> Terms(orderMap[i])]
  BY ViewOfOrders
<1>2. ASSUME NEW i \in Ids
      PROVE  Terms(orderMap[i]) \in [side : Side, price : Price, quantity : 0 .. QtyMod - 1]
  <2>1. "BUY" \in Side /\ order[orderMap[i]] \in Order
    BY IndexFacts DEF Side, Ids
  <2> QED BY <2>1 DEF Terms, Order
<1>3. ASSUME NEW o \in Queued(book)
      PROVE  order[o].id \in Ids /\ Terms(orderMap[order[o].id]).side = order[o].side
  <2>1. Rests(o)
    BY RestsQueued
  <2>2. order[o].id \in DOMAIN orderMap /\ orderMap[order[o].id] = o
    BY <2>1 DEF UInv, Rests
  <2> QED BY <2>2 DEF Terms, Ids
<1>4. taker # null => order[taker] \in Order
  BY TakerFacts
<1> QED BY <1>1, <1>2, <1>3, <1>4 DEF Ids

\* An order is acquired: what rests stays.
LEMMA SubmitView ==
  ASSUME BothInv, NEW i \in OrderId, NEW p \in Price, NEW q \in Quantity,
         NEW s \in Side, NEW m \in BOOLEAN, Submit(i, p, q, s, m)
  PROVE  /\ taker = null /\ taker' # null
         /\ order'[taker'] = [id |-> i, price |-> p, quantity |-> q, side |-> s, isMarket |-> m]
         /\ RestingView' = RestingView /\ book' = book /\ trade' = NoTrade
<1>1. taker' # null /\ order'[taker'] =
         [id |-> i, price |-> p, quantity |-> q, side |-> s, isMarket |-> m]
  BY SubmitEffect DEF BothInv
<1>2. RestingView' = RestingView
  BY SubmitRefines, SimulatorAssumption DEF PTB!Submit
<1> QED BY <1>1, <1>2 DEF Submit

\* A trade takes the same from the order in flight as from one that rests.
Traded(i, qty) ==
  /\ taker # null /\ taker' = taker
  /\ i \in DOMAIN RestingView
  /\ RestingView[i].side = Opposite(order[taker].side)
  /\ \/ order[taker].isMarket
     \/ order[taker].side = "BUY" /\ RestingView[i].price <= order[taker].price
     \/ order[taker].side = "SELL" /\ RestingView[i].price >= order[taker].price
  /\ qty <= order[taker].quantity /\ qty <= RestingView[i].quantity
  /\ order'[taker] = [order[taker] EXCEPT !.quantity = @ - qty]
  /\ trade' = [buyOrderId  |-> IF order[taker].side = "BUY" THEN order[taker].id ELSE i,
               sellOrderId |-> IF order[taker].side = "SELL" THEN order[taker].id ELSE i,
               price |-> RestingView[i].price, quantity |-> qty]
  /\ DOMAIN RestingView' \subseteq DOMAIN RestingView
  /\ \A j \in DOMAIN RestingView' :
        RestingView'[j] = IF j = i THEN [RestingView[i] EXCEPT !.quantity = @ - qty]
                          ELSE RestingView[j]

\* Each pass of a match loop is such a trade.
LEMMA FillView ==
  ASSUME BothInv, FillMaker \/ FillTaker
  PROVE  \E i \in DOMAIN RestingView, qty \in Nat : Traded(i, qty)
<1> DEFINE i == order[Maker].id
           o == order[taker]
           left == RestingView[i].quantity
           qty == IF left < o.quantity THEN left ELSE o.quantity
<1>1. PTB!Fill(o, i)
  BY FillMakerRefines, FillTakerRefines
<1>2. taker # null /\ taker' = taker /\ Marketable
  BY DEF FillMaker, FillTaker, Marketable
<1>3. i \in DOMAIN RestingView
  BY <1>2, MakerIsNext, ViewTypes DEF BothInv, Ids
<1>4. /\ RestingView[i] \in [side : Side, price : Price, quantity : 0 .. QtyMod - 1]
      /\ o \in Order
  BY <1>2, <1>3, ViewTypes DEF BothInv
<1>5. /\ left \in Nat /\ o.quantity \in Nat /\ qty \in Nat
      /\ qty <= left /\ qty <= o.quantity /\ o.side \in Side
  BY <1>4 DEF Order
<1> HIDE DEF i, o, qty
<1>6. IncomingView' = {order'[taker]}
  BY <1>2 DEF IncomingView
<1>7. /\ order'[taker] = [o EXCEPT !.quantity = @ - qty]
      /\ trade' = [buyOrderId  |-> IF o.side = "BUY" THEN o.id ELSE i,
                   sellOrderId |-> IF o.side = "SELL" THEN o.id ELSE i,
                   price |-> RestingView[i].price, quantity |-> qty]
      /\ RestingView[i].side = Opposite(o.side)
      /\ \/ o.isMarket
         \/ o.side = "BUY" /\ RestingView[i].price <= o.price
         \/ o.side = "SELL" /\ RestingView[i].price >= o.price
  BY <1>1, <1>6 DEF PTB!Fill, PTB!IsNext, PTB!Accepts, PTB!Other, Opposite, qty
<1>8. /\ DOMAIN RestingView' \subseteq DOMAIN RestingView
      /\ \A j \in DOMAIN RestingView' :
            RestingView'[j] = IF j = i THEN [RestingView[i] EXCEPT !.quantity = @ - qty]
                              ELSE RestingView[j]
  <2>1. \/ RestingView' = [j \in DOMAIN RestingView \ {i} |-> RestingView[j]]
        \/ RestingView' = [RestingView EXCEPT ![i].quantity = @ - qty]
    BY <1>1 DEF PTB!Fill, PTB!Without, PTB!Ids, qty
  <2>2. CASE RestingView' = [j \in DOMAIN RestingView \ {i} |-> RestingView[j]]
    BY <2>2
  <2>3. CASE RestingView' = [RestingView EXCEPT ![i].quantity = @ - qty]
    BY <1>3, <2>3
  <2> QED BY <2>1, <2>2, <2>3
<1>9. Traded(i, qty)
  BY <1>2, <1>3, <1>5, <1>7, <1>8 DEF Traded, o
<1> QED BY <1>3, <1>5, <1>9

\* The order in flight comes to rest, or is gone.
LEMMA FinishView ==
  ASSUME BothInv, Finish
  PROVE  /\ taker # null /\ taker' = null /\ trade' = NoTrade
         /\ \/ RestingView' = RestingView
            \/ /\ ~order[taker].isMarket
               /\ RestingView' =
                    [j \in DOMAIN RestingView \cup {order[taker].id} |->
                       IF j = order[taker].id
                       THEN [side |-> order[taker].side, price |-> order[taker].price,
                             quantity |-> order[taker].quantity]
                       ELSE RestingView[j]]
<1>1. taker # null /\ taker' = null
  BY DEF Finish
<1>2. PTB!Done(order[taker])
  BY FinishRefines
<1>3. order[taker] \in Order
  BY <1>1, ViewTypes DEF BothInv
<1> QED BY <1>1, <1>2, <1>3 DEF PTB!Done, PTB!Ids, PTB!NoTrade, NoTrade, Order

\* An order leaves the book.
LEMMA CancelView ==
  ASSUME BothInv, NEW i \in OrderId, CancelOrder(i)
  PROVE  /\ taker = null /\ taker' = null /\ trade' = NoTrade
         /\ i \in DOMAIN RestingView
         /\ RestingView' = [j \in DOMAIN RestingView \ {i} |-> RestingView[j]]
<1>1. PTB!Cancel(i)
  BY CancelRefines
<1> QED BY <1>1, ViewTypes DEF BothInv, PTB!Cancel, PTB!Without, PTB!Ids, CancelOrder

-----------------------------------------------------------------------------
(* Every step is one of the engine's, or leaves it alone.                  *)

\* A product of natural numbers is one, and no less than with a smaller factor.
LEMMA Product ==
  ASSUME NEW a \in Nat, NEW b \in Nat, NEW c \in Nat, a <= b
  PROVE  a * c \in Nat /\ a * c <= b * c /\ (a + 1) * c = a * c + c
<1>1. PICK d \in Nat : b = a + d
  <2>1. b = a + (b - a) /\ b - a \in Nat
    OBVIOUS
  <2> QED BY <2>1
<1>2. b * c = a * c + d * c
  BY <1>1
<1>3. a * c \in Nat /\ d * c \in Nat /\ b * c \in Nat
  BY <1>1
<1>4. (a + 1) * c = a * c + c
  OBVIOUS
<1> QED BY <1>2, <1>3, <1>4

\* What kinds of number the parameters are.
LEMMA ParameterTypes ==
  /\ halfSpread \in Nat /\ quoteSize \in Nat /\ maxPosition \in Nat /\ skewPerUnit \in Nat
  /\ startingId \in Nat /\ seedDepthLevels \in Nat /\ seedTickSize \in Nat
  /\ startPrice \in Nat /\ numTicks \in Nat
  /\ 2 * seedDepthLevels + numTicks < startingId
BY MakerAssumption, SimulatorAssumption

\* Prices stay within the range of their type.
LEMMA CeilingFits ==
  ASSUME Counters
  PROVE  /\ PricesFit(Top) /\ Top \in Nat /\ Reach \in Nat
         /\ Rounds \in Nat /\ Ceiling \in Nat /\ Top <= Ceiling
         /\ 0 .. Ceiling \subseteq Price
<1>1. PricesFit(Top) /\ Top \in Price
  <2>1. \E top \in Price : PricesFit(top)
    BY SimulatorAssumption DEF PricesFit
  <2> QED BY <2>1 DEF Top
<1>2. Reach \in Nat
  BY MakerAssumption DEF Reach
<1>3. Top \in Nat
  <2>1. Top \in Int
    BY <1>1, ConstantsAssumption
  <2>2. startPrice + seedDepthLevels * seedTickSize \in Nat
    BY SimulatorAssumption
  <2> QED BY <1>1, <2>1, <2>2 DEF PricesFit
<1>4. Rounds \in Nat /\ numTicks \in Nat /\ Rounds <= numTicks
  BY SimulatorAssumption DEF Counters, Rounds
<1>5. /\ Rounds * Reach \in Nat /\ Rounds * Reach <= numTicks * Reach
      /\ numTicks * Reach \in Nat
  BY <1>2, <1>4, Product
<1>6. 0 .. Top + numTicks * Reach \subseteq Price
  BY <1>1 DEF PricesFit
<1>7. Ceiling \in Nat /\ Top <= Ceiling /\ Ceiling <= Top + numTicks * Reach
  BY <1>3, <1>5 DEF Ceiling
<1>8. 0 .. Ceiling \subseteq Price
  BY <1>3, <1>5, <1>6, <1>7
<1> QED BY <1>1, <1>2, <1>3, <1>4, <1>7, <1>8

\* The ids, prices and quantities of the orders that are submitted.
LEMMA SimulatedOrder ==
  ASSUME Counters, Idle, phase = "order", tick < numTicks,
         NEW p \in SimPrice \cup {0}, NEW q \in SimQuantity
  PROVE  simId \in OrderId /\ ~Own(simId) /\ p \in Price /\ q \in Quantity
<1>1. simId \in 1 .. startingId - 1
  BY MakerAssumption, SimulatorAssumption DEF Counters
<1>2. simId \in OrderId /\ ~Own(simId)
  <2>1. simId \in 1 .. startingId + 2 * numTicks /\ ~(simId >= startingId)
    BY <1>1, MakerAssumption, SimulatorAssumption
  <2> QED BY <2>1, SimulatorAssumption DEF Own
<1>3. p \in Price
  <2>1. 0 .. Top \subseteq Price /\ SimPrice \subseteq 1 .. Top /\ Top \in Nat
    BY CeilingFits DEF PricesFit
  <2> QED BY <2>1
<1> QED BY <1>2, <1>3, SimulatorAssumption

\* The order a call of processOrder submits.
PlacedId == IF Head(todo).id = 0 THEN nextOrderId ELSE Head(todo).id

\* Its id, price and quantity are ones that the engine takes.
LEMMA PlacedOrder ==
  ASSUME Counters, Priced, Calls, todo # <<>>, Head(todo).call = "process"
  PROVE  /\ 1 \in DOMAIN todo /\ Head(todo) = todo[1] /\ todo[1] \in Call
         /\ todo[1] \in [call : {"process"}, id : Nat, price : Int, qty : Quantity, side : Side]
         /\ Quotes(todo[1]) \/ Seeds(todo[1])
         /\ PlacedId \in OrderId /\ PlacedId \in 1 .. startingId + 2 * numTicks
         /\ Head(todo).price \in Price /\ Head(todo).qty \in Quantity
         /\ Head(todo).side \in Side
<1>1. /\ 1 \in DOMAIN todo /\ Head(todo) = todo[1] /\ todo[1] \in Call
  BY HeadTailProperties, LenProperties, EmptySeq, ElementOfSeq DEF Calls
<1>2. /\ todo[1] \in [call : {"process"}, id : Nat, price : Int, qty : Quantity, side : Side]
      /\ todo[1].call = "process"
  BY <1>1 DEF Call
<1>3. Quotes(todo[1]) \/ Seeds(todo[1])
  BY <1>1, <1>2 DEF Calls, Cancels
<1>4. todo[1].price \in Price
  BY <1>1, <1>2, CeilingFits DEF Priced
<1>5. PlacedId \in 1 .. startingId + 2 * numTicks
  <2>1. CASE Seeds(todo[1])
    <3>1. PlacedId = todo[1].id /\ PlacedId \in 1 .. 2 * seedDepthLevels
      BY <1>1, <2>1 DEF Seeds, PlacedId
    <3> QED BY <3>1, ParameterTypes
  <2>2. CASE Quotes(todo[1])
    <3>1. nextOrderId + (5 - Rank(todo[1])) <= startingId + 2 * Rounds
      BY <1>1, <2>2 DEF Calls
    <3>2. Rank(todo[1]) \in 3 .. 4
      BY <1>2, <2>2 DEF Rank, Quotes, Cancels
    <3>3. Rounds \in Nat /\ Rounds <= numTicks
      BY SimulatorAssumption DEF Counters, Rounds
    <3>4. nextOrderId \in Nat /\ nextOrderId >= startingId
      BY MakerAssumption, <3>3 DEF Counters
    <3>5. startingId > 0 /\ startingId \in Nat /\ numTicks \in Nat
      BY ParameterTypes
    <3>6. PlacedId = nextOrderId
      BY <1>1, <2>2 DEF PlacedId, Quotes
    <3>7. PICK r \in 3 .. 4 : r = Rank(todo[1])
      BY <3>2
    <3>8. nextOrderId + (5 - r) <= startingId + 2 * Rounds
      BY <3>1, <3>7
    <3>9. nextOrderId \in 1 .. startingId + 2 * numTicks
      BY <3>3, <3>4, <3>5, <3>8
    <3> QED BY <3>6, <3>9
  <2> QED BY <1>3, <2>1, <2>2
<1> QED BY <1>1, <1>2, <1>3, <1>4, <1>5, SimulatorAssumption

\* Each action is one of the engine's, or does not concern it.
LEMMA MakerStepRuns ==
  ASSUME IInv, MakerInv, [MakerNext]_makerVars
  PROVE  [Next]_vars
<1> USE DEF MakerInv
<1>1. ASSUME NEW p \in SimPrice, NEW q \in SimQuantity, NEW s \in Side,
             GenerateLimitOrder(p, q, s)
      PROVE  Next
  <2>1. Submit(simId, p, q, s, FALSE) /\ simId \in OrderId /\ p \in Price /\ q \in Quantity
    BY <1>1, SimulatedOrder DEF GenerateLimitOrder, BeginTick
  <2> QED BY <2>1 DEF Next
<1>2. ASSUME NEW q \in SimQuantity, NEW s \in Side, GenerateMarketOrder(q, s)
      PROVE  Next
  <2>1. Submit(simId, 0, q, s, TRUE) /\ simId \in OrderId /\ 0 \in Price /\ q \in Quantity
    BY <1>2, SimulatedOrder DEF GenerateMarketOrder, BeginTick
  <2> QED BY <2>1 DEF Next
<1>3. ASSUME NEW i \in DOMAIN orderMap, GenerateCancel(i) PROVE Next
  BY <1>3 DEF GenerateCancel, Next, IInv, Indexed
<1>4. CASE CancelQuote
  <2>1. \/ Head(todo).id \in DOMAIN orderMap /\ CancelOrder(Head(todo).id)
        \/ UNCHANGED vars
    BY <1>4 DEF CancelQuote
  <2> QED BY <2>1 DEF Next, IInv, Indexed
<1>5. CASE PlaceOrder
  <2>1. Submit(PlacedId, Head(todo).price, Head(todo).qty, Head(todo).side, FALSE)
    BY <1>5 DEF PlaceOrder, PlacedId
  <2> QED BY <1>5, <2>1, PlacedOrder DEF Next, PlaceOrder
<1>6. CASE Process
  BY <1>6 DEF Process, Sweep, Next
<1>7. CASE GenerateNothing \/ OnTick \/ Shutdown \/ Stopped \/ UNCHANGED makerVars
  BY <1>7 DEF GenerateNothing, OnTick, Shutdown, Stopped, makerVars
<1> QED BY <1>1, <1>2, <1>3, <1>4, <1>5, <1>6, <1>7 DEF MakerNext

-----------------------------------------------------------------------------
(* The maker's part of a trade log.                                        *)

Changes(log) == [k \in DOMAIN log |-> Change(log[k])]

\* A trade changes the position by a number,
LEMMA ChangeType == ASSUME NEW t \in Trade PROVE Change(t) \in Int
BY DEF Trade, Change

\* and a log by a sequence of them.
LEMMA ChangesType ==
  ASSUME NEW log \in Seq(Trade)
  PROVE  /\ Len(log) \in Nat /\ DOMAIN log = 1 .. Len(log) /\ IsFiniteSet(DOMAIN log)
         /\ \A k \in DOMAIN log : log[k] \in Trade /\ Changes(log)[k] \in Int
<1>1. Len(log) \in Nat /\ DOMAIN log = 1 .. Len(log)
  BY LenProperties
<1>2. IsFiniteSet(DOMAIN log)
  BY <1>1, FS_Interval
<1>3. ASSUME NEW k \in DOMAIN log PROVE log[k] \in Trade /\ Changes(log)[k] \in Int
  <2>1. log[k] \in Trade
    BY <1>1, ElementOfSeq
  <2> QED BY <2>1, ChangeType DEF Changes
<1> QED BY <1>1, <1>2, <1>3

\* The sums of module MarketMaker are totals.
LEMMA NetIsTotal ==
  ASSUME NEW log \in Seq(Trade)
  PROVE  Net(log) = Total(Changes(log), DOMAIN log)
<1> DEFINE S == DOMAIN log
           Matches(it) ==
             it = [s \in SUBSET S |->
                     IF s = {} THEN 0 ELSE Change(log[Some(s)]) + it[s \ {Some(s)}]]
           sum == CHOOSE it : Matches(it)
<1>1. Net(log) = sum[S]
  BY DEF Net, MapThenSumSet, MapThenFoldSet, Some
<1>2. ASSUME NEW s \in SUBSET S, s # {}
      PROVE  Changes(log)[Some(s)] = Change(log[Some(s)])
  <2>1. Some(s) \in s
    BY <1>2 DEF Some
  <2> QED BY <2>1 DEF Changes
<1>3. ASSUME NEW it PROVE Sums(it, Changes(log), S) <=> Matches(it)
  <2>1. [s \in SUBSET S |->
            IF s = {} THEN 0 ELSE Changes(log)[Some(s)] + it[s \ {Some(s)}]]
        = [s \in SUBSET S |->
            IF s = {} THEN 0 ELSE Change(log[Some(s)]) + it[s \ {Some(s)}]]
    BY <1>2
  <2> QED BY <2>1 DEF Sums
<1>4. IsFiniteSet(S)
  BY ChangesType
<1> HIDE DEF S
<1>5. \E it : Sums(it, Changes(log), S)
  BY <1>4, SumsExist
<1>6. \E it : Matches(it)
  BY <1>3, <1>5
<1> HIDE DEF Matches
<1>7. Matches(sum)
  BY <1>6
<1> HIDE DEF sum
<1>8. Sums(sum, Changes(log), S)
  BY <1>3, <1>7
<1>9. Total(Changes(log), S) = sum[S]
  BY <1>4, <1>8, TotalIs
<1> QED BY <1>1, <1>9 DEF S

\* What the maker paid for it, less what it was paid,
Payments(log) == [k \in DOMAIN log |-> Change(log[k]) * log[k].price]
Spent(log) == MapThenSumSet(LAMBDA k : Change(log[k]) * log[k].price, DOMAIN log)

LEMMA PaymentsType ==
  ASSUME NEW log \in Seq(Trade)
  PROVE  \A k \in DOMAIN log : Payments(log)[k] \in Int
<1> TAKE k \in DOMAIN log
<1>1. Change(log[k]) \in Int /\ log[k].price \in Int
  BY ChangesType, ChangeType DEF Trade
<1> QED BY <1>1 DEF Payments

\* is a total too.
LEMMA SpentIsTotal ==
  ASSUME NEW log \in Seq(Trade)
  PROVE  Spent(log) = Total(Payments(log), DOMAIN log)
<1> DEFINE S == DOMAIN log
           Matches(it) ==
             it = [s \in SUBSET S |->
                     IF s = {} THEN 0
                     ELSE Change(log[Some(s)]) * log[Some(s)].price + it[s \ {Some(s)}]]
           sum == CHOOSE it : Matches(it)
<1>1. Spent(log) = sum[S]
  BY DEF Spent, MapThenSumSet, MapThenFoldSet, Some
<1>2. ASSUME NEW s \in SUBSET S, s # {}
      PROVE  Payments(log)[Some(s)] = Change(log[Some(s)]) * log[Some(s)].price
  <2>1. Some(s) \in s
    BY <1>2 DEF Some
  <2> QED BY <2>1 DEF Payments
<1>3. ASSUME NEW it PROVE Sums(it, Payments(log), S) <=> Matches(it)
  <2>1. [s \in SUBSET S |->
            IF s = {} THEN 0 ELSE Payments(log)[Some(s)] + it[s \ {Some(s)}]]
        = [s \in SUBSET S |->
            IF s = {} THEN 0
            ELSE Change(log[Some(s)]) * log[Some(s)].price + it[s \ {Some(s)}]]
    BY <1>2
  <2> QED BY <2>1 DEF Sums
<1>4. IsFiniteSet(S)
  BY ChangesType
<1> HIDE DEF S
<1>5. \E it : Sums(it, Payments(log), S)
  BY <1>4, SumsExist
<1>6. \E it : Matches(it)
  BY <1>3, <1>5
<1> HIDE DEF Matches
<1>7. Matches(sum)
  BY <1>6
<1> HIDE DEF sum
<1>8. Sums(sum, Payments(log), S)
  BY <1>3, <1>7
<1>9. Total(Payments(log), S) = sum[S]
  BY <1>4, <1>8, TotalIs
<1> QED BY <1>1, <1>9 DEF S

\* A total grows by one value at a time.
LEMMA TotalUpto ==
  ASSUME NEW f, NEW n \in Nat, \A k \in 1 .. n : f[k] \in Int
  PROVE  /\ Total(f, 1 .. 0) = 0
         /\ \A k \in 0 .. n : Total(f, 1 .. k) \in Int
         /\ \A k \in 1 .. n : Total(f, 1 .. k) = f[k] + Total(f, 1 .. k - 1)
<1>1. Total(f, 1 .. 0) = 0
  <2>1. 1 .. 0 = {}
    OBVIOUS
  <2> QED BY <2>1, TotalEmpty
<1>2. ASSUME NEW k \in 1 .. n
      PROVE  /\ Total(f, 1 .. k) \in Int
             /\ Total(f, 1 .. k) = f[k] + Total(f, 1 .. k - 1)
  <2>1. IsFiniteSet(1 .. k) /\ \A j \in 1 .. k : f[j] \in Int
    BY FS_Interval
  <2>2. k \in 1 .. k /\ (1 .. k) \ {k} = 1 .. k - 1
    OBVIOUS
  <2>3. /\ Total(f, 1 .. k) \in Int
        /\ Total(f, 1 .. k) = f[k] + Total(f, (1 .. k) \ {k})
    BY <2>1, <2>2, TotalTake
  <2> QED BY <2>2, <2>3
<1>3. \A k \in 0 .. n : k = 0 \/ k \in 1 .. n
  OBVIOUS
<1> QED BY <1>1, <1>2, <1>3

\* Nothing is traded in an empty log.
LEMMA NetEmpty == Net(<<>>) = 0
<1>1. <<>> \in Seq(Trade) /\ DOMAIN <<>> = {}
  OBVIOUS
<1>2. Net(<<>>) = Total(Changes(<<>>), DOMAIN <<>>)
  BY <1>1, NetIsTotal
<1> QED BY <1>1, <1>2, TotalEmpty

\* A trade more is a change more.
LEMMA NetAppend ==
  ASSUME NEW log \in Seq(Trade), NEW t \in Trade
  PROVE  Net(log) \in Int /\ Net(Append(log, t)) = Net(log) + Change(t)
<1> DEFINE new == Append(log, t)
           n == Len(log)
<1>1. /\ new \in Seq(Trade) /\ n \in Nat /\ DOMAIN log = 1 .. n
      /\ DOMAIN new = 1 .. n + 1 /\ new[n + 1] = t
      /\ \A k \in 1 .. n : new[k] = log[k]
  BY AppendProperties, LenProperties
<1> HIDE DEF new, n
<1>2. /\ IsFiniteSet(DOMAIN new) /\ \A k \in DOMAIN new : Changes(new)[k] \in Int
      /\ IsFiniteSet(DOMAIN log) /\ \A k \in DOMAIN log : Changes(log)[k] \in Int
  BY <1>1, ChangesType
<1>3. n + 1 \in DOMAIN new /\ DOMAIN new \ {n + 1} = DOMAIN log
  BY <1>1
<1>4. Total(Changes(new), DOMAIN new)
        = Changes(new)[n + 1] + Total(Changes(new), DOMAIN new \ {n + 1})
  BY <1>2, <1>3, TotalTake
<1>5. Total(Changes(new), DOMAIN log) = Total(Changes(log), DOMAIN log)
  <2>1. \A k \in DOMAIN log : Changes(new)[k] = Changes(log)[k]
    BY <1>1 DEF Changes
  <2> QED BY <1>2, <2>1, TotalAgree
<1>6. Total(Changes(log), DOMAIN log) \in Int
  BY <1>2, TotalAdd
<1>7. Changes(new)[n + 1] = Change(t) /\ Change(t) \in Int
  BY <1>1, <1>3, ChangeType DEF Changes
<1>8. Net(new) = Total(Changes(new), DOMAIN new) /\ Net(log) = Total(Changes(log), DOMAIN log)
  BY <1>1, NetIsTotal
<1>9. Net(log) \in Int /\ Net(new) = Net(log) + Change(t)
  BY <1>3, <1>4, <1>5, <1>6, <1>7, <1>8
<1> QED BY <1>9 DEF new

-----------------------------------------------------------------------------
(* A tick begins: the simulator's order, or its cancel, comes first.       *)

SimulatedLimit ==
  \E p \in SimPrice, q \in SimQuantity, s \in Side : GenerateLimitOrder(p, q, s)
SimulatedMarket == \E q \in SimQuantity, s \in Side : GenerateMarketOrder(q, s)
SimulatedCancel == \E i \in DOMAIN orderMap : GenerateCancel(i)
Begins == SimulatedLimit \/ SimulatedMarket \/ SimulatedCancel \/ GenerateNothing

\* Orders leave, and no other changes.
RestsLess ==
  /\ DOMAIN RestingView' \subseteq DOMAIN RestingView
  /\ \A j \in DOMAIN RestingView' : RestingView'[j] = RestingView[j]

\* Where the engine does nothing, all of it stays.
LEMMA ViewStays ==
  ASSUME UNCHANGED vars
  PROVE  /\ RestingView' = RestingView /\ RestsLess /\ NoNewPrice(book', book)
         /\ OwnInFlight' = OwnInFlight
<1>1. RestingView' = RestingView
  BY DEF vars, RestingView, RestingIds, AddressOf, Terms, Queued
<1> QED BY <1>1 DEF vars, RestsLess, NoNewPrice, OwnInFlight

\* Of the engine's state, a new order is in flight, or one has left.
LEMMA BeginEffect ==
  ASSUME BothInv, MakerInv, Begins
  PROVE  /\ BeginTick
         /\ RestsLess /\ NoNewPrice(book', book) /\ trade' \in {trade, NoTrade}
         /\ \/ taker' = null /\ simId' = simId
            \/ /\ taker' # null /\ simId' = simId + 1
               /\ order'[taker'].id = simId
               /\ order'[taker'].isMarket \/ order'[taker'].price \in SimPrice
<1> DEFINE Goal ==
  /\ BeginTick
  /\ RestsLess /\ NoNewPrice(book', book) /\ trade' \in {trade, NoTrade}
  /\ \/ taker' = null /\ simId' = simId
     \/ /\ taker' # null /\ simId' = simId + 1
        /\ order'[taker'].id = simId
        /\ order'[taker'].isMarket \/ order'[taker'].price \in SimPrice
<1>1. ASSUME RestingView' = RestingView, book' = book
      PROVE  RestsLess /\ NoNewPrice(book', book)
  BY <1>1 DEF RestsLess, NoNewPrice
<1>2. ASSUME NEW p \in SimPrice, NEW q \in SimQuantity, NEW s \in Side,
             GenerateLimitOrder(p, q, s)
      PROVE  Goal
  <2>1. /\ Submit(simId, p, q, s, FALSE) /\ simId' = simId + 1 /\ BeginTick
        /\ simId \in OrderId /\ p \in Price /\ q \in Quantity
    BY <1>2, SimulatedOrder DEF GenerateLimitOrder, BeginTick, MakerInv
  <2>2. /\ taker' # null /\ RestingView' = RestingView /\ book' = book /\ trade' = NoTrade
        /\ order'[taker'] = [id |-> simId, price |-> p, quantity |-> q, side |-> s,
                             isMarket |-> FALSE]
    BY <2>1, SubmitView
  <2> QED BY <1>1, <2>1, <2>2
<1>3. ASSUME NEW q \in SimQuantity, NEW s \in Side, GenerateMarketOrder(q, s)
      PROVE  Goal
  <2>1. /\ Submit(simId, 0, q, s, TRUE) /\ simId' = simId + 1 /\ BeginTick
        /\ simId \in OrderId /\ 0 \in Price /\ q \in Quantity
    BY <1>3, SimulatedOrder DEF GenerateMarketOrder, BeginTick, MakerInv
  <2>2. /\ taker' # null /\ RestingView' = RestingView /\ book' = book /\ trade' = NoTrade
        /\ order'[taker'] = [id |-> simId, price |-> 0, quantity |-> q, side |-> s,
                             isMarket |-> TRUE]
    BY <2>1, SubmitView
  <2> QED BY <1>1, <2>1, <2>2
<1>4. ASSUME NEW i \in DOMAIN orderMap, GenerateCancel(i)
      PROVE  Goal
  <2>1. i \in OrderId /\ CancelOrder(i) /\ BeginTick /\ simId' = simId
    BY <1>4 DEF GenerateCancel, BothInv, IInv, Indexed
  <2>2. NoNewPrice(book', book)
    BY <2>1, CancelNoNewPrice DEF BothInv
  <2>3. taker' = null /\ trade' = NoTrade /\ RestsLess
    BY <2>1, CancelView DEF RestsLess
  <2> QED BY <2>1, <2>2, <2>3
<1>5. ASSUME GenerateNothing PROVE Goal
  <2>1. /\ taker' = null /\ simId' = simId /\ BeginTick /\ trade' = trade /\ UNCHANGED vars
    BY <1>5 DEF GenerateNothing, vars, BeginTick, Idle
  <2> QED BY <2>1, ViewStays
<1> HIDE DEF Goal
<1>6. Goal
  <2>1. CASE SimulatedLimit
    BY <1>2, <2>1 DEF SimulatedLimit
  <2>2. CASE SimulatedMarket
    BY <1>3, <2>2 DEF SimulatedMarket
  <2>3. CASE SimulatedCancel
    BY <1>4, <2>3 DEF SimulatedCancel
  <2> QED BY <1>5, <2>1, <2>2, <2>3 DEF Begins
<1> QED BY <1>6 DEF Goal

\* A tick that begins keeps the invariant.
LEMMA BeginKeeps ==
  ASSUME BothInv, MakerInv, Begins
  PROVE  MakerInv'
<1>1. /\ Idle /\ phase = "order" /\ tick < numTicks /\ ~killed
      /\ tick' = tick + 1 /\ phase' = "tick" /\ tradeLog' = <<>>
      /\ UNCHANGED <<todo, nextOrderId, account, killed, quote,
                     position, crossing, skipped>>
  BY BeginEffect DEF BeginTick, ownVars, ghostVars
<1>2. todo = <<>> /\ todo' = <<>> /\ DOMAIN todo = {} /\ DOMAIN todo' = {} /\ taker = null
  BY <1>1 DEF Idle
<1>3. /\ RestsLess /\ NoNewPrice(book', book)
      /\ \/ taker' = null /\ simId' = simId
         \/ /\ taker' # null /\ simId' = simId + 1
            /\ order'[taker'].id = simId
            /\ order'[taker'].isMarket \/ order'[taker'].price \in SimPrice
  BY BeginEffect
<1>4. tick \in Nat /\ tick \in 0 .. numTicks /\ tick' \in 1 .. numTicks
  BY <1>1, ParameterTypes DEF MakerInv, Counters
<1>5. Rounds' = Rounds /\ Ceiling' = Ceiling
  BY <1>1, <1>4 DEF Rounds, Ceiling
<1>6. simId \in 1 .. startingId - 1 /\ ~Own(simId)
  BY <1>1, <1>4, ParameterTypes DEF MakerInv, Counters, Own
<1>7. ~OwnInFlight'
  BY <1>3, <1>6 DEF OwnInFlight, Own
<1>8. Counters'
  <2>1. simId' \in 1 .. 2 * seedDepthLevels + 1 + tick'
    BY <1>1, <1>3, <1>4, ParameterTypes DEF MakerInv, Counters
  <2>2. nextOrderId' \in startingId .. startingId + 2 * Rounds'
    BY <1>1, <1>5 DEF MakerInv, Counters
  <2>3. ASSUME NEW i \in DOMAIN RestingView' PROVE i \in 1 .. nextOrderId' - 1
    BY <1>1, <1>3 DEF RestsLess, MakerInv, Counters
  <2>4. ASSUME taker' # null PROVE order'[taker'].id \in 1 .. nextOrderId' - 1
    <3>1. nextOrderId \in Int /\ nextOrderId >= startingId /\ nextOrderId' = nextOrderId
      BY <1>1, ParameterTypes, CeilingFits DEF MakerInv, Counters
    <3> QED BY <1>3, <1>6, <2>4, <3>1, ParameterTypes
  <2>5. phase' \in {"order", "tick", "stopped"} /\ tick' \in 0 .. numTicks /\ tick' > 0
    BY <1>1, <1>4
  <2> QED BY <2>1, <2>2, <2>3, <2>4, <2>5 DEF Counters
<1>9. Priced'
  <2>1. \A s \in Side : DOMAIN book'[s] \subseteq 1 .. Ceiling'
    BY <1>3, <1>5 DEF NoNewPrice, MakerInv, Priced
  <2>2. SimPrice \subseteq 1 .. Ceiling'
    BY <1>5, CeilingFits DEF MakerInv, PricesFit
  <2> QED BY <1>2, <1>3, <2>1, <2>2 DEF Priced
<1>10. Calls'
  <2>1. <<>> \in Seq(Call)
    OBVIOUS
  <2> QED BY <1>2, <2>1 DEF Calls
<1>11. Unstarted'
  BY <1>1, <1>2 DEF Unstarted
<1>12. Tracked'
  <2>1. ASSUME NEW i \in DOMAIN RestingView', Own(i)
        PROVE  quote'[RestingView'[i].side] = [id |-> i, px |-> RestingView'[i].price]
    BY <1>1, <1>3, <2>1 DEF RestsLess, MakerInv, Tracked
  <2> QED BY <1>1, <1>2, <1>7, <2>1 DEF MakerInv, Tracked
<1>13. Out'
  BY <1>1 DEF Out
<1>14. account' = account /\ Counted' = Counted
  BY <1>1 DEF Counted
<1>15. ASSUME NEW x, Capped(x)
       PROVE  /\ x \in -maxPosition .. maxPosition
              /\ \A i \in DOMAIN RestingView' :
                    Own(i) => Fits(x, RestingView'[i].quantity, RestingView'[i].side)
  BY <1>3, <1>15 DEF Capped, RestsLess
<1>16. Capped(account.position)' /\ Capped(Counted)'
  BY <1>2, <1>7, <1>14, <1>15 DEF MakerInv, Capped
<1>17. Accounted'
  <2>1. <<>> \in Seq(Trade) /\ DOMAIN <<>> = {}
    OBVIOUS
  <2> QED BY <1>1, <1>14, <2>1, NetEmpty DEF MakerInv, Accounted
<1> QED BY <1>8, <1>9, <1>10, <1>11, <1>12, <1>13, <1>16, <1>17 DEF MakerInv

-----------------------------------------------------------------------------
(* The calls that are to be made: a quote is cancelled, an order placed.   *)

\* A call is made, and the others are still to come.
LEMMA CallMade ==
  ASSUME Calls, todo # <<>>, todo' = Tail(todo)
  PROVE  /\ 1 \in DOMAIN todo /\ Head(todo) = todo[1] /\ todo[1] \in Call
         /\ \A k \in DOMAIN todo : k \in Nat /\ k >= 1 /\ todo[k] \in Call
         /\ todo' \in Seq(Call)
         /\ \A k \in DOMAIN todo' : k \in Nat /\ k >= 1 /\ k + 1 \in DOMAIN todo
                                    /\ todo'[k] = todo[k + 1]
         /\ \A k \in DOMAIN todo : k # 1 => k - 1 \in DOMAIN todo' /\ todo'[k - 1] = todo[k]
<1>1. /\ todo \in Seq(Call) /\ DOMAIN todo = 1 .. Len(todo)
      /\ Len(todo) \in Nat /\ Len(todo) # 0 /\ Head(todo) = todo[1]
  BY HeadTailProperties, LenProperties, EmptySeq DEF Calls
<1>2. /\ todo' \in Seq(Call) /\ Len(todo') = Len(todo) - 1 /\ DOMAIN todo' = 1 .. Len(todo')
      /\ \A k \in 1 .. Len(todo') : todo'[k] = todo[k + 1]
  BY <1>1, HeadTailProperties, LenProperties
<1>3. \A k \in DOMAIN todo : k \in Nat /\ k >= 1 /\ todo[k] \in Call
  BY <1>1, ElementOfSeq
<1>4. \A k \in DOMAIN todo' : k \in Nat /\ k >= 1 /\ k + 1 \in DOMAIN todo
                              /\ todo'[k] = todo[k + 1]
  BY <1>1, <1>2
<1>5. \A k \in DOMAIN todo : k # 1 => k - 1 \in DOMAIN todo' /\ todo'[k - 1] = todo[k]
  BY <1>1, <1>2
<1> QED BY <1>1, <1>2, <1>3, <1>4, <1>5

\* With it, what holds of all calls holds of the others.
LEMMA CallsLeft ==
  ASSUME MakerInv, todo # <<>>, todo' = Tail(todo), phase' = phase, tick' = tick
  PROVE  /\ todo' \in Seq(Call)
         /\ \/ \A k \in DOMAIN todo' : Seeds(todo'[k])
            \/ \A k \in DOMAIN todo' : Cancels(todo'[k]) \/ Quotes(todo'[k])
         /\ \A j, k \in DOMAIN todo' :
               j < k /\ ~Seeds(todo'[j]) => Rank(todo'[j]) < Rank(todo'[k])
         /\ phase # "tick"
         /\ \A k \in DOMAIN todo' : todo'[k].call = "process" => todo'[k].price \in 1 .. Ceiling'
         /\ Rounds' = Rounds /\ Ceiling' = Ceiling
<1>1. Calls /\ Priced
  BY DEF MakerInv
<1>2. Rounds' = Rounds /\ Ceiling' = Ceiling
  BY DEF Rounds, Ceiling
<1>3. \A k \in DOMAIN todo' : k \in Nat /\ k >= 1 /\ k + 1 \in DOMAIN todo
                              /\ todo'[k] = todo[k + 1]
  BY <1>1, CallMade
<1>4. ASSUME NEW j \in DOMAIN todo', NEW k \in DOMAIN todo', j < k, ~Seeds(todo'[j])
      PROVE  Rank(todo'[j]) < Rank(todo'[k])
  <2>1. j + 1 \in DOMAIN todo /\ k + 1 \in DOMAIN todo /\ j + 1 < k + 1
    BY <1>3, <1>4
  <2> QED BY <1>1, <1>3, <1>4, <2>1 DEF Calls
<1>5. \/ \A k \in DOMAIN todo' : Seeds(todo'[k])
      \/ \A k \in DOMAIN todo' : Cancels(todo'[k]) \/ Quotes(todo'[k])
  BY <1>1, <1>3 DEF Calls
<1>6. \A k \in DOMAIN todo' : todo'[k].call = "process" => todo'[k].price \in 1 .. Ceiling'
  BY <1>1, <1>2, <1>3 DEF Priced
<1>7. phase # "tick" /\ todo' \in Seq(Call)
  BY <1>1, CallMade DEF Calls
<1> QED BY <1>2, <1>4, <1>5, <1>6, <1>7

\* Of the engine's state, at most the order has left that is cancelled.
LEMMA QuoteLeaves ==
  ASSUME BothInv, MakerInv, CancelQuote
  PROVE  /\ todo[1] \in Call /\ Cancels(todo[1])
         /\ taker' = null /\ RestsLess /\ todo[1].id \notin DOMAIN RestingView'
         /\ NoNewPrice(book', book) /\ trade' \in {trade, NoTrade}
         /\ quote' = [quote EXCEPT ![todo[1].side] = NoQuote]
<1> DEFINE c == todo[1]
<1>1. /\ taker = null /\ c \in Call /\ Cancels(c)
      /\ IF c.id \in DOMAIN orderMap THEN CancelOrder(c.id) ELSE UNCHANGED vars
      /\ quote' = [quote EXCEPT ![c.side] = NoQuote]
  BY CallMade DEF CancelQuote, MakerInv, Cancels
<1> HIDE DEF c
<1>2. CASE c.id \in DOMAIN orderMap
  <2>1. c.id \in OrderId /\ CancelOrder(c.id)
    BY <1>1, <1>2 DEF BothInv, IInv, Indexed
  <2>2. NoNewPrice(book', book)
    BY <2>1, CancelNoNewPrice DEF BothInv
  <2>3. /\ taker' = null /\ trade' = NoTrade /\ RestsLess
        /\ c.id \notin DOMAIN RestingView'
    BY <2>1, CancelView DEF RestsLess
  <2> QED BY <1>1, <2>2, <2>3 DEF c
<1>3. CASE c.id \notin DOMAIN orderMap
  <2>1. UNCHANGED vars
    BY <1>1, <1>3
  <2>2. /\ DOMAIN RestingView' = DOMAIN orderMap /\ RestsLess /\ NoNewPrice(book', book)
        /\ taker' = null /\ trade' = trade
    BY <1>1, <2>1, ViewStays, ViewTypes DEF BothInv, vars
  <2> QED BY <1>1, <1>3, <2>2 DEF c
<1> QED BY <1>2, <1>3

\* The cancel of a quote keeps the invariant.
LEMMA CancelKeeps ==
  ASSUME BothInv, MakerInv, CancelQuote
  PROVE  MakerInv'
<1> DEFINE c == todo[1]
<1>1. /\ todo # <<>> /\ todo' = Tail(todo)
      /\ UNCHANGED <<phase, tick, simId, tradeLog, nextOrderId, account, killed,
                     position, crossing, skipped>>
  BY DEF CancelQuote, simVars, ghostVars
<1>2. /\ c \in Call /\ Cancels(c) /\ taker' = null /\ RestsLess
      /\ c.id \notin DOMAIN RestingView' /\ NoNewPrice(book', book)
      /\ quote' = [quote EXCEPT ![c.side] = NoQuote]
  BY QuoteLeaves
<1>3. /\ 1 \in DOMAIN todo
      /\ \A k \in DOMAIN todo : k \in Nat /\ k >= 1 /\ todo[k] \in Call
      /\ \A k \in DOMAIN todo' : k \in Nat /\ k >= 1 /\ k + 1 \in DOMAIN todo
                                 /\ todo'[k] = todo[k + 1]
      /\ \A k \in DOMAIN todo : k # 1 => k - 1 \in DOMAIN todo' /\ todo'[k - 1] = todo[k]
  BY <1>1, CallMade DEF MakerInv
<1>4. c.side \in Side /\ ~Seeds(c)
  BY <1>2 DEF Call, Cancels, Seeds
<1>5. \A k \in DOMAIN todo : Cancels(todo[k]) \/ Quotes(todo[k])
  BY <1>3, <1>4 DEF MakerInv, Calls
<1>6. \A k \in DOMAIN todo' : ~Seeds(todo'[k])
  BY <1>3, <1>5 DEF Seeds, Cancels, Quotes
<1>7. ~OwnInFlight'
  BY <1>2 DEF OwnInFlight
<1>8. /\ quote \in [Side -> [id : Nat, px : Int]] /\ c.id = quote[c.side].id
      /\ quote'[c.side] = NoQuote /\ \A s \in Side : s # c.side => quote'[s] = quote[s]
  BY <1>2, <1>3, <1>4 DEF MakerInv, Tracked
<1>9. \A s \in Side : Dropping(s) /\ s # c.side => Dropping(s)'
  <2>1. ASSUME NEW s \in Side, s # c.side, NEW k \in DOMAIN todo,
               Cancels(todo[k]), todo[k].side = s
        PROVE  Dropping(s)'
    BY <1>3, <2>1 DEF Dropping
  <2> QED BY <2>1 DEF Dropping
<1> HIDE DEF c
<1>10. Counters'
  <2>1. Rounds' = Rounds
    BY <1>1, CallsLeft
  <2> QED BY <1>1, <1>2, <2>1 DEF RestsLess, MakerInv, Counters
<1>11. Priced'
  BY <1>1, <1>2, CallsLeft DEF NoNewPrice, MakerInv, Priced
<1>12. Calls'
  <2>1. \A k \in DOMAIN todo' : Quotes(todo'[k]) =>
           nextOrderId' + (5 - Rank(todo'[k])) <= startingId + 2 * Rounds'
    BY <1>1, <1>3, CallsLeft DEF MakerInv, Calls
  <2> QED BY <1>1, <2>1, CallsLeft DEF Calls
<1>13. Unstarted'
  BY <1>2, <1>6 DEF Unstarted
<1>14. Tracked'
  <2>1. quote' \in [Side -> [id : Nat, px : Int]]
    <3>1. NoQuote \in [id : Nat, px : Int]
      BY DEF NoQuote
    <3> QED BY <1>2, <1>8, <3>1
  <2>2. \A s \in Side : quote'[s].id = 0 \/ Own(quote'[s].id)
    BY <1>8 DEF NoQuote, MakerInv, Tracked
  <2>3. ASSUME NEW i \in DOMAIN RestingView', Own(i)
        PROVE  quote'[RestingView'[i].side] = [id |-> i, px |-> RestingView'[i].price]
    <3>1. /\ i \in DOMAIN RestingView /\ RestingView'[i] = RestingView[i] /\ i # c.id
          /\ RestingView[i].side \in Side
      BY <1>2, ViewTypes DEF RestsLess, BothInv
    <3>2. quote[RestingView[i].side] = [id |-> i, px |-> RestingView[i].price]
      BY <2>3, <3>1 DEF MakerInv, Tracked
    <3>3. RestingView[i].side # c.side
      BY <1>8, <3>1, <3>2
    <3> QED BY <1>8, <3>1, <3>2, <3>3
  <2>4. ASSUME NEW k \in DOMAIN todo', Cancels(todo'[k])
        PROVE  todo'[k].id = quote'[todo'[k].side].id /\ Own(todo'[k].id)
    <3>1. k + 1 \in DOMAIN todo /\ todo'[k] = todo[k + 1] /\ 1 < k + 1
          /\ todo[k + 1] \in Call
      BY <1>3
    <3>2. Rank(c) < Rank(todo[k + 1])
      BY <1>3, <1>4, <3>1 DEF MakerInv, Calls, c
    <3>3. todo[k + 1].side \in Side /\ todo[k + 1].side # c.side
      BY <1>2, <2>4, <3>1, <3>2 DEF Rank, Call, Cancels
    <3> QED BY <1>8, <2>4, <3>1, <3>3 DEF MakerInv, Tracked
  <2>5. ASSUME NEW k \in DOMAIN todo', Quotes(todo'[k])
        PROVE  (quote[todo[k].side].id = 0 \/ Dropping(todo[k].side))'
    <3>1. k + 1 \in DOMAIN todo /\ todo'[k] = todo[k + 1] /\ todo[k + 1] \in Call
      BY <1>3
    <3>2. PICK s \in Side : todo'[k].side = s
      BY <3>1 DEF Call
    <3>3. quote[s].id = 0 \/ Dropping(s)
      BY <2>5, <3>1, <3>2 DEF MakerInv, Tracked
    <3>4. quote'[s].id = 0 \/ Dropping(s)'
      BY <1>8, <1>9, <3>3 DEF NoQuote
    <3> QED BY <3>2, <3>4 DEF Dropping
  <2> QED BY <1>7, <2>1, <2>2, <2>3, <2>4, <2>5 DEF Tracked
<1>15. Out'
  <2>1. ASSUME killed \/ phase = "stopped"
        PROVE  /\ \A k \in DOMAIN todo' : Cancels(todo'[k])
               /\ \A s \in Side : quote'[s].id = 0 \/ Dropping(s)'
    BY <1>3, <1>8, <1>9, <2>1 DEF MakerInv, Out, NoQuote
  <2>2. phase # "tick"
    BY <1>1, CallsLeft
  <2> QED BY <1>1, <1>2, <2>1, <2>2 DEF Out
<1>16. ASSUME NEW x, Capped(x)
       PROVE  /\ x \in -maxPosition .. maxPosition
              /\ \A i \in DOMAIN RestingView' :
                    Own(i) => Fits(x, RestingView'[i].quantity, RestingView'[i].side)
              /\ \A k \in DOMAIN todo' : Quotes(todo'[k]) => Fits(x, todo'[k].qty, todo'[k].side)
  BY <1>2, <1>3, <1>16 DEF Capped, RestsLess
<1>17. account' = account /\ Counted' = Counted
  BY <1>1 DEF Counted
<1>18. Capped(account.position)' /\ Capped(Counted)'
  BY <1>7, <1>16, <1>17 DEF MakerInv, Capped
<1>19. Accounted'
  BY <1>1, <1>17, CallsLeft DEF MakerInv, Accounted
<1> QED BY <1>10, <1>11, <1>12, <1>13, <1>14, <1>15, <1>18, <1>19 DEF MakerInv

\* Of the engine's state, an order is in flight that was not.
LEMMA OrderPlaced ==
  ASSUME BothInv, MakerInv, PlaceOrder
  PROVE  /\ taker = null /\ taker' # null
         /\ order'[taker'] = [id |-> PlacedId, price |-> todo[1].price, quantity |-> todo[1].qty,
                              side |-> todo[1].side, isMarket |-> FALSE]
         /\ RestingView' = RestingView /\ book' = book /\ trade' = NoTrade
         /\ nextOrderId' = IF todo[1].id = 0 THEN nextOrderId + 1 ELSE nextOrderId
         /\ phase = "order" /\ ~killed
<1>1. /\ todo # <<>> /\ Head(todo).call = "process"
      /\ Submit(PlacedId, Head(todo).price, Head(todo).qty, Head(todo).side, FALSE)
      /\ nextOrderId' = IF Head(todo).id = 0 THEN nextOrderId + 1 ELSE nextOrderId
  BY DEF PlaceOrder, PlacedId
<1>2. /\ Head(todo) = todo[1] /\ 1 \in DOMAIN todo /\ PlacedId \in OrderId
      /\ Head(todo).price \in Price /\ Head(todo).qty \in Quantity /\ Head(todo).side \in Side
  BY <1>1, PlacedOrder DEF MakerInv
<1>3. /\ taker = null /\ taker' # null
      /\ order'[taker'] = [id |-> PlacedId, price |-> Head(todo).price,
                           quantity |-> Head(todo).qty, side |-> Head(todo).side,
                           isMarket |-> FALSE]
      /\ RestingView' = RestingView /\ book' = book /\ trade' = NoTrade
  BY <1>1, <1>2, SubmitView
<1>4. phase = "order" /\ ~killed
  <2>1. ~Cancels(todo[1])
    BY <1>1, <1>2 DEF Cancels
  <2>2. phase # "tick"
    BY <1>2 DEF MakerInv, Calls
  <2> QED BY <1>2, <2>1, <2>2 DEF MakerInv, Out, Counters
<1> QED BY <1>1, <1>2, <1>3, <1>4

\* Nothing is cancelled any more once an order is placed; after the buy order
\* comes only the sell order.
LEMMA OrdersLeft ==
  ASSUME MakerInv, PlaceOrder, Quotes(todo[1])
  PROVE  /\ \A k \in DOMAIN todo : Quotes(todo[k]) /\ \A s \in Side : ~Dropping(s)
         /\ todo[1].side \in Side /\ Rank(todo[1]) \in 3 .. 4
         /\ \A k \in DOMAIN todo' :
               Quotes(todo'[k]) /\ todo[1].side = "BUY" /\ todo'[k].side = "SELL"
               /\ Rank(todo'[k]) = 4 /\ Rank(todo[1]) = 3
<1>1. /\ todo # <<>> /\ todo' = Tail(todo) /\ todo[1].call = "process" /\ todo[1].id = 0
  BY DEF PlaceOrder, Quotes
<1>2. /\ 1 \in DOMAIN todo
      /\ \A k \in DOMAIN todo : k \in Nat /\ k >= 1 /\ todo[k] \in Call
      /\ \A k \in DOMAIN todo' : k \in Nat /\ k >= 1 /\ k + 1 \in DOMAIN todo
                                 /\ todo'[k] = todo[k + 1]
  BY <1>1, CallMade DEF MakerInv
<1>3. ~Seeds(todo[1]) /\ ~Cancels(todo[1])
  BY <1>1 DEF Seeds, Cancels
<1>4. \A k \in DOMAIN todo : Cancels(todo[k]) \/ Quotes(todo[k])
  BY <1>2, <1>3 DEF MakerInv, Calls
<1>5. ASSUME NEW c \in Call
      PROVE  /\ c.side \in Side
             /\ Cancels(c) => Rank(c) \in 1 .. 2
             /\ Quotes(c) => /\ Rank(c) \in 3 .. 4
                             /\ Rank(c) = 3 => c.side = "BUY"
                             /\ Rank(c) = 4 => c.side = "SELL"
  BY DEF Call, Cancels, Quotes, Rank, Side
<1>6. ASSUME NEW k \in DOMAIN todo, k # 1
      PROVE  /\ Quotes(todo[k]) /\ Rank(todo[1]) = 3 /\ Rank(todo[k]) = 4
             /\ todo[1].side = "BUY" /\ todo[k].side = "SELL"
  <2>1. k \in Nat /\ 1 < k /\ todo[1] \in Call /\ todo[k] \in Call
    BY <1>2, <1>6
  <2>2. Rank(todo[1]) < Rank(todo[k])
    BY <1>2, <1>3, <2>1 DEF MakerInv, Calls
  <2>3. Rank(todo[1]) \in 3 .. 4
    BY <1>5, <2>1
  <2>4. PICK a \in 3 .. 4 : Rank(todo[1]) = a
    BY <2>3
  <2>5. Rank(todo[k]) \in 1 .. 4
    BY <1>4, <1>5, <2>1
  <2>6. PICK b \in 1 .. 4 : Rank(todo[k]) = b
    BY <2>5
  <2>7. a = 3 /\ b = 4
    BY <2>2, <2>4, <2>6
  <2>8. ~Cancels(todo[k])
    BY <1>5, <2>1, <2>6, <2>7
  <2> QED BY <1>4, <1>5, <2>1, <2>4, <2>6, <2>7, <2>8
<1>7. \A k \in DOMAIN todo : Quotes(todo[k])
  BY <1>6
<1>8. \A s \in Side : ~Dropping(s)
  BY <1>7 DEF Dropping, Cancels, Quotes
<1>9. ASSUME NEW k \in DOMAIN todo'
      PROVE  Quotes(todo'[k]) /\ todo[1].side = "BUY" /\ todo'[k].side = "SELL"
             /\ Rank(todo'[k]) = 4 /\ Rank(todo[1]) = 3
  <2>1. k + 1 \in DOMAIN todo /\ todo'[k] = todo[k + 1] /\ k + 1 # 1
    BY <1>2
  <2> QED BY <1>6, <2>1
<1>10. todo[1].side \in Side /\ Rank(todo[1]) \in 3 .. 4
  BY <1>2, <1>5
<1> QED BY <1>7, <1>8, <1>9, <1>10

\* An order placed keeps the invariant: one of the maker's,
LEMMA QuoteKeeps ==
  ASSUME BothInv, MakerInv, PlaceOrder, Quotes(todo[1])
  PROVE  MakerInv'
<1> DEFINE c == todo[1]
<1>1. /\ todo # <<>> /\ todo' = Tail(todo) /\ Head(todo).call = "process"
      /\ UNCHANGED <<phase, tick, simId, tradeLog, account, killed, quote,
                     position, crossing, skipped>>
  BY DEF PlaceOrder, simVars, ghostVars
<1>2. /\ taker' # null
      /\ order'[taker'] = [id |-> PlacedId, price |-> c.price, quantity |-> c.qty,
                           side |-> c.side, isMarket |-> FALSE]
      /\ RestingView' = RestingView /\ book' = book
      /\ phase = "order" /\ ~killed
  BY OrderPlaced
<1>3. /\ PlacedId = nextOrderId /\ nextOrderId' = nextOrderId + 1
  BY <1>1, PlacedOrder, OrderPlaced DEF Quotes, PlacedId, MakerInv
<1>4. /\ \A k \in DOMAIN todo : Quotes(todo[k]) /\ \A s \in Side : ~Dropping(s)
      /\ c.side \in Side /\ Rank(c) \in 3 .. 4
      /\ \A k \in DOMAIN todo' : Quotes(todo'[k]) /\ c.side = "BUY" /\ todo'[k].side = "SELL"
                                 /\ Rank(todo'[k]) = 4 /\ Rank(c) = 3
  BY OrdersLeft
<1>5. /\ 1 \in DOMAIN todo
      /\ \A k \in DOMAIN todo' : k + 1 \in DOMAIN todo /\ todo'[k] = todo[k + 1]
                                 /\ todo[k + 1] \in Call
  BY <1>1, CallMade DEF MakerInv
<1>6. /\ Rounds' = Rounds /\ Ceiling' = Ceiling /\ Rounds \in Nat
      /\ nextOrderId \in startingId .. startingId + 2 * Rounds /\ startingId \in Nat
      /\ 0 < startingId
  BY <1>1, CallsLeft, CeilingFits, ParameterTypes DEF MakerInv, Counters
<1>7. Own(PlacedId) /\ OwnInFlight'
  BY <1>2, <1>3, <1>6 DEF Own, OwnInFlight
<1>8. PICK r \in 3 .. 4 : Rank(c) = r
  BY <1>4
<1>9. nextOrderId + (5 - r) <= startingId + 2 * Rounds
  BY <1>4, <1>5, <1>8 DEF MakerInv, Calls
<1> HIDE DEF c
<1>10. Counters'
  <2>1. nextOrderId' \in startingId .. startingId + 2 * Rounds'
    BY <1>3, <1>6, <1>8, <1>9
  <2>2. ASSUME NEW i \in DOMAIN RestingView' PROVE i \in 1 .. nextOrderId' - 1
    <3>1. i \in 1 .. nextOrderId - 1
      BY <1>2 DEF MakerInv, Counters
    <3> QED BY <1>3, <1>6, <3>1
  <2>3. order'[taker'].id \in 1 .. nextOrderId' - 1
    BY <1>2, <1>3, <1>6
  <2> QED BY <1>1, <2>1, <2>2, <2>3 DEF MakerInv, Counters
<1>11. Priced'
  <2>1. \A s \in Side : DOMAIN book'[s] \subseteq 1 .. Ceiling'
    BY <1>2, <1>6 DEF MakerInv, Priced
  <2>2. order'[taker'].price \in 1 .. Ceiling'
    BY <1>2, <1>4, <1>5, <1>6 DEF MakerInv, Priced, Quotes, c
  <2> QED BY <1>1, <2>1, <2>2, CallsLeft DEF Priced
<1>12. Calls'
  <2>1. ASSUME NEW k \in DOMAIN todo', Quotes(todo'[k])
        PROVE  nextOrderId' + (5 - Rank(todo'[k])) <= startingId + 2 * Rounds'
    <3>1. Rank(todo'[k]) = 4 /\ r = 3
      BY <1>4, <1>8
    <3> QED BY <1>3, <1>6, <1>9, <3>1
  <2> QED BY <1>1, <2>1, CallsLeft DEF Calls
<1>13. Unstarted'
  <2>1. \A k \in DOMAIN todo' : ~Seeds(todo'[k])
    BY <1>4 DEF Quotes, Seeds
  <2> QED BY <1>7, <2>1 DEF Unstarted
<1>14. Tracked'
  <2>1. ASSUME NEW i \in DOMAIN RestingView', Own(i)
        PROVE  quote'[RestingView'[i].side] = [id |-> i, px |-> RestingView'[i].price]
    BY <1>1, <1>2, <2>1 DEF MakerInv, Tracked
  <2>2. \A k \in DOMAIN todo : quote[todo[k].side].id = 0 \/ Dropping(todo[k].side)
    BY <1>4 DEF MakerInv, Tracked
  <2>3. \A k \in DOMAIN todo : quote[todo[k].side].id = 0
    BY <1>4, <2>2 DEF Dropping, Cancels, Quotes
  <2>4. \A k \in DOMAIN todo' : quote'[todo'[k].side].id = 0 /\ ~Cancels(todo'[k])
    BY <1>1, <1>4, <1>5, <2>3 DEF Cancels, Quotes
  <2>5. quote'[order'[taker'].side].id = 0 /\ ~order'[taker'].isMarket
    BY <1>1, <1>2, <1>5, <2>3 DEF c
  <2>6. /\ quote' \in [Side -> [id : Nat, px : Int]]
        /\ \A s \in Side : quote'[s].id = 0 \/ Own(quote'[s].id)
    BY <1>1 DEF MakerInv, Tracked
  <2>7. \A k \in DOMAIN todo' :
           Quotes(todo'[k]) /\ order'[taker'].side = "BUY" /\ todo'[k].side = "SELL"
    BY <1>2, <1>4
  <2>8. phase' = "order"
    BY <1>1, <1>2
  <2> QED BY <2>1, <2>4, <2>5, <2>6, <2>7, <2>8 DEF Tracked
<1>15. Out'
  BY <1>1, <1>2 DEF Out
<1>16. ASSUME NEW x, Capped(x)
       PROVE  /\ x \in -maxPosition .. maxPosition
              /\ \A i \in DOMAIN RestingView' :
                    Own(i) => Fits(x, RestingView'[i].quantity, RestingView'[i].side)
              /\ Fits(x, order'[taker'].quantity, order'[taker'].side)
              /\ \A k \in DOMAIN todo' : Quotes(todo'[k]) => Fits(x, todo'[k].qty, todo'[k].side)
  <2>1. Fits(x, c.qty, c.side)
    BY <1>4, <1>5, <1>16 DEF Capped, c
  <2>2. \A k \in DOMAIN todo' : Quotes(todo'[k]) => Fits(x, todo'[k].qty, todo'[k].side)
    BY <1>5, <1>16 DEF Capped
  <2> QED BY <1>2, <1>16, <2>1, <2>2 DEF Capped
<1>17. account' = account /\ Counted' = Counted
  BY <1>1 DEF Counted
<1>18. Capped(account.position)' /\ Capped(Counted)'
  BY <1>16, <1>17 DEF MakerInv, Capped
<1>19. Accounted'
  BY <1>1, <1>2, <1>17 DEF MakerInv, Accounted
<1> QED BY <1>10, <1>11, <1>12, <1>13, <1>14, <1>15, <1>18, <1>19 DEF MakerInv

\* and one that the book is seeded with.
LEMMA SeedKeeps ==
  ASSUME BothInv, MakerInv, PlaceOrder, Seeds(todo[1])
  PROVE  MakerInv'
<1>1. /\ todo # <<>> /\ todo' = Tail(todo) /\ Head(todo).call = "process"
      /\ UNCHANGED <<phase, tick, simId, tradeLog, account, killed, quote,
                     position, crossing, skipped>>
  BY DEF PlaceOrder, simVars, ghostVars
<1>2. /\ taker' # null
      /\ order'[taker'] = [id |-> PlacedId, price |-> todo[1].price, quantity |-> todo[1].qty,
                           side |-> todo[1].side, isMarket |-> FALSE]
      /\ RestingView' = RestingView /\ book' = book
      /\ phase = "order" /\ ~killed
  BY OrderPlaced
<1>3. /\ PlacedId \in 1 .. 2 * seedDepthLevels /\ PlacedId = todo[1].id
      /\ nextOrderId' = nextOrderId
  <2>1. todo[1].id \in 1 .. 2 * seedDepthLevels /\ todo[1].id # 0 /\ Head(todo) = todo[1]
    BY <1>1, PlacedOrder, ParameterTypes DEF Seeds, MakerInv
  <2> QED BY <2>1, OrderPlaced DEF PlacedId
<1>4. /\ 1 \in DOMAIN todo
      /\ \A k \in DOMAIN todo' : k + 1 \in DOMAIN todo /\ todo'[k] = todo[k + 1]
  BY <1>1, CallMade DEF MakerInv
<1>5. \A k \in DOMAIN todo : Seeds(todo[k]) /\ ~Quotes(todo[k]) /\ ~Cancels(todo[k])
  BY <1>4 DEF MakerInv, Calls, Seeds, Quotes, Cancels
<1>6. \A k \in DOMAIN todo' : Seeds(todo'[k]) /\ ~Quotes(todo'[k]) /\ ~Cancels(todo'[k])
  BY <1>4, <1>5
<1>7. \A s \in Side : quote[s].id = 0
  BY <1>4, <1>5 DEF MakerInv, Unstarted
<1>8. /\ Rounds' = Rounds /\ Ceiling' = Ceiling
      /\ nextOrderId \in Nat /\ startingId <= nextOrderId
      /\ 2 * seedDepthLevels < startingId /\ seedDepthLevels \in Nat /\ startingId \in Nat
  BY <1>1, CallsLeft, CeilingFits, ParameterTypes DEF MakerInv, Counters
<1>9. ~Own(PlacedId) /\ ~OwnInFlight'
  BY <1>2, <1>3, <1>8 DEF Own, OwnInFlight
<1>10. Counters'
  <2>1. order'[taker'].id \in 1 .. nextOrderId' - 1
    BY <1>2, <1>3, <1>8
  <2> QED BY <1>1, <1>2, <1>3, <1>8, <2>1 DEF MakerInv, Counters
<1>11. Priced'
  <2>1. \A s \in Side : DOMAIN book'[s] \subseteq 1 .. Ceiling'
    BY <1>2, <1>8 DEF MakerInv, Priced
  <2>2. order'[taker'].price \in 1 .. Ceiling'
    BY <1>2, <1>4, <1>5, <1>8 DEF MakerInv, Priced, Seeds
  <2> QED BY <1>1, <2>1, <2>2, CallsLeft DEF Priced
<1>12. Calls'
  BY <1>1, <1>6, CallsLeft DEF Calls
<1>13. Unstarted'
  BY <1>1, <1>2, <1>6, <1>7, <1>9 DEF Unstarted
<1>14. Tracked'
  <2>1. ASSUME NEW i \in DOMAIN RestingView', Own(i)
        PROVE  quote'[RestingView'[i].side] = [id |-> i, px |-> RestingView'[i].price]
    BY <1>1, <1>2, <2>1 DEF MakerInv, Tracked
  <2>2. /\ quote' \in [Side -> [id : Nat, px : Int]]
        /\ \A s \in Side : quote'[s].id = 0 \/ Own(quote'[s].id)
    BY <1>1 DEF MakerInv, Tracked
  <2> QED BY <1>6, <1>9, <2>1, <2>2 DEF Tracked
<1>15. Out'
  BY <1>1, <1>2 DEF Out
<1>16. account' = account /\ Counted' = Counted
  BY <1>1 DEF Counted
<1>17. Capped(account.position)' /\ Capped(Counted)'
  BY <1>2, <1>6, <1>9, <1>16 DEF MakerInv, Capped
<1>18. Accounted'
  BY <1>1, <1>2, <1>16 DEF MakerInv, Accounted
<1> QED BY <1>10, <1>11, <1>12, <1>13, <1>14, <1>15, <1>17, <1>18 DEF MakerInv

-----------------------------------------------------------------------------
(* An order is in flight: it trades, or comes to rest, or is gone.         *)

\* What rests keeps its place in the accounts, with no more than before.
Shrinks ==
  /\ taker' = taker
  /\ order'[taker].id = order[taker].id /\ order'[taker].side = order[taker].side
  /\ order'[taker].price = order[taker].price /\ order'[taker].isMarket = order[taker].isMarket
  /\ {order[taker].quantity, order'[taker].quantity} \subseteq Int
  /\ order'[taker].quantity <= order[taker].quantity
  /\ \A j \in DOMAIN RestingView' :
       /\ j \in DOMAIN RestingView
       /\ RestingView'[j].side = RestingView[j].side
       /\ RestingView'[j].price = RestingView[j].price
       /\ {RestingView[j].quantity, RestingView'[j].quantity} \subseteq Int
       /\ RestingView'[j].quantity <= RestingView[j].quantity

\* Who the two sides of a trade are.
LEMMA TradeFacts ==
  ASSUME BothInv, MakerInv, NEW i \in DOMAIN RestingView, NEW qty \in Nat, Traded(i, qty)
  PROVE  /\ taker # null /\ order[taker] \in Order /\ order[taker].id \in Nat \ {0}
         /\ i \in Nat \ {0} /\ order[taker].side \in Side
         /\ RestingView[i].side = Opposite(order[taker].side)
         /\ {RestingView[i].quantity, RestingView[i].price} \subseteq Int
         /\ qty <= RestingView[i].quantity
         /\ trade' \in Trade /\ trade' # NoTrade
         /\ Shrinks
         /\ Own(i) => quote[RestingView[i].side].id = i
         /\ trade'.quantity = qty
         /\ order[taker].side = "BUY" =>
               trade'.buyOrderId = order[taker].id /\ trade'.sellOrderId = i
         /\ order[taker].side = "SELL" =>
               trade'.buyOrderId = i /\ trade'.sellOrderId = order[taker].id
<1> DEFINE o == order[taker]
<1>1. Price \subseteq Int /\ QtyMod \in Nat
  BY ConstantsAssumption
<1>2. /\ taker # null /\ o \in Order
      /\ \A j \in DOMAIN RestingView :
            RestingView[j] \in [side : Side, price : Price, quantity : 0 .. QtyMod - 1]
  BY ViewTypes DEF BothInv, Traded
<1>3. nextOrderId \in Nat
  <2>1. nextOrderId \in startingId .. startingId + 2 * Rounds
    BY DEF MakerInv, Counters
  <2> QED BY <2>1, ParameterTypes, CeilingFits DEF MakerInv
<1>4. o.id \in Nat \ {0} /\ i \in Nat \ {0}
  BY <1>2, <1>3 DEF MakerInv, Counters
<1>5. /\ o.quantity \in Int /\ RestingView[i].quantity \in Int /\ RestingView[i].price \in Int
      /\ o.side \in Side
  <2>1. RestingView[i] \in [side : Side, price : Price, quantity : 0 .. QtyMod - 1]
    BY <1>2
  <2>2. o.quantity \in Int /\ o.side \in Side
    <3>1. o \in [id : OrderId, price : Price, quantity : 0 .. QtyMod - 1,
                 side : Side, isMarket : BOOLEAN]
      BY <1>2 DEF Order
    <3> HIDE DEF o
    <3>2. o.quantity \in 0 .. QtyMod - 1 /\ o.side \in Side
      BY <3>1
    <3> QED BY <1>1, <3>2
  <2>3. RestingView[i].quantity \in Int /\ RestingView[i].price \in Int
    <3>1. RestingView[i].quantity \in 0 .. QtyMod - 1 /\ RestingView[i].price \in Price
      BY <2>1
    <3>2. RestingView[i].quantity \in Int
      BY <1>1, <3>1
    <3>3. RestingView[i].price \in Int
      BY <1>1, <3>1
    <3> QED BY <3>2, <3>3
  <2> QED BY <2>2, <2>3
<1>6. /\ trade' = [buyOrderId  |-> IF o.side = "BUY" THEN o.id ELSE i,
                   sellOrderId |-> IF o.side = "SELL" THEN o.id ELSE i,
                   price |-> RestingView[i].price, quantity |-> qty]
      /\ RestingView[i].side = Opposite(o.side) /\ qty <= RestingView[i].quantity
  BY DEF Traded
<1>7. trade' \in Trade /\ trade' # NoTrade /\ trade'.quantity = qty
  <2>1. trade'.buyOrderId \in Nat \ {0} /\ trade'.sellOrderId \in Nat
    BY <1>4, <1>6
  <2> QED BY <1>5, <1>6, <2>1 DEF Trade, NoTrade
<1>8. /\ o.side = "BUY" => trade'.buyOrderId = o.id /\ trade'.sellOrderId = i
      /\ o.side = "SELL" => trade'.buyOrderId = i /\ trade'.sellOrderId = o.id
  BY <1>6
<1>9. Shrinks
  <2>1. /\ taker' = taker /\ order'[taker] = [o EXCEPT !.quantity = @ - qty]
        /\ DOMAIN RestingView' \subseteq DOMAIN RestingView
        /\ \A j \in DOMAIN RestingView' :
              RestingView'[j] = IF j = i THEN [RestingView[i] EXCEPT !.quantity = @ - qty]
                                ELSE RestingView[j]
    BY DEF Traded
  <2>2. /\ order'[taker].id = o.id /\ order'[taker].side = o.side
        /\ order'[taker].price = o.price /\ order'[taker].isMarket = o.isMarket
        /\ order'[taker].quantity = o.quantity - qty
    BY <1>2, <2>1 DEF Order
  <2>3. ASSUME NEW j \in DOMAIN RestingView'
        PROVE  /\ j \in DOMAIN RestingView
               /\ RestingView'[j].side = RestingView[j].side
               /\ RestingView'[j].price = RestingView[j].price
               /\ {RestingView[j].quantity, RestingView'[j].quantity} \subseteq Int
               /\ RestingView'[j].quantity <= RestingView[j].quantity
    <3>1. RestingView[j] \in [side : Side, price : Price, quantity : 0 .. QtyMod - 1]
      BY <1>2, <2>1
    <3>2. RestingView[j].quantity \in Int
      BY <1>1, <3>1
    <3> QED BY <2>1, <3>1, <3>2
  <2>4. o.quantity - qty \in Int /\ o.quantity - qty <= o.quantity
    BY <1>5
  <2> HIDE DEF o
  <2> QED BY <1>5, <2>1, <2>2, <2>3, <2>4 DEF Shrinks, o
<1>10. Own(i) => quote[RestingView[i].side].id = i
  <2>1. Own(i) => quote[RestingView[i].side] = [id |-> i, px |-> RestingView[i].price]
    BY DEF MakerInv, Tracked
  <2> QED BY <2>1
<1> QED BY <1>2, <1>4, <1>5, <1>6, <1>7, <1>8, <1>9, <1>10

\* What was within the limit still is, when less of it can trade.
LEMMA ShrinksCapped ==
  ASSUME MakerInv, BothInv, Shrinks, taker # null, todo' = todo,
         NEW x, Capped(x)
  PROVE  /\ x \in -maxPosition .. maxPosition
         /\ \A j \in DOMAIN RestingView' :
               Own(j) => Fits(x, RestingView'[j].quantity, RestingView'[j].side)
         /\ OwnInFlight' => Fits(x, order'[taker'].quantity, order'[taker'].side)
         /\ \A k \in DOMAIN todo' : Quotes(todo'[k]) => Fits(x, todo'[k].qty, todo'[k].side)
<1>1. x \in Int /\ maxPosition \in Int /\ x \in -maxPosition .. maxPosition
  BY ParameterTypes DEF Capped
<1>2. ASSUME NEW a \in Int, NEW b \in Int, a <= b, NEW s, Fits(x, b, s)
      PROVE  Fits(x, a, s)
  BY <1>1, <1>2 DEF Fits
<1>3. ASSUME NEW j \in DOMAIN RestingView', Own(j)
      PROVE  Fits(x, RestingView'[j].quantity, RestingView'[j].side)
  BY <1>2, <1>3 DEF Shrinks, Capped
<1>4. ASSUME OwnInFlight'
      PROVE  Fits(x, order'[taker'].quantity, order'[taker'].side)
  <2>1. OwnInFlight
    BY <1>4 DEF OwnInFlight, Shrinks
  <2> QED BY <1>2, <2>1 DEF Shrinks, Capped
<1> QED BY <1>1, <1>3, <1>4 DEF Capped

\* A trade with a quote brings the maker what the limit left room for.
LEMMA TradeCapped ==
  ASSUME BothInv, MakerInv, phase = "tick", ~OwnInFlight,
         NEW i \in DOMAIN RestingView, NEW qty \in Nat, Traded(i, qty)
  PROVE  /\ Counted + Change(trade') \in -maxPosition .. maxPosition
         /\ \A j \in DOMAIN RestingView' :
               Own(j) => Fits(Counted + Change(trade'), RestingView'[j].quantity,
                              RestingView'[j].side)
<1> DEFINE x == Counted
           S == RestingView[i].side
<1>1. /\ order[taker].id \in Nat \ {0} /\ ~Own(order[taker].id) /\ i \in Nat \ {0}
      /\ S = Opposite(order[taker].side) /\ order[taker].side \in Side
      /\ RestingView[i].quantity \in Int /\ qty <= RestingView[i].quantity
      /\ Shrinks /\ trade'.quantity = qty
      /\ order[taker].side = "BUY" =>
            trade'.buyOrderId = order[taker].id /\ trade'.sellOrderId = i
      /\ order[taker].side = "SELL" =>
            trade'.buyOrderId = i /\ trade'.sellOrderId = order[taker].id
  BY TradeFacts DEF OwnInFlight
<1>2. Capped(x) /\ x \in Int /\ maxPosition \in Int /\ x \in -maxPosition .. maxPosition
  BY ParameterTypes DEF MakerInv, Capped
<1>3. /\ taker # null /\ todo' = todo =>
            \A j \in DOMAIN RestingView' :
               Own(j) => Fits(x, RestingView'[j].quantity, RestingView'[j].side)
  BY <1>1, <1>2, ShrinksCapped
<1>4. ASSUME NEW j \in DOMAIN RestingView', Own(j)
      PROVE  /\ Fits(x, RestingView[j].quantity, RestingView[j].side)
             /\ RestingView'[j].side = RestingView[j].side
             /\ RestingView[j].quantity \in Int /\ RestingView'[j].quantity \in Int
             /\ RestingView'[j].quantity <= RestingView[j].quantity
             /\ RestingView'[j].quantity =
                   RestingView[j].quantity - (IF j = i THEN qty ELSE 0)
             /\ j # i => ~(Own(i) /\ RestingView[j].side = S)
             /\ RestingView[j].side \in Side
  <2>1. j \in DOMAIN RestingView /\ Fits(x, RestingView[j].quantity, RestingView[j].side)
    BY <1>1, <1>2, <1>4 DEF Shrinks, Capped
  <2>2. RestingView'[j] = IF j = i THEN [RestingView[i] EXCEPT !.quantity = @ - qty]
                          ELSE RestingView[j]
    BY <1>4 DEF Traded
  <2>3. RestingView[j] \in [side : Side, price : Price, quantity : 0 .. QtyMod - 1]
    BY <2>1, ViewTypes DEF BothInv
  <2>4. /\ RestingView'[j].side = RestingView[j].side
        /\ RestingView[j].quantity \in Int /\ RestingView'[j].quantity \in Int
        /\ RestingView'[j].quantity <= RestingView[j].quantity
    BY <1>1, <1>4 DEF Shrinks
  <2>5. RestingView'[j].quantity = RestingView[j].quantity - (IF j = i THEN qty ELSE 0)
    BY <2>2, <2>3, <2>4
  <2>6. j # i => ~(Own(i) /\ RestingView[j].side = S)
    <3>1. quote[RestingView[j].side] = [id |-> j, px |-> RestingView[j].price]
      BY <1>4, <2>1 DEF MakerInv, Tracked
    <3>2. Own(i) => quote[S].id = i
      BY TradeFacts
    <3> QED BY <3>1, <3>2
  <2> QED BY <2>1, <2>3, <2>4, <2>5, <2>6
<1>5. Change(trade') = IF ~Own(i) THEN 0 ELSE IF S = "BUY" THEN qty ELSE -qty
  BY <1>1 DEF Change, Opposite, Side
<1>6. Own(i) => Fits(x, RestingView[i].quantity, S)
  BY <1>2 DEF Capped
<1>7. S \in Side
  BY <1>1 DEF Opposite, Side
<1> HIDE DEF x, S
<1>8. PICK d \in Int : d = Change(trade')
  BY <1>5
<1>9. x + d \in -maxPosition .. maxPosition
  BY <1>1, <1>2, <1>5, <1>6, <1>7, <1>8 DEF Fits, Side
<1>10. ASSUME NEW j \in DOMAIN RestingView', Own(j)
       PROVE  Fits(x + d, RestingView'[j].quantity, RestingView'[j].side)
  <2>1. PICK a \in Int : a = RestingView[j].quantity
    BY <1>4, <1>10
  <2>2. PICK b \in Int : b = RestingView'[j].quantity
    BY <1>4, <1>10
  <2>3. PICK s \in Side : s = RestingView[j].side /\ s = RestingView'[j].side
    BY <1>4, <1>10
  <2>4. Fits(x, a, s) /\ b <= a /\ b = a - (IF j = i THEN qty ELSE 0)
        /\ (j # i => ~(Own(i) /\ s = S))
    BY <1>4, <1>10, <2>1, <2>2, <2>3
  <2>5. j = i => s = S
    BY <2>3 DEF S
  <2>6. Fits(x + d, b, s)
    BY <1>2, <1>5, <1>7, <1>8, <1>10, <2>4, <2>5 DEF Fits, Side
  <2> QED BY <2>2, <2>3, <2>6
<1> QED BY <1>8, <1>9, <1>10 DEF x

\* A pass of a match loop keeps the invariant.
LEMMA TradeKeeps ==
  ASSUME BothInv, MakerInv, Process, FillMaker \/ FillTaker
  PROVE  MakerInv'
<1>1. PICK i \in DOMAIN RestingView, qty \in Nat : Traded(i, qty)
  BY FillView
<1>2. /\ taker # null /\ order[taker] \in Order /\ order[taker].id \in Nat \ {0}
      /\ i \in Nat \ {0} /\ order[taker].side \in Side
      /\ RestingView[i].side = Opposite(order[taker].side)
      /\ trade' \in Trade /\ trade' # NoTrade /\ Shrinks
      /\ Own(i) => quote[RestingView[i].side].id = i
      /\ trade'.quantity = qty
      /\ order[taker].side = "BUY" =>
            trade'.buyOrderId = order[taker].id /\ trade'.sellOrderId = i
      /\ order[taker].side = "SELL" =>
            trade'.buyOrderId = i /\ trade'.sellOrderId = order[taker].id
  BY <1>1, TradeFacts
<1>3. /\ taker' = taker /\ taker' # null
      /\ tradeLog' = Append(tradeLog, trade') /\ quote' = quote
      /\ position' = position + Change(trade')
      /\ crossing' = crossing + (IF Own(order[taker].id) THEN Change(trade') ELSE 0)
      /\ UNCHANGED <<phase, tick, simId, todo, nextOrderId, account, killed, skipped>>
  BY <1>2 DEF Process, simVars, Shrinks
<1>4. (OwnInFlight' <=> OwnInFlight) /\ (OwnInFlight <=> Own(order[taker].id))
  BY <1>2 DEF OwnInFlight, Shrinks
<1>5. Rounds' = Rounds /\ Ceiling' = Ceiling
  BY <1>3 DEF Rounds, Ceiling
<1>6. Counters'
  BY <1>2, <1>3, <1>5 DEF MakerInv, Counters, Shrinks
<1>7. Priced'
  <2>1. NoNewPrice(book', book)
    BY TradeNoNewPrice DEF BothInv
  <2> QED BY <1>2, <1>3, <1>5, <2>1 DEF NoNewPrice, MakerInv, Priced, Shrinks
<1>8. Calls'
  BY <1>3, <1>5 DEF MakerInv, Calls
<1>9. Unstarted'
  BY <1>2, <1>3, <1>4 DEF MakerInv, Unstarted
<1>10. Tracked'
  <2>1. ASSUME NEW j \in DOMAIN RestingView', Own(j)
        PROVE  quote'[RestingView'[j].side] = [id |-> j, px |-> RestingView'[j].price]
    BY ZenonT(40), <1>2, <1>3, <2>1 DEF MakerInv, Tracked, Shrinks
  <2>2. \A s \in Side : Dropping(s)' = Dropping(s)
    BY <1>3 DEF Dropping
  <2>3. ASSUME NEW k \in DOMAIN todo', Quotes(todo'[k])
        PROVE  (quote[todo[k].side].id = 0 \/ Dropping(todo[k].side))'
    <3>1. quote[todo[k].side].id = 0 \/ Dropping(todo[k].side)
      BY <1>3, <2>3 DEF MakerInv, Tracked
    <3> QED BY <1>3, <3>1 DEF Dropping
  <2>4. OwnInFlight' =>
          /\ phase' = "order" /\ ~order'[taker'].isMarket
          /\ quote'[order'[taker'].side].id = 0
          /\ \A k \in DOMAIN todo' :
                Quotes(todo'[k]) /\ order'[taker'].side = "BUY" /\ todo'[k].side = "SELL"
    BY <1>2, <1>3, <1>4 DEF MakerInv, Tracked, Shrinks
  <2>5. /\ quote' \in [Side -> [id : Nat, px : Int]]
        /\ \A s \in Side : quote'[s].id = 0 \/ Own(quote'[s].id)
        /\ \A k \in DOMAIN todo' : Cancels(todo'[k]) =>
              todo'[k].id = quote'[todo'[k].side].id /\ Own(todo'[k].id)
    BY <1>3 DEF MakerInv, Tracked
  <2> QED BY <2>1, <2>3, <2>4, <2>5 DEF Tracked
<1>11. Out'
  BY <1>2, <1>3 DEF MakerInv, Out
<1>12. Capped(account.position)'
  <2>1. Capped(account.position)
    BY DEF MakerInv
  <2> QED BY <1>2, <1>3, <2>1, ShrinksCapped DEF Capped
<1>13. /\ Change(trade') \in Int /\ {position, crossing, skipped} \subseteq Int
       /\ account' = account
  BY <1>2, <1>3, ChangeType DEF MakerInv, Accounted
<1>14. phase # "tick" => Counted' = Counted
  <2>1. CASE OwnInFlight
    BY <1>3, <1>4, <1>13, <2>1 DEF Counted
  <2>2. CASE ~OwnInFlight /\ phase # "tick"
    <3>1. \A s \in Side : quote[s].id = 0
      BY <1>2, <2>2 DEF MakerInv, Unstarted
    <3>2. ~Own(i)
      BY <1>2, <3>1 DEF Opposite, Side
    <3>3. Change(trade') = 0
      BY <1>2, <1>4, <2>2, <3>2 DEF Change, Side
    <3> QED BY <1>3, <1>4, <1>13, <2>2, <3>3 DEF Counted
  <2> QED BY <2>1, <2>2
<1>15. phase = "tick" => ~OwnInFlight /\ Counted' = Counted + Change(trade')
  <2>1. phase = "tick" => ~OwnInFlight
    BY DEF MakerInv, Tracked
  <2> QED BY <1>3, <1>4, <1>13, <2>1 DEF Counted
<1>16. Capped(Counted)'
  <2>1. Capped(Counted)
    BY DEF MakerInv
  <2>2. CASE phase # "tick"
    BY <1>2, <1>3, <1>14, <2>1, <2>2, ShrinksCapped DEF Capped
  <2>3. CASE phase = "tick"
    <3>1. todo' = <<>> /\ DOMAIN todo' = {}
      BY <1>3, <2>3 DEF MakerInv, Calls
    <3>2. ~OwnInFlight'
      BY <1>4, <1>15, <2>3
    <3> QED BY <1>1, <1>15, <2>3, <3>1, <3>2, TradeCapped DEF Capped
  <2> QED BY <2>2, <2>3
<1>17. Accounted'
  <2>1. tradeLog \in Seq(Trade) /\ tradeLog' \in Seq(Trade)
    BY <1>2, <1>3, AppendProperties DEF MakerInv, Accounted
  <2>2. {position', crossing', skipped'} \subseteq Int /\ account' \in Account
    BY <1>3, <1>13 DEF MakerInv, Accounted
  <2>3. Counted' = account'.position + (IF phase' = "tick" THEN Net(tradeLog') ELSE 0)
    <3>1. Net(tradeLog) \in Int /\ Net(tradeLog') = Net(tradeLog) + Change(trade')
      BY <1>2, <1>3, <2>1, NetAppend
    <3>2. account.position \in Int
      BY ParameterTypes DEF MakerInv, Capped
    <3>3. Counted = account.position + (IF phase = "tick" THEN Net(tradeLog) ELSE 0)
      BY DEF MakerInv, Accounted
    <3> QED BY <1>3, <1>13, <1>14, <1>15, <3>1, <3>2, <3>3
  <2>4. ASSUME phase' = "tick", NEW k \in DOMAIN tradeLog'
        PROVE  /\ Own(tradeLog'[k].buyOrderId) <=> tradeLog'[k].buyOrderId = quote'["BUY"].id
               /\ Own(tradeLog'[k].sellOrderId) <=> tradeLog'[k].sellOrderId = quote'["SELL"].id
    <3>1. CASE k \in DOMAIN tradeLog
      <4>1. tradeLog'[k] = tradeLog[k]
        BY <1>3, <2>1, <3>1, AppendProperties, LenProperties
      <4> QED BY <1>3, <2>4, <3>1, <4>1 DEF MakerInv, Accounted
    <3>2. CASE k \notin DOMAIN tradeLog
      <4>1. tradeLog'[k] = trade'
        BY <1>2, <1>3, <2>1, <2>4, <3>2, AppendProperties, LenProperties
      <4>2. ~Own(order[taker].id)
        BY <1>3, <1>4, <1>15, <2>4
      <4>3. \A s \in Side : quote[s].id = 0 \/ Own(quote[s].id)
        BY DEF MakerInv, Tracked
      <4> QED BY <1>2, <1>3, <4>1, <4>2, <4>3 DEF Side, Opposite
    <3> QED BY <3>1, <3>2
  <2> QED BY <2>1, <2>2, <2>3, <2>4 DEF Accounted
<1> QED BY <1>6, <1>7, <1>8, <1>9, <1>10, <1>11, <1>12, <1>16, <1>17 DEF MakerInv

\* At most the price of the order in flight is new in the book.
LEMMA FinishPrices ==
  ASSUME IInv, Finish
  PROVE  \/ book' = book
         \/ /\ ~order[taker].isMarket
            /\ \A s \in Side : DOMAIN book'[s] \subseteq DOMAIN book[s] \cup {order[taker].price}
<1>1. CASE order[taker].quantity > 0 /\ ~order[taker].isMarket
  <2> DEFINE s == order[taker].side
             p == order[taker].price
             new == AppendOrder(book[s], p, taker, order[taker].quantity)
             c == [book EXCEPT ![s] = new]
  <2>1. book' = c
    BY <1>1 DEF Finish, Rest
  <2>2. s \in Side
    BY TakerFacts DEF Order, Finish
  <2>3. DOMAIN new = DOMAIN book[s] \cup {p}
    BY ZenonT(40), AppendPrices
  <2> HIDE DEF new
  <2>4. c[s] = new /\ \A t \in Side : t # s => c[t] = book[t]
    BY <2>2, SideExcept
  <2> HIDE DEF c
  <2>5. \A t \in Side : DOMAIN book'[t] \subseteq DOMAIN book[t] \cup {p}
    BY <2>1, <2>3, <2>4
  <2> QED BY <1>1, <2>5
<1>2. CASE ~(order[taker].quantity > 0 /\ ~order[taker].isMarket)
  BY <1>2 DEF Finish, Discard
<1> QED BY <1>1, <1>2

\* processOrder returns, and the invariant is kept.
LEMMA FinishKeeps ==
  ASSUME BothInv, MakerInv, Process, Finish
  PROVE  MakerInv'
<1> DEFINE o == order[taker]
           filed == [side |-> o.side, price |-> o.price, quantity |-> o.quantity]
<1>1. /\ taker # null /\ taker' = null /\ trade' = NoTrade
      /\ \/ RestingView' = RestingView
         \/ /\ ~o.isMarket
            /\ RestingView' = [j \in DOMAIN RestingView \cup {o.id} |->
                                 IF j = o.id THEN filed ELSE RestingView[j]]
  BY FinishView
<1>2. /\ tradeLog' = tradeLog
      /\ quote' = IF Own(o.id) THEN [quote EXCEPT ![o.side] = [id |-> o.id, px |-> o.price]]
                  ELSE quote
      /\ position' = position + Change(NoTrade)
      /\ crossing' = crossing + (IF Own(o.id) THEN Change(NoTrade) ELSE 0)
      /\ UNCHANGED <<phase, tick, simId, todo, nextOrderId, account, killed, skipped>>
  BY <1>1 DEF Process, simVars
<1>3. Change(NoTrade) = 0
  BY DEF Change, NoTrade
<1>4. /\ {position, crossing, skipped} \subseteq Int
      /\ position' = position /\ crossing' = crossing /\ Counted' = Counted
  <2>1. {position, crossing, skipped} \subseteq Int
    BY DEF MakerInv, Accounted
  <2>2. position' = position /\ crossing' = crossing
    BY <1>2, <1>3, <2>1
  <2> QED BY <1>2, <2>1, <2>2 DEF Counted
<1>5. ~OwnInFlight' /\ (OwnInFlight <=> Own(o.id))
  BY <1>1 DEF OwnInFlight
<1>6. /\ o.side \in Side /\ o.id \in Nat \ {0} /\ o.price \in Int
      /\ o.id \in 1 .. nextOrderId - 1 /\ nextOrderId \in Nat
  <2>1. o \in Order /\ Price \subseteq Int
    BY <1>1, TakerFacts, ConstantsAssumption DEF BothInv
  <2>2. nextOrderId \in startingId .. startingId + 2 * Rounds
    BY DEF MakerInv, Counters
  <2>3. nextOrderId \in Nat
    BY <2>2, ParameterTypes, CeilingFits DEF MakerInv
  <2>4. o.id \in 1 .. nextOrderId - 1
    BY <1>1 DEF MakerInv, Counters
  <2>5. o.side \in Side /\ o.price \in Price
    BY <2>1 DEF Order
  <2>6. o.price \in Int
    BY <2>1, <2>5
  <2>7. o.id \in Nat \ {0}
    BY <2>3, <2>4
  <2> QED BY <2>3, <2>4, <2>5, <2>6, <2>7
<1>7. \A j \in DOMAIN RestingView' :
         \/ j \in DOMAIN RestingView /\ RestingView'[j] = RestingView[j]
         \/ ~o.isMarket /\ j = o.id /\ RestingView'[j] = filed
  BY <1>1
<1>8. filed.side = o.side /\ filed.price = o.price /\ filed.quantity = o.quantity
  OBVIOUS
<1>9. Own(o.id) =>
        /\ phase = "order" /\ quote[o.side].id = 0
        /\ \A k \in DOMAIN todo : Quotes(todo[k]) /\ o.side = "BUY" /\ todo[k].side = "SELL"
  BY <1>5 DEF MakerInv, Tracked
<1> HIDE DEF o, filed
<1>10. Rounds' = Rounds /\ Ceiling' = Ceiling
  BY <1>2 DEF Rounds, Ceiling
<1>11. Counters'
  <2>1. \A j \in DOMAIN RestingView' : j \in 1 .. nextOrderId' - 1
    BY <1>2, <1>6, <1>7 DEF MakerInv, Counters
  <2> QED BY <1>1, <1>2, <1>10, <2>1 DEF MakerInv, Counters
<1>12. Priced'
  <2>1. ~o.isMarket => o.price \in 1 .. Ceiling
    BY <1>1 DEF MakerInv, Priced, o
  <2>2. \/ book' = book
        \/ /\ ~o.isMarket
           /\ \A s \in Side : DOMAIN book'[s] \subseteq DOMAIN book[s] \cup {o.price}
    BY FinishPrices DEF BothInv, o
  <2>3. \A s \in Side : DOMAIN book[s] \subseteq 1 .. Ceiling
    BY DEF MakerInv, Priced
  <2>4. \A s \in Side : DOMAIN book'[s] \subseteq 1 .. Ceiling
    BY <2>1, <2>2, <2>3
  <2> QED BY <1>1, <1>2, <1>10, <2>4 DEF MakerInv, Priced
<1>13. Calls'
  BY <1>2, <1>10 DEF MakerInv, Calls
<1>14. Unstarted'
  <2>1. ASSUME NEW k \in DOMAIN todo', Seeds(todo'[k])
        PROVE  /\ phase = "order" /\ ~Own(o.id)
               /\ \A s \in Side : quote[s].id = 0
               /\ \A j \in DOMAIN todo : Seeds(todo[j])
    BY <1>2, <1>5, <2>1 DEF MakerInv, Unstarted
  <2>2. \A k \in DOMAIN todo' : Seeds(todo'[k]) =>
           /\ phase' = "order" /\ ~OwnInFlight'
           /\ \A s \in Side : quote'[s].id = 0
           /\ \A j \in DOMAIN todo' : Seeds(todo'[j])
    BY <1>2, <1>5, <2>1
  <2> QED BY <1>1, <2>2 DEF Unstarted
<1>15. Tracked'
  <2>1. /\ quote \in [Side -> [id : Nat, px : Int]]
        /\ \A s \in Side : quote[s].id = 0 \/ Own(quote[s].id)
    BY DEF MakerInv, Tracked
  <2>2. /\ Own(o.id) => quote'[o.side] = [id |-> o.id, px |-> o.price]
        /\ \A s \in Side : ~Own(o.id) \/ s # o.side => quote'[s] = quote[s]
    BY <1>2, <1>6, <2>1
  <2>3. quote' \in [Side -> [id : Nat, px : Int]]
    <3>1. [id |-> o.id, px |-> o.price] \in [id : Nat, px : Int]
      BY <1>6
    <3> QED BY <1>2, <2>1, <3>1
  <2>4. \A s \in Side : quote'[s].id = 0 \/ Own(quote'[s].id)
    BY <2>1, <2>2
  <2>5. ASSUME NEW j \in DOMAIN RestingView', Own(j)
        PROVE  quote'[RestingView'[j].side] = [id |-> j, px |-> RestingView'[j].price]
    <3>1. CASE j \in DOMAIN RestingView /\ RestingView'[j] = RestingView[j]
      <4>1. /\ quote[RestingView[j].side] = [id |-> j, px |-> RestingView[j].price]
            /\ RestingView[j].side \in Side
        BY <2>5, <3>1, ViewTypes DEF MakerInv, Tracked, BothInv
      <4>2. j # 0
        BY <3>1 DEF MakerInv, Counters
      <4>3. ~Own(o.id) \/ RestingView[j].side # o.side
        BY <1>9, <4>1, <4>2
      <4> QED BY <2>2, <3>1, <4>1, <4>3
    <3>2. CASE j = o.id /\ RestingView'[j] = filed
      BY <1>8, <2>2, <2>5, <3>2
    <3> QED BY <1>7, <3>1, <3>2
  <2>6. ASSUME NEW k \in DOMAIN todo', Cancels(todo'[k])
        PROVE  todo'[k].id = quote'[todo'[k].side].id /\ Own(todo'[k].id)
    <3>1. ~Own(o.id)
      BY <1>2, <1>9, <2>6 DEF Cancels, Quotes
    <3>2. quote' = quote
      BY <1>2, <3>1
    <3> QED BY <1>2, <2>6, <3>2 DEF MakerInv, Tracked
  <2>7. ASSUME NEW k \in DOMAIN todo', Quotes(todo'[k])
        PROVE  (quote[todo[k].side].id = 0 \/ Dropping(todo[k].side))'
    <3>1. quote[todo[k].side].id = 0 \/ Dropping(todo[k].side)
      BY <1>2, <2>7 DEF MakerInv, Tracked
    <3>2. quote'[todo[k].side] = quote[todo[k].side]
      <4>1. CASE Own(o.id)
        BY <1>2, <1>9, <2>2, <4>1 DEF Side
      <4>2. CASE ~Own(o.id)
        BY <1>2, <4>2
      <4> QED BY <4>1, <4>2
    <3> QED BY <1>2, <3>1, <3>2 DEF Dropping
  <2> QED BY <1>5, <2>3, <2>4, <2>5, <2>6, <2>7 DEF Tracked
<1>16. Out'
  BY <1>1, <1>2 DEF MakerInv, Out
<1>17. ASSUME NEW x, Capped(x)
       PROVE  /\ x \in -maxPosition .. maxPosition
              /\ \A j \in DOMAIN RestingView' :
                    Own(j) => Fits(x, RestingView'[j].quantity, RestingView'[j].side)
              /\ \A k \in DOMAIN todo' : Quotes(todo'[k]) => Fits(x, todo'[k].qty, todo'[k].side)
  <2>1. Own(o.id) => Fits(x, o.quantity, o.side)
    BY <1>5, <1>17 DEF Capped, o
  <2>2. \A j \in DOMAIN RestingView' :
           Own(j) => Fits(x, RestingView'[j].quantity, RestingView'[j].side)
    BY <1>7, <1>8, <1>17, <2>1 DEF Capped
  <2> QED BY <1>2, <1>17, <2>2 DEF Capped
<1>18. Capped(account.position)' /\ Capped(Counted)'
  BY <1>2, <1>4, <1>5, <1>17 DEF MakerInv, Capped
<1>19. Accounted'
  <2>1. phase = "tick" => quote' = quote
    BY <1>2, <1>9
  <2> QED BY <1>2, <1>4, <2>1 DEF MakerInv, Accounted
<1> QED BY <1>11, <1>12, <1>13, <1>14, <1>15, <1>16, <1>18, <1>19 DEF MakerInv

-----------------------------------------------------------------------------
(* onTick: the fills are counted,                                          *)

\* Shares counted at their cost are no gain: updatePosition turns the price paid
\* into position at its average, or realizes the difference.
LEMMA UpdateCounts ==
  ASSUME NEW a \in Account, NEW change \in Int, NEW px \in Int
  PROVE  LET b == UpdatePosition(a, change, px)
         IN /\ b \in Account /\ b.position = a.position + change
            /\ \A c \in Int : Balanced(a, c) => Balanced(b, c - change * px)
<1> DEFINE p == a.position
           r == a.realized
           e == a.avgEntry
           u == a.unit
           new == p + change
           n == Abs(new)
           closed == Least(Abs(change), Abs(p))
           entry == IF new = 0 THEN 0 ELSE IF p * new < 0 THEN u * px ELSE e
           b == UpdatePosition(a, change, px)
<1>1. p \in Int /\ r \in Int /\ e \in Int /\ u \in Nat \ {0} /\ new \in Int
  BY DEF Account
<1>2. CASE p = 0
  <2>1. b = [a EXCEPT !.position = change, !.avgEntry = u * px]
    BY <1>2 DEF UpdatePosition
  <2>2. u * px \in Int
    BY <1>1
  <2>3. /\ b \in Account /\ b.position = change
        /\ b.realized = r /\ b.avgEntry = u * px /\ b.unit = u
    BY <2>1, <2>2 DEF Account
  <2> HIDE DEF b, p, r, e, u
  <2>4. ASSUME NEW c \in Int, r = u * c + p * e
        PROVE  r = u * (c - change * px) + change * (u * px)
    BY <1>1, <1>2, <2>4
  <2> QED BY <1>1, <1>2, <2>3, <2>4 DEF Balanced, p, r, e, u, b
<1>3. CASE p # 0 /\ p * change > 0
  <2> DEFINE avg == e * Abs(p) + u * px * Abs(change)
  <2>1. b = [position |-> new, realized |-> r * n, avgEntry |-> avg, unit |-> u * n]
    BY <1>3 DEF UpdatePosition, Averaged
  <2> HIDE DEF b, p, r, e, u, new, n
  <2>2. \/ p > 0 /\ change > 0
        \/ p < 0 /\ change < 0
    BY <1>1, <1>3
  <2>3. n \in Nat \ {0} /\ Abs(p) \in Nat /\ Abs(change) \in Nat
    BY <1>1, <2>2 DEF n, new, Abs
  <2>4. r * n \in Int /\ avg \in Int /\ u * n \in Nat \ {0}
    BY <1>1, <2>3
  <2>5. /\ b \in Account /\ b.position = new
        /\ b.realized = r * n /\ b.avgEntry = avg /\ b.unit = u * n
    BY <1>1, <2>1, <2>4 DEF Account
  <2>6. ASSUME NEW c \in Int, r = u * c + p * e
        PROVE  r * n = (u * n) * (c - change * px) + new * avg
    <3>1. CASE p > 0 /\ change > 0
      <4>1. n = p + change /\ new = n /\ avg = e * p + u * px * change
        BY <1>1, <3>1 DEF n, new, Abs
      <4> HIDE DEF avg
      <4>2. (u * c + p * e) * (p + change)
              = (u * (p + change)) * (c - change * px)
                + (p + change) * (e * p + u * px * change)
        BY <1>1
      <4> QED BY <2>6, <4>1, <4>2
    <3>2. CASE p < 0 /\ change < 0
      <4>1. n = -(p + change) /\ new = p + change /\ avg = e * (-p) + u * px * (-change)
        BY <1>1, <3>2 DEF n, new, Abs
      <4> HIDE DEF avg
      <4>2. (u * c + p * e) * (-(p + change))
              = (u * (-(p + change))) * (c - change * px)
                + (p + change) * (e * (-p) + u * px * (-change))
        BY <1>1
      <4> QED BY <2>6, <4>1, <4>2
    <3> QED BY <2>2, <3>1, <3>2
  <2> QED BY <2>5, <2>6 DEF Balanced, p, r, e, u, b, new
<1>4. CASE p # 0 /\ ~(p * change > 0)
  <2> DEFINE real == Realized(a, change, px)
  <2>1. b = [a EXCEPT !.position = new, !.realized = real, !.avgEntry = entry]
    BY <1>4 DEF UpdatePosition
  <2>2. real = r + closed * (IF p > 0 THEN u * px - e ELSE e - u * px)
    BY DEF Realized
  <2> HIDE DEF b, p, r, e, u, new, closed, entry, real
  <2>3. /\ p > 0 => change <= 0
        /\ p < 0 => change >= 0
    BY <1>1, <1>4
  <2>4. closed \in Nat
    BY <1>1 DEF closed, Least, Abs
  <2>5. real \in Int /\ entry \in Int
    BY <1>1, <2>2, <2>4 DEF entry
  <2>6. /\ b \in Account /\ b.position = new
        /\ b.realized = real /\ b.avgEntry = entry /\ b.unit = u
    BY <1>1, <2>1, <2>5 DEF Account, u
  <2>7. ASSUME NEW c \in Int, r = u * c + p * e
        PROVE  real = u * (c - change * px) + new * entry
    <3>1. CASE closed = Abs(change) /\ Abs(change) <= Abs(p)
      <4>1. new * entry = (p + change) * e
        <5>1. ~(p * new < 0)
          BY <1>1, <1>4, <2>3, <3>1 DEF new, Abs
        <5> QED BY <1>1, <5>1 DEF entry, new
      <4>2. real = r + (-change) * (u * px - e)
        <5>1. p > 0 => closed = -change
          BY <2>3, <3>1, <1>1 DEF Abs
        <5>2. ~(p > 0) => closed = change
          BY <2>3, <3>1, <1>1, <1>4 DEF Abs
        <5>3. change * (e - u * px) = (-change) * (u * px - e)
          BY <1>1
        <5> QED BY <2>2, <5>1, <5>2, <5>3
      <4>3. u * c + p * e + (-change) * (u * px - e)
              = u * (c - change * px) + (p + change) * e
        BY <1>1
      <4> QED BY <2>7, <4>1, <4>2, <4>3
    <3>2. CASE closed = Abs(p) /\ Abs(p) < Abs(change)
      <4>1. new * entry = (p + change) * (u * px)
        <5>1. p * new < 0 /\ new # 0
          BY <1>1, <1>4, <2>3, <3>2 DEF new, Abs
        <5> QED BY <1>1, <5>1 DEF entry, new
      <4>2. real = r + p * (u * px - e)
        <5>1. p > 0 => closed = p
          BY <3>2, <1>1 DEF Abs
        <5>2. ~(p > 0) => closed = -p
          BY <3>2, <1>1, <1>4 DEF Abs
        <5>3. (-p) * (e - u * px) = p * (u * px - e)
          BY <1>1
        <5> QED BY <2>2, <5>1, <5>2, <5>3
      <4>3. u * c + p * e + p * (u * px - e)
              = u * (c - change * px) + (p + change) * (u * px)
        BY <1>1
      <4> QED BY <2>7, <4>1, <4>2, <4>3
    <3>3. \/ closed = Abs(change) /\ Abs(change) <= Abs(p)
          \/ closed = Abs(p) /\ Abs(p) < Abs(change)
      BY <1>1 DEF closed, Least, Abs
    <3> QED BY <3>1, <3>2, <3>3
  <2> QED BY <2>6, <2>7 DEF Balanced, p, r, e, u, b, new
<1> QED BY <1>2, <1>3, <1>4
\* A trade names a current quote just if it names an order of the maker's.
Names(t) ==
  /\ Own(t.buyOrderId) <=> t.buyOrderId = quote["BUY"].id
  /\ Own(t.sellOrderId) <=> t.sellOrderId = quote["SELL"].id

\* A trade that counts as the maker's is the maker's.
LEMMA FillCounts ==
  ASSUME NEW a \in Account, NEW t \in Trade, Names(t)
  PROVE  LET b == CountFill(a, t)
         IN /\ b \in Account /\ b.position = a.position + Change(t)
            /\ \A c \in Int : Balanced(a, c) => Balanced(b, c - Change(t) * t.price)
<1> DEFINE bought == IF t.buyOrderId = quote["BUY"].id
                     THEN UpdatePosition(a, t.quantity, t.price) ELSE a
           d == CountFill(a, t)
           b == IF Own(t.buyOrderId) THEN t.quantity ELSE 0
           s == IF Own(t.sellOrderId) THEN t.quantity ELSE 0
<1>1. t.quantity \in Int /\ -t.quantity \in Int /\ t.price \in Int /\ b \in Int /\ s \in Int
  BY DEF Trade
<1>2. PICK x \in Int : x = t.price
  BY <1>1
<1>3. a.position \in Int
  BY DEF Account
<1>4. /\ bought \in Account /\ bought.position = a.position + b
      /\ \A c \in Int : Balanced(a, c) => Balanced(bought, c - b * x)
  <2>1. CASE t.buyOrderId = quote["BUY"].id
    <3>1. bought = UpdatePosition(a, t.quantity, t.price) /\ b = t.quantity
      BY <2>1 DEF Names
    <3> HIDE DEF bought, b
    <3> QED BY <1>1, <1>2, <3>1, UpdateCounts
  <2>2. CASE t.buyOrderId # quote["BUY"].id
    <3>1. bought = a /\ b = 0
      BY <2>2 DEF Names
    <3>2. \A c \in Int : c - 0 * x = c
      OBVIOUS
    <3> HIDE DEF bought, b
    <3> QED BY <1>3, <3>1, <3>2
  <2> QED BY <2>1, <2>2
<1>5. d = IF t.sellOrderId = quote["SELL"].id
          THEN UpdatePosition(bought, -t.quantity, t.price) ELSE bought
  BY DEF CountFill
<1>6. Change(t) = b - s
  BY DEF Change
<1>7. t.sellOrderId = quote["SELL"].id => s = t.quantity
  BY DEF Names
<1>8. t.sellOrderId # quote["SELL"].id => s = 0
  BY DEF Names
<1> HIDE DEF bought, b, s, d
<1>9. bought.position \in Int /\ \A c \in Int : c - b * x \in Int
  BY <1>1, <1>4 DEF Account
<1>10. /\ d \in Account /\ d.position = bought.position - s
       /\ \A c \in Int : Balanced(bought, c) => Balanced(d, c + s * x)
  <2>1. CASE t.sellOrderId = quote["SELL"].id
    <3>1. d = UpdatePosition(bought, -s, x) /\ -s \in Int
      BY <1>1, <1>2, <1>5, <1>7, <2>1
    <3>2. \A c \in Int : c - (-s) * x = c + s * x
      BY <1>1
    <3> QED BY <1>1, <1>4, <1>9, <3>1, <3>2, UpdateCounts
  <2>2. CASE t.sellOrderId # quote["SELL"].id
    <3>1. d = bought /\ s = 0
      BY <1>5, <1>8, <2>2
    <3>2. \A c \in Int : c + 0 * x = c
      OBVIOUS
    <3> QED BY <1>4, <1>9, <3>1, <3>2
  <2> QED BY <2>1, <2>2
<1>11. ASSUME NEW c \in Int, Balanced(a, c) PROVE Balanced(d, c - (b - s) * x)
  <2>1. Balanced(d, (c - b * x) + s * x)
    BY <1>4, <1>9, <1>10, <1>11
  <2>2. (c - b * x) + s * x = c - (b - s) * x
    BY <1>1
  <2> QED BY <2>1, <2>2
<1>12. d.position = a.position + (b - s)
  BY <1>1, <1>3, <1>4, <1>10
<1> QED BY <1>2, <1>6, <1>10, <1>11, <1>12 DEF d

\* The function that processFills is, after each trade.
Counting(f, a, n) ==
  f = [k \in 0 .. n |-> IF k = 0 THEN a ELSE CountFill(f[k - 1], tradeLog[k])]

\* The count after each trade of the log is well defined.
LEMMA CountingExists ==
  ASSUME NEW a, NEW n \in Nat
  PROVE  \E f : Counting(f, a, n)
<1> DEFINE Bad == {m \in Nat : ~ \E f : Counting(f, a, m)}
<1>1. \E f : Counting(f, a, 0)
  <2> DEFINE f == [k \in 0 .. 0 |-> a]
  <2>1. f = [k \in 0 .. 0 |-> IF k = 0 THEN a ELSE CountFill(f[k - 1], tradeLog[k])]
    OBVIOUS
  <2>2. Counting(f, a, 0)
    BY <2>1 DEF Counting
  <2> QED BY <2>2
<1>2. ASSUME NEW m \in Nat, m # 0, NEW f, Counting(f, a, m - 1)
      PROVE  \E g : Counting(g, a, m)
  <2> DEFINE g == [k \in 0 .. m |-> IF k < m THEN f[k] ELSE CountFill(f[m - 1], tradeLog[m])]
  <2>1. DOMAIN f = 0 .. m - 1
        /\ \A k \in 0 .. m - 1 :
              f[k] = IF k = 0 THEN a ELSE CountFill(f[k - 1], tradeLog[k])
    BY <1>2 DEF Counting
  <2>2. ASSUME NEW k \in 0 .. m
        PROVE  g[k] = IF k = 0 THEN a ELSE CountFill(g[k - 1], tradeLog[k])
    <3>1. CASE k = m
      <4>1. k # 0 /\ g[k] = CountFill(f[m - 1], tradeLog[m]) /\ g[k - 1] = f[m - 1]
        BY <1>2, <3>1
      <4> QED BY <3>1, <4>1
    <3>2. CASE k < m /\ k # 0
      <4>1. k \in 0 .. m - 1 /\ g[k] = f[k] /\ g[k - 1] = f[k - 1]
        BY <3>2
      <4> QED BY <2>1, <3>2, <4>1
    <3>3. CASE k = 0
      <4>1. g[k] = f[k] /\ k \in 0 .. m - 1
        BY <1>2, <3>3
      <4> QED BY <2>1, <3>3, <4>1
    <3> QED BY <3>1, <3>2, <3>3
  <2>3. g = [k \in 0 .. m |-> g[k]]
    OBVIOUS
  <2> HIDE DEF g
  <2>4. Counting(g, a, m)
    BY <2>2, <2>3 DEF Counting
  <2> QED BY <2>4
<1>3. Bad = {}
  <2> SUFFICES ASSUME Bad # {} PROVE FALSE
    OBVIOUS
  <2>1. PICK m \in Bad : \A k \in Bad : m <= k
    BY LeastNat
  <2>2. m # 0
    BY <1>1, <2>1
  <2>3. m - 1 \in Nat /\ m - 1 \notin Bad
    BY <2>1, <2>2
  <2> QED BY <1>2, <2>1, <2>2, <2>3
<1> QED BY <1>3

\* processFills counts what the maker traded in the tick, at the price it traded
\* at, and nothing else.
LEMMA FillsCounted ==
  ASSUME NEW a \in Account,
         tradeLog \in Seq(Trade), \A k \in DOMAIN tradeLog : Names(tradeLog[k])
  PROVE  LET b == ProcessFills(a)
         IN /\ b \in Account /\ b.position = a.position + Net(tradeLog)
            /\ \A c \in Int : Balanced(a, c) => Balanced(b, c - Spent(tradeLog))
<1> DEFINE n == Len(tradeLog)
           after == CHOOSE f : Counting(f, a, n)
           Shares(k) == Total(Changes(tradeLog), 1 .. k)
           Paid(k) == Total(Payments(tradeLog), 1 .. k)
           Good(k) == /\ after[k] \in Account /\ after[k].position = a.position + Shares(k)
                      /\ \A c \in Int : Balanced(a, c) => Balanced(after[k], c - Paid(k))
           Bad == {k \in Nat : k <= n /\ ~Good(k)}
<1>1. ProcessFills(a) = after[n]
  BY DEF ProcessFills, Counting
<1>2. n \in Nat /\ DOMAIN tradeLog = 1 .. n
      /\ \A k \in 1 .. n :
           /\ tradeLog[k] \in Trade /\ Names(tradeLog[k])
           /\ Changes(tradeLog)[k] = Change(tradeLog[k]) /\ Change(tradeLog[k]) \in Int
           /\ Payments(tradeLog)[k] = Change(tradeLog[k]) * tradeLog[k].price
           /\ Changes(tradeLog)[k] \in Int /\ Payments(tradeLog)[k] \in Int
  <2>1. n \in Nat /\ DOMAIN tradeLog = 1 .. n
    BY ChangesType
  <2> HIDE DEF n
  <2> QED BY <2>1, ChangesType, PaymentsType DEF Changes, Payments
<1> HIDE DEF n
<1>3. Counting(after, a, n)
  BY <1>2, CountingExists
<1> HIDE DEF after
<1>4. /\ after[0] = a
      /\ \A k \in 1 .. n : after[k] = CountFill(after[k - 1], tradeLog[k])
  BY <1>2, <1>3 DEF Counting
<1>5. /\ Shares(0) = 0 /\ \A k \in 0 .. n : Shares(k) \in Int
      /\ \A k \in 1 .. n : Shares(k) = Changes(tradeLog)[k] + Shares(k - 1)
  BY <1>2, TotalUpto
<1>6. /\ Paid(0) = 0 /\ \A k \in 0 .. n : Paid(k) \in Int
      /\ \A k \in 1 .. n : Paid(k) = Payments(tradeLog)[k] + Paid(k - 1)
  BY <1>2, TotalUpto
<1>7. a.position \in Int
  BY DEF Account
<1> HIDE DEF Shares, Paid
<1>8. Good(0)
  <2>1. \A c \in Int : c - 0 = c
    OBVIOUS
  <2> QED BY <1>4, <1>5, <1>6, <1>7, <2>1
<1>9. ASSUME NEW k \in 1 .. n, Good(k - 1) PROVE Good(k)
  <2> DEFINE t == tradeLog[k]
  <2>1. k - 1 \in 0 .. n /\ Shares(k - 1) \in Int /\ Paid(k - 1) \in Int
    BY <1>2, <1>5, <1>6
  <2>2. /\ after[k] = CountFill(after[k - 1], t) /\ t \in Trade /\ Names(t)
        /\ Change(t) \in Int
    BY <1>2, <1>4
  <2>3. PICK cost \in Int : cost = Change(t) * t.price
    BY <1>2
  <2>4. Shares(k) = Change(t) + Shares(k - 1) /\ Paid(k) = cost + Paid(k - 1)
    BY <1>2, <1>5, <1>6, <2>3
  <2> HIDE DEF t
  <2>5. /\ after[k] \in Account /\ after[k].position = after[k - 1].position + Change(t)
        /\ \A c \in Int : Balanced(after[k - 1], c) => Balanced(after[k], c - cost)
    BY <1>9, <2>2, <2>3, FillCounts
  <2>6. after[k].position = a.position + Shares(k)
    BY <1>7, <1>9, <2>1, <2>2, <2>4, <2>5
  <2>7. ASSUME NEW c \in Int, Balanced(a, c) PROVE Balanced(after[k], c - Paid(k))
    <3>1. c - Paid(k - 1) \in Int /\ (c - Paid(k - 1)) - cost = c - Paid(k)
      BY <2>1, <2>4
    <3> QED BY <1>9, <2>5, <2>7, <3>1
  <2> QED BY <2>5, <2>6, <2>7
<1> HIDE DEF Good
<1>10. Bad = {}
  <2> SUFFICES ASSUME Bad # {} PROVE FALSE
    OBVIOUS
  <2>1. PICK k \in Bad : \A j \in Bad : k <= j
    BY LeastNat
  <2>2. k # 0 /\ k \in 1 .. n
    BY <1>2, <1>8, <2>1
  <2>3. k - 1 \in Nat /\ k - 1 <= n /\ k - 1 \notin Bad
    BY <1>2, <2>1, <2>2
  <2> QED BY <1>9, <2>1, <2>2, <2>3
<1>11. Good(n)
  BY <1>2, <1>10
<1>12. Net(tradeLog) = Shares(n) /\ Spent(tradeLog) = Paid(n)
  BY <1>2, NetIsTotal, SpentIsTotal DEF Shares, Paid
<1> QED BY <1>1, <1>11, <1>12 DEF Good

-----------------------------------------------------------------------------
(* and the calls of cancelExistingQuotes and of both placeQuotes made up.  *)

InOrder(q) ==
  /\ q \in Seq(Call)
  /\ \A j, k \in DOMAIN q : j < k => Rank(q[j]) < Rank(q[k])
Elements(q) == {q[k] : k \in DOMAIN q}

\* Calls in order, and later ones, are calls in order.
LEMMA Joined ==
  ASSUME NEW q, NEW r, InOrder(q), InOrder(r),
         \A x \in Elements(q), y \in Elements(r) : Rank(x) < Rank(y)
  PROVE  InOrder(q \o r) /\ Elements(q \o r) = Elements(q) \cup Elements(r)
<1> DEFINE n == Len(q)
           m == Len(r)
           both == q \o r
<1>1. /\ q \in Seq(Call) /\ r \in Seq(Call) /\ n \in Nat /\ m \in Nat
      /\ DOMAIN q = 1 .. n /\ DOMAIN r = 1 .. m
  BY LenProperties DEF InOrder
<1>2. /\ both \in Seq(Call) /\ DOMAIN both = 1 .. n + m
      /\ \A k \in 1 .. n + m : both[k] = IF k <= n THEN q[k] ELSE r[k - n]
  BY <1>1, ConcatProperties, LenProperties
<1> HIDE DEF n, m, both
<1>3. \A k \in 1 .. n + m : \/ k \in DOMAIN q /\ both[k] = q[k]
                            \/ k > n /\ k - n \in DOMAIN r /\ both[k] = r[k - n]
  BY <1>1, <1>2
<1>4. Elements(both) = Elements(q) \cup Elements(r)
  <2>1. Elements(both) \subseteq Elements(q) \cup Elements(r)
    BY <1>2, <1>3 DEF Elements
  <2>2. ASSUME NEW k \in DOMAIN q PROVE q[k] \in Elements(both)
    <3>1. k \in DOMAIN both /\ both[k] = q[k]
      BY <1>1, <1>2
    <3> QED BY <3>1 DEF Elements
  <2>3. ASSUME NEW k \in DOMAIN r PROVE r[k] \in Elements(both)
    <3>1. k + n \in DOMAIN both /\ ~(k + n <= n) /\ (k + n) - n = k
      BY <1>1, <1>2
    <3>2. both[k + n] = r[k]
      BY <1>2, <3>1
    <3> QED BY <3>1, <3>2 DEF Elements
  <2> QED BY <2>1, <2>2, <2>3 DEF Elements
<1>5. ASSUME NEW j \in DOMAIN both, NEW k \in DOMAIN both, j < k
      PROVE  Rank(both[j]) < Rank(both[k])
  <2>1. CASE k \in DOMAIN q /\ both[k] = q[k]
    <3>1. j \in DOMAIN q /\ both[j] = q[j]
      BY <1>1, <1>2, <1>5, <2>1
    <3> QED BY <1>5, <2>1, <3>1 DEF InOrder
  <2>2. CASE k - n \in DOMAIN r /\ both[k] = r[k - n]
    <3>1. CASE j \in DOMAIN q /\ both[j] = q[j]
      BY <2>2, <3>1 DEF Elements
    <3>2. CASE j - n \in DOMAIN r /\ both[j] = r[j - n]
      <4>1. j - n < k - n
        BY <1>1, <1>2, <1>5
      <4> QED BY <2>2, <3>2, <4>1 DEF InOrder
    <3> QED BY <1>2, <1>3, <3>1, <3>2
  <2> QED BY <1>2, <1>3, <2>1, <2>2
<1> QED BY <1>2, <1>4, <1>5 DEF InOrder, both

\* One call, or none.
LEMMA OneCall ==
  ASSUME NEW c, NEW P \in BOOLEAN, P => c \in Call
  PROVE  LET q == IF P THEN <<c>> ELSE <<>>
         IN InOrder(q) /\ Elements(q) = IF P THEN {c} ELSE {}
<1>1. CASE P
  <2> DEFINE q == <<c>>
  <2>1. q \in Seq(Call) /\ DOMAIN q = {1} /\ q[1] = c
    BY <1>1
  <2> HIDE DEF q
  <2>2. InOrder(q) /\ Elements(q) = {c}
    BY <2>1 DEF InOrder, Elements
  <2> QED BY <1>1, <2>2 DEF q
<1>2. CASE ~P
  <2> DEFINE q == <<>>
  <2>1. q \in Seq(Call) /\ DOMAIN q = {}
    OBVIOUS
  <2> HIDE DEF q
  <2>2. InOrder(q) /\ Elements(q) = {}
    BY <2>1 DEF InOrder, Elements
  <2> QED BY <1>2, <2>2 DEF q
<1> QED BY <1>1, <1>2

\* What cancelExistingQuotes cancels.
Withdrawn == {CancelCall(quote[s].id, s) : s \in {s \in Side : quote[s].id # 0}}

\* They are the current quotes, each once, the bid first.
LEMMA Withdrawal ==
  ASSUME quote \in [Side -> [id : Nat, px : Int]], NEW changed
  PROVE  LET q == CancelCalls(CancelQuotes(changed))
         IN /\ InOrder(q) /\ Elements(q) = Withdrawn
            /\ \A c \in Withdrawn : c \in Call /\ Cancels(c) /\ Rank(c) \in {1, 2}
<1> DEFINE Quoted(s) == quote[s].id # 0
           one(s) == IF Quoted(s) THEN <<CancelCall(quote[s].id, s)>> ELSE <<>>
<1>1. CancelCalls(CancelQuotes(changed)) = one("BUY") \o one("SELL")
  BY DEF CancelCalls, CancelQuotes, Side
<1>2. ASSUME NEW s \in Side
      PROVE  /\ CancelCall(quote[s].id, s) \in Call
             /\ Cancels(CancelCall(quote[s].id, s))
             /\ Rank(CancelCall(quote[s].id, s)) = IF s = "BUY" THEN 1 ELSE 2
  BY DEF CancelCall, Call, Cancels, Rank
<1>3. ASSUME NEW s \in Side
      PROVE  /\ InOrder(one(s))
             /\ Elements(one(s)) = IF Quoted(s) THEN {CancelCall(quote[s].id, s)} ELSE {}
  <2>1. Quoted(s) \in BOOLEAN
    OBVIOUS
  <2> HIDE DEF Quoted
  <2> QED BY <1>2, <2>1, OneCall
<1>4. "BUY" \in Side /\ "SELL" \in Side
  BY DEF Side
<1> HIDE DEF one
<1>5. /\ InOrder(one("BUY") \o one("SELL"))
      /\ Elements(one("BUY") \o one("SELL")) = Elements(one("BUY")) \cup Elements(one("SELL"))
  <2>1. \A x \in Elements(one("BUY")) : Rank(x) = 1
    BY <1>2, <1>3, <1>4
  <2>2. \A x \in Elements(one("SELL")) : Rank(x) = 2
    BY <1>2, <1>3, <1>4
  <2> QED BY <1>3, <1>4, <2>1, <2>2, Joined
<1>6. Elements(one("BUY")) \cup Elements(one("SELL")) = Withdrawn
  BY <1>3, <1>4 DEF Withdrawn, Side
<1>7. \A c \in Withdrawn : c \in Call /\ Cancels(c) /\ Rank(c) \in {1, 2}
  BY <1>2 DEF Withdrawn
<1> QED BY <1>1, <1>5, <1>6, <1>7

\* What onTick quotes.
QuotePx(p, mid, s) == IF s = "BUY" THEN mid - halfSpread - p * skewPerUnit
                                   ELSE mid + halfSpread - p * skewPerUnit
QuoteCall(p, mid, s) == ProcessCall(0, QuotePx(p, mid, s), Room(p, s), s)
Quoted(p, mid) ==
  {QuoteCall(p, mid, s) : s \in {s \in Side : QuotePx(p, mid, s) > 0 /\ Room(p, s) > 0}}

\* They are one order a side at most, the bid first.
LEMMA Requoted ==
  ASSUME quote \in [Side -> [id : Nat, px : Int]], NEW p \in Int, NEW mid \in Int
  PROVE  /\ InOrder(Requote(p, mid))
         /\ \/ Elements(Requote(p, mid)) = {}
            \/ Elements(Requote(p, mid)) = Withdrawn \cup Quoted(p, mid)
         /\ \A c \in Withdrawn : c \in Call /\ Cancels(c)
         /\ \A c \in Quoted(p, mid) : c \in Call /\ Quotes(c)
<1> DEFINE px == [s \in Side |-> IF s = "BUY" THEN mid - halfSpread - p * skewPerUnit
                                              ELSE mid + halfSpread - p * skewPerUnit]
           size == [s \in Side |-> Room(p, s)]
           changed == {s \in Side : px[s] # quote[s].px \/ (size[s] <= 0 /\ quote[s].id # 0)}
           first == CancelCalls(CancelQuotes(changed))
           Wanted(s) == QuotePx(p, mid, s) > 0 /\ Room(p, s) > 0
           place(s) == IF Wanted(s) THEN <<QuoteCall(p, mid, s)>> ELSE <<>>
<1>1. Requote(p, mid) = IF changed = {} THEN <<>> ELSE first \o place("BUY") \o place("SELL")
  BY DEF Requote, QuotePx, QuoteCall, Side
<1>2. /\ InOrder(first) /\ Elements(first) = Withdrawn
      /\ \A c \in Withdrawn : c \in Call /\ Cancels(c) /\ Rank(c) \in {1, 2}
  BY Withdrawal
<1>3. ASSUME NEW s \in Side, Wanted(s)
      PROVE  /\ QuoteCall(p, mid, s) \in Call /\ Quotes(QuoteCall(p, mid, s))
             /\ Rank(QuoteCall(p, mid, s)) = IF s = "BUY" THEN 3 ELSE 4
  <2>1. p * skewPerUnit \in Int /\ halfSpread \in Int /\ quoteSize \in Nat /\ maxPosition \in Nat
    BY ParameterTypes
  <2>2. QuotePx(p, mid, s) \in Int
    BY <2>1 DEF QuotePx
  <2>3. Room(p, s) \in 1 .. quoteSize
    BY <1>3, <2>1 DEF Room, Least
  <2>4. Room(p, s) \in Quantity
    BY <2>3, SimulatorAssumption
  <2>5. 0 \in Nat
    OBVIOUS
  <2>6. PICK x \in Int, y \in Quantity : x = QuotePx(p, mid, s) /\ y = Room(p, s)
    BY <2>2, <2>4
  <2>7. ProcessCall(0, x, y, s) \in Call
    BY <2>5 DEF ProcessCall, Call
  <2>8. Quotes(ProcessCall(0, x, y, s)) /\ ~Cancels(ProcessCall(0, x, y, s))
        /\ ProcessCall(0, x, y, s).side = s
    BY DEF ProcessCall, Quotes, Cancels
  <2>9. Rank(ProcessCall(0, x, y, s)) = IF s = "BUY" THEN 3 ELSE 4
    BY <2>8 DEF Rank
  <2> QED BY <2>6, <2>7, <2>8, <2>9 DEF QuoteCall
<1>4. ASSUME NEW s \in Side
      PROVE  /\ InOrder(place(s))
             /\ Elements(place(s)) = IF Wanted(s) THEN {QuoteCall(p, mid, s)} ELSE {}
  <2>1. Wanted(s) \in BOOLEAN
    OBVIOUS
  <2>2. Wanted(s) => QuoteCall(p, mid, s) \in Call
    BY <1>3
  <2> HIDE DEF Wanted
  <2> QED BY <2>1, <2>2, OneCall
<1>5. Quoted(p, mid) = {QuoteCall(p, mid, s) : s \in {s \in Side : Wanted(s)}}
  BY DEF Quoted
<1>6. "BUY" \in Side /\ "SELL" \in Side
  BY DEF Side
<1> HIDE DEF place, first, changed, Wanted
<1>7. \A c \in Quoted(p, mid) : c \in Call /\ Quotes(c)
  BY <1>3, <1>5
<1>8. \A x \in Elements(first) : Rank(x) \in {1, 2}
  BY <1>2
<1>9. \A x \in Elements(place("BUY")) : Rank(x) = 3
  BY <1>3, <1>4, <1>6
<1>10. \A x \in Elements(place("SELL")) : Rank(x) = 4
  BY <1>3, <1>4, <1>6
<1>11. /\ InOrder(first \o place("BUY"))
       /\ Elements(first \o place("BUY")) = Elements(first) \cup Elements(place("BUY"))
  BY <1>2, <1>4, <1>6, <1>8, <1>9, Joined
<1>12. \A x \in Elements(first \o place("BUY")) : Rank(x) \in {1, 2, 3}
  BY <1>8, <1>9, <1>11
<1>13. /\ InOrder(first \o place("BUY") \o place("SELL"))
       /\ Elements(first \o place("BUY") \o place("SELL"))
            = Elements(first) \cup Elements(place("BUY")) \cup Elements(place("SELL"))
  BY <1>4, <1>6, <1>10, <1>11, <1>12, Joined
<1>14. Elements(place("BUY")) \cup Elements(place("SELL")) = Quoted(p, mid)
  BY <1>4, <1>5, <1>6 DEF Side
<1>15. CASE changed = {}
  <2>1. InOrder(<<>>) /\ Elements(<<>>) = {}
    BY DEF InOrder, Elements
  <2> QED BY <1>1, <1>2, <1>7, <1>15, <2>1
<1>16. CASE changed # {}
  <2>1. Elements(Requote(p, mid)) = Withdrawn \cup Quoted(p, mid)
    BY <1>1, <1>2, <1>13, <1>14, <1>16
  <2> QED BY <1>1, <1>2, <1>7, <1>13, <1>16, <2>1
<1> QED BY <1>15, <1>16

-----------------------------------------------------------------------------
(* The prices of the quotes, and what onTick and shutdown come to.         *)

\* The middle of the market is below the ceiling,
LEMMA MidFits ==
  ASSUME IInv, MakerInv, TopOfBook(book).bid # NoPrice, TopOfBook(book).ask # NoPrice
  PROVE  Quotient(TopOfBook(book).bid + TopOfBook(book).ask, 2) \in 1 .. Ceiling
<1>1. /\ TopOfBook(book).bid = BestPrice(book["BUY"], "BUY")
      /\ TopOfBook(book).ask = BestPrice(book["SELL"], "SELL")
  BY DEF TopOfBook
<1>2. "BUY" \in Side /\ "SELL" \in Side
  BY DEF Side
<1>3. ASSUME NEW s \in Side, BestPrice(book[s], s) # NoPrice
      PROVE  BestPrice(book[s], s) \in 1 .. Ceiling
  <2>1. DOMAIN book[s] # {} /\ BestPrice(book[s], s) = Best(book[s], s)
    BY <1>3 DEF BestPrice
  <2>2. DOMAIN book[s] \subseteq Price
    BY DEF IInv, Sides, BookOK, SideOK
  <2>3. Best(book[s], s) \in DOMAIN book[s]
    BY <2>1, <2>2, BestExists
  <2> QED BY <2>1, <2>3 DEF MakerInv, Priced
<1>4. PICK b \in 1 .. Ceiling : b = TopOfBook(book).bid
  BY <1>1, <1>2, <1>3
<1>5. PICK a \in 1 .. Ceiling : a = TopOfBook(book).ask
  BY <1>1, <1>2, <1>3
<1>6. Ceiling \in Nat
  BY CeilingFits DEF MakerInv
<1>7. Quotient(b + a, 2) \in 1 .. Ceiling
  BY <1>4, <1>5, <1>6 DEF Quotient
<1> QED BY <1>4, <1>5, <1>7

\* and a quote is not further from it than its reach.
LEMMA QuoteFits ==
  ASSUME NEW p \in -maxPosition .. maxPosition, NEW c \in Nat, NEW mid \in 1 .. c,
         NEW s \in Side
  PROVE  QuotePx(p, mid, s) \in Int /\ QuotePx(p, mid, s) <= c + Reach
<1>1. halfSpread \in Nat /\ maxPosition \in Nat /\ skewPerUnit \in Nat
  BY ParameterTypes
<1>2. PICK w \in Nat : w = maxPosition * skewPerUnit
  BY <1>1
<1>3. PICK z \in Int : z = p * skewPerUnit /\ -z <= w
  <2>1. CASE p >= 0
    <3>1. p * skewPerUnit \in Nat
      BY <1>1, <2>1
    <3> QED BY <1>2, <3>1
  <2>2. CASE p < 0
    <3>1. -p \in Nat /\ -p <= maxPosition
      BY <1>1, <2>2
    <3>2. PICK m \in Nat : m = -p
      BY <3>1
    <3>3. m * skewPerUnit \in Nat /\ m * skewPerUnit <= maxPosition * skewPerUnit
      BY <1>1, <3>1, <3>2, Product
    <3>4. p = -m
      BY <3>2
    <3>5. p * skewPerUnit = -(m * skewPerUnit)
      BY <1>1, <3>4
    <3>6. p * skewPerUnit \in Int /\ -(p * skewPerUnit) <= w
      BY <1>2, <3>3, <3>5
    <3> QED BY <3>6
  <2> QED BY <1>1, <2>1, <2>2
<1>4. Reach = halfSpread + w
  BY <1>2 DEF Reach
<1>5. QuotePx(p, mid, s) = IF s = "BUY" THEN mid - halfSpread - z ELSE mid + halfSpread - z
  BY <1>3 DEF QuotePx
<1> QED BY <1>1, <1>3, <1>4, <1>5

\* The calls made up when nothing is in flight, of an account within the limit,
\* keep the invariant.
Made(p, mid) ==
  /\ InOrder(todo')
  /\ \/ Elements(todo') = {} /\ ~killed' /\ phase' = "order"
     \/ Elements(todo') = Withdrawn
     \/ /\ Elements(todo') = Withdrawn \cup Quoted(p, mid)
        /\ phase = "tick" /\ phase' = "order" /\ ~killed' /\ mid \in 1 .. Ceiling

\* Whoever leaves such calls to be made keeps the invariant.
LEMMA MadeKeeps ==
  ASSUME BothInv, MakerInv, Idle,
         UNCHANGED <<vars, tick, simId, tradeLog, nextOrderId, quote, position, crossing>>,
         \/ phase = "tick" /\ phase' = "order"
         \/ phase = "order" /\ phase' = "stopped",
         NEW p, p = account'.position, p \in {account.position, Counted},
         account' \in Account, skipped' \in Int, Counted' = p,
         NEW mid, Made(p, mid)
  PROVE  MakerInv'
<1>1. /\ taker = null /\ taker' = null /\ RestingView' = RestingView /\ book' = book
      /\ ~OwnInFlight'
  BY ViewStays DEF Idle, vars, OwnInFlight
<1>2. Capped(p)
  BY DEF MakerInv
<1>3. p \in -maxPosition .. maxPosition /\ p \in Int /\ maxPosition \in Nat
  BY <1>2, ParameterTypes DEF Capped
<1>4. quote \in [Side -> [id : Nat, px : Int]] /\ quote' = quote
  BY DEF MakerInv, Tracked
<1>5. \A c \in Withdrawn : c \in Call /\ Cancels(c) /\ ~Quotes(c) /\ c.call # "process"
  BY <1>4, Withdrawal DEF Cancels, Quotes
<1>6. /\ phase' # "tick" /\ tick \in Nat /\ tick' = tick /\ Rounds \in Nat
      /\ Rounds' = IF phase = "tick" THEN Rounds + 1 ELSE Rounds
  BY ParameterTypes DEF MakerInv, Counters, Rounds
<1>7. /\ Ceiling \in Nat /\ Reach \in Nat /\ Ceiling <= Ceiling'
      /\ phase = "tick" => Ceiling' = Ceiling + Reach
  <2>1. Ceiling \in Nat /\ Reach \in Nat /\ Top \in Nat /\ Rounds * Reach \in Nat
    BY <1>6, CeilingFits DEF MakerInv
  <2>2. (Rounds + 1) * Reach = Rounds * Reach + Reach
    BY <1>6, <2>1, Product
  <2>3. Ceiling = Top + Rounds * Reach /\ Ceiling' = Top + Rounds' * Reach
    BY DEF Ceiling
  <2>4. PICK z \in Nat : z = Rounds * Reach
    BY <2>1
  <2>5. CASE phase = "tick"
    <3>1. Ceiling' = Top + (z + Reach) /\ Ceiling = Top + z
      BY <1>6, <2>2, <2>3, <2>4, <2>5
    <3> QED BY <2>1, <2>4, <3>1
  <2>6. CASE phase # "tick"
    BY <1>6, <2>1, <2>3, <2>6
  <2> QED BY <2>1, <2>5, <2>6
<1>8. /\ todo' \in Seq(Call)
      /\ \A j, k \in DOMAIN todo' : j < k => Rank(todo'[j]) < Rank(todo'[k])
      /\ \A k \in DOMAIN todo' : todo'[k] \in Elements(todo')
      /\ \A c \in Elements(todo') : \E k \in DOMAIN todo' : c = todo'[k]
  BY DEF Made, InOrder, Elements
<1>9. ASSUME NEW k \in DOMAIN todo'
      PROVE  \/ todo'[k] \in Withdrawn
             \/ /\ phase = "tick" /\ phase' = "order" /\ ~killed'
                /\ Elements(todo') = Withdrawn \cup Quoted(p, mid)
                /\ \E s \in Side : /\ QuotePx(p, mid, s) > 0 /\ Room(p, s) > 0
                                   /\ mid \in 1 .. Ceiling
                                   /\ todo'[k] = QuoteCall(p, mid, s)
  <2>1. todo'[k] \in Elements(todo')
    BY <1>8
  <2> QED BY <2>1 DEF Made, Quoted
<1>10. ASSUME NEW s \in Side, Room(p, s) > 0
       PROVE  /\ QuoteCall(p, mid, s).call = "process" /\ QuoteCall(p, mid, s).id = 0
              /\ QuoteCall(p, mid, s).price = QuotePx(p, mid, s)
              /\ QuoteCall(p, mid, s).qty = Room(p, s) /\ QuoteCall(p, mid, s).side = s
              /\ Quotes(QuoteCall(p, mid, s)) /\ ~Cancels(QuoteCall(p, mid, s))
              /\ Rank(QuoteCall(p, mid, s)) \in 3 .. 4
              /\ Fits(p, Room(p, s), s)
  <2>1. /\ QuoteCall(p, mid, s).call = "process" /\ QuoteCall(p, mid, s).id = 0
        /\ QuoteCall(p, mid, s).price = QuotePx(p, mid, s)
        /\ QuoteCall(p, mid, s).qty = Room(p, s) /\ QuoteCall(p, mid, s).side = s
    BY DEF QuoteCall, ProcessCall
  <2>2. Fits(p, Room(p, s), s)
    BY <1>3, ParameterTypes DEF Fits, Room, Least
  <2> QED BY <2>1, <2>2 DEF Quotes, Cancels, Rank
<1>11. \A k \in DOMAIN todo' : Cancels(todo'[k]) \/ Quotes(todo'[k])
  BY <1>5, <1>9, <1>10
<1>12. \A k \in DOMAIN todo' : ~Seeds(todo'[k])
  BY <1>11 DEF Cancels, Quotes, Seeds
<1>13. ASSUME NEW s \in Side, quote[s].id # 0, Withdrawn \subseteq Elements(todo')
       PROVE  Dropping(s)'
  <2>1. CancelCall(quote[s].id, s) \in Elements(todo')
    BY <1>13 DEF Withdrawn
  <2>2. PICK k \in DOMAIN todo' : todo'[k] = CancelCall(quote[s].id, s)
    BY <1>8, <2>1
  <2>3. Cancels(todo'[k]) /\ todo'[k].side = s
    BY <2>2 DEF CancelCall, Cancels
  <2> QED BY <2>3 DEF Dropping
<1>14. Counters'
  <2>1. nextOrderId \in startingId .. startingId + 2 * Rounds
    BY DEF MakerInv, Counters
  <2>2. nextOrderId' \in startingId .. startingId + 2 * Rounds'
    BY <1>6, <2>1, ParameterTypes
  <2> QED BY <1>1, <1>6, <2>2 DEF MakerInv, Counters
<1>15. Priced'
  <2>1. \A s \in Side : DOMAIN book'[s] \subseteq 1 .. Ceiling'
    <3>1. \A s \in Side : DOMAIN book[s] \subseteq 1 .. Ceiling
      BY DEF MakerInv, Priced
    <3>2. 1 .. Ceiling \subseteq 1 .. Ceiling'
      <4>1. Ceiling' \in Int
        <5>1. phase = "tick" => Ceiling' \in Int
          BY <1>7
        <5>2. phase # "tick" => Ceiling' = Ceiling
          BY <1>6 DEF Ceiling
        <5> QED BY <1>7, <5>1, <5>2
      <4> QED BY <1>7, <4>1
    <3> QED BY <1>1, <3>1, <3>2
  <2>2. ASSUME NEW k \in DOMAIN todo', todo'[k].call = "process"
        PROVE  todo'[k].price \in 1 .. Ceiling'
    <3>1. PICK s \in Side : /\ QuotePx(p, mid, s) > 0 /\ Room(p, s) > 0 /\ mid \in 1 .. Ceiling
                            /\ todo'[k] = QuoteCall(p, mid, s) /\ phase = "tick"
      BY <1>5, <1>9, <2>2
    <3>2. todo'[k].price = QuotePx(p, mid, s)
      BY <1>10, <3>1
    <3>3. PICK x \in Int : x = QuotePx(p, mid, s) /\ x <= Ceiling + Reach
      BY <1>3, <1>7, <3>1, QuoteFits
    <3> QED BY <1>7, <3>1, <3>2, <3>3
  <2> QED BY <1>1, <2>1, <2>2 DEF Priced
<1>16. Calls'
  <2>1. ASSUME NEW k \in DOMAIN todo', Quotes(todo'[k])
        PROVE  nextOrderId' + (5 - Rank(todo'[k])) <= startingId + 2 * Rounds'
    <3>1. PICK s \in Side : Room(p, s) > 0 /\ todo'[k] = QuoteCall(p, mid, s) /\ phase = "tick"
      BY <1>5, <1>9, <2>1
    <3>2. PICK r \in 3 .. 4 : r = Rank(todo'[k])
      BY <1>10, <3>1
    <3>3. nextOrderId \in startingId .. startingId + 2 * Rounds
      BY DEF MakerInv, Counters
    <3>4. nextOrderId' + (5 - r) <= startingId + 2 * Rounds'
      BY <1>6, <3>1, <3>3, ParameterTypes
    <3> QED BY <3>2, <3>4
  <2> QED BY <1>6, <1>8, <1>11, <2>1 DEF Calls
<1>17. Unstarted'
  BY <1>1, <1>12 DEF Unstarted
<1>18. Tracked'
  <2>1. \A i \in DOMAIN RestingView' : Own(i) =>
           quote'[RestingView'[i].side] = [id |-> i, px |-> RestingView'[i].price]
    BY <1>1, <1>4 DEF MakerInv, Tracked
  <2>2. \A s \in Side : quote[s].id = 0 \/ Own(quote[s].id)
    BY DEF MakerInv, Tracked
  <2>3. ASSUME NEW k \in DOMAIN todo', Cancels(todo'[k])
        PROVE  todo'[k].id = quote'[todo'[k].side].id /\ Own(todo'[k].id)
    <3>1. todo'[k] \in Withdrawn
      BY <1>9, <1>10, <2>3
    <3>2. PICK s \in Side : quote[s].id # 0 /\ todo'[k] = CancelCall(quote[s].id, s)
      BY <3>1 DEF Withdrawn
    <3> QED BY <1>4, <2>2, <3>2 DEF CancelCall
  <2>4. ASSUME NEW k \in DOMAIN todo', Quotes(todo'[k])
        PROVE  (quote[todo[k].side].id = 0 \/ Dropping(todo[k].side))'
    <3>1. PICK s \in Side : /\ Elements(todo') = Withdrawn \cup Quoted(p, mid)
                            /\ Room(p, s) > 0 /\ todo'[k] = QuoteCall(p, mid, s)
      BY <1>5, <1>9, <2>4
    <3>2. todo'[k].side = s
      BY <1>10, <3>1
    <3>3. quote'[s].id = 0 \/ Dropping(s)'
      BY <1>4, <1>13, <3>1
    <3> QED BY <3>2, <3>3 DEF Dropping
  <2> QED BY <1>1, <1>4, <2>1, <2>2, <2>3, <2>4 DEF Tracked
<1>19. Out'
  <2>1. ASSUME killed' \/ phase' = "stopped"
        PROVE  /\ \A k \in DOMAIN todo' : Cancels(todo'[k])
               /\ \A s \in Side : quote'[s].id = 0 \/ Dropping(s)'
    <3>1. Elements(todo') = Withdrawn
      BY <2>1 DEF Made
    <3> QED BY <1>4, <1>5, <1>8, <1>13, <3>1
  <2> QED BY <1>1, <1>6, <2>1 DEF Out
<1>20. /\ p \in -maxPosition .. maxPosition
       /\ \A i \in DOMAIN RestingView' :
             Own(i) => Fits(p, RestingView'[i].quantity, RestingView'[i].side)
       /\ \A k \in DOMAIN todo' : Quotes(todo'[k]) => Fits(p, todo'[k].qty, todo'[k].side)
  <2>1. ASSUME NEW k \in DOMAIN todo', Quotes(todo'[k])
        PROVE  Fits(p, todo'[k].qty, todo'[k].side)
    <3>1. PICK s \in Side : Room(p, s) > 0 /\ todo'[k] = QuoteCall(p, mid, s)
      BY <1>5, <1>9, <2>1
    <3> QED BY <1>10, <3>1
  <2> QED BY <1>1, <1>2, <2>1 DEF Capped
<1>21. Capped(account.position)' /\ Capped(Counted)'
  BY <1>1, <1>20 DEF Capped
<1>22. Accounted'
  <2>1. /\ {position', crossing', skipped'} \subseteq Int /\ tradeLog' \in Seq(Trade)
        /\ account' \in Account
    BY DEF MakerInv, Accounted
  <2>2. Counted' = account'.position + 0
    BY <1>3
  <2> QED BY <1>6, <2>1, <2>2 DEF Accounted
<1> QED BY <1>14, <1>15, <1>16, <1>17, <1>18, <1>19, <1>21, <1>22 DEF MakerInv

\* No calls are calls in order.
LEMMA NoCalls == InOrder(<<>>) /\ Elements(<<>>) = {}
BY DEF InOrder, Elements

\* What onTick makes up: nothing, if it returns early, or what a kill or a new
\* midpoint calls for.
Asks(p, mid) ==
  /\ Idle /\ phase = "tick" /\ phase' = "order"
  /\ UNCHANGED <<vars, tick, simId, tradeLog, nextOrderId, quote, position, crossing>>
  /\ p = account'.position /\ p \in {account.position, Counted} /\ p \in Int /\ mid \in Int
  /\ account' \in Account /\ skipped' \in Int /\ Counted' = p
  /\ Made(p, mid)

\* onTick counts the fills of the tick and then asks for such calls.
LEMMA OnTickAsks ==
  ASSUME BothInv, MakerInv, OnTick
  PROVE  \E p, mid : Asks(p, mid)
<1> DEFINE top == TopOfBook(book)
           middle == Quotient(top.bid + top.ask, 2)
           a == ProcessFills(account)
           kill == ~killed /\ a.realized + Unrealized(a, middle) < -(a.unit * maxLoss)
<1>1. /\ Idle /\ phase = "tick" /\ phase' = "order"
      /\ UNCHANGED <<vars, tick, simId, tradeLog, nextOrderId, quote, position, crossing>>
      /\ IF top.bid = NoPrice \/ top.ask = NoPrice THEN OnTickEarly
         ELSE /\ account' = a
              /\ killed' = (killed \/ kill)
              /\ todo' = IF kill THEN CancelCalls(CancelQuotes(Side))
                         ELSE IF killed THEN <<>> ELSE Requote(a.position, middle)
              /\ UNCHANGED skipped
  BY DEF OnTick
<1>2. todo = <<>> /\ ~killed
  BY <1>1 DEF Idle, MakerInv, Out
<1>3. /\ tradeLog \in Seq(Trade) /\ {position, crossing, skipped} \subseteq Int
      /\ account \in Account /\ Counted = account.position + Net(tradeLog)
      /\ \A k \in DOMAIN tradeLog : Names(tradeLog[k])
  BY <1>1 DEF MakerInv, Accounted, Names
<1>4. account.position \in Int /\ Counted \in Int
  BY ParameterTypes DEF MakerInv, Capped
<1>5. Net(tradeLog) \in Int
  <2>1. NoTrade \in Trade
    BY DEF NoTrade, Trade
  <2> QED BY <1>3, <2>1, NetAppend
<1>6. quote \in [Side -> [id : Nat, px : Int]]
  BY DEF MakerInv, Tracked
<1>7. CASE top.bid = NoPrice \/ top.ask = NoPrice
  <2>1. /\ skipped' = skipped + Net(tradeLog)
        /\ UNCHANGED <<account, killed, todo>>
    BY <1>1, <1>7 DEF OnTickEarly, Net
  <2>2. PICK p \in Int : p = account.position
    BY <1>4
  <2>3. Counted' = p /\ skipped' \in Int
    <3>1. PICK n \in Int : n = Net(tradeLog)
      BY <1>5
    <3>2. position' = position /\ crossing' = crossing /\ skipped' = skipped + n
      BY <1>1, <2>1, <3>1
    <3>3. /\ position \in Int /\ crossing \in Int /\ skipped \in Int
          /\ position - crossing - skipped = p + n
      BY <1>3, <2>2, <3>1 DEF Counted
    <3> HIDE DEF a, kill, middle, top
    <3> QED BY <3>1, <3>2, <3>3 DEF Counted
  <2>4. Made(p, 0)
    BY <1>1, <1>2, <2>1, NoCalls DEF Made
  <2>5. Asks(p, 0)
    BY <1>1, <1>3, <2>1, <2>2, <2>3, <2>4 DEF Asks
  <2> QED BY <2>5
<1>8. CASE ~(top.bid = NoPrice \/ top.ask = NoPrice)
  <2>1. PICK mid \in 1 .. Ceiling : mid = middle
    BY <1>8, MidFits DEF BothInv
  <2>2. mid \in Int
    BY CeilingFits DEF MakerInv
  <2>3. a \in Account /\ a.position = Counted
    BY <1>3, FillsCounted
  <2>4. PICK p \in Int : p = Counted
    BY <1>4
  <2>5. account' = a /\ skipped' = skipped /\ killed' = kill
        /\ todo' = IF kill THEN CancelCalls(CancelQuotes(Side)) ELSE Requote(p, mid)
    BY <1>1, <1>2, <1>8, <2>1, <2>3, <2>4
  <2> HIDE DEF a, kill, middle, top
  <2>6. p = account'.position /\ account' \in Account
    BY <2>3, <2>4, <2>5
  <2>7. Counted' = p /\ skipped' \in Int
    <3>1. Counted' = Counted
      BY <1>1, <2>5 DEF Counted
    <3> QED BY <1>3, <2>4, <2>5, <3>1
  <2>8. Made(p, mid)
    <3>1. CASE kill
      BY <1>6, <2>5, <3>1, Withdrawal DEF Made
    <3>2. CASE ~kill
      <4>1. /\ InOrder(todo')
            /\ Elements(todo') = {} \/ Elements(todo') = Withdrawn \cup Quoted(p, mid)
        BY <1>6, <2>2, <2>5, <3>2, Requoted
      <4> QED BY <1>1, <2>1, <2>5, <3>2, <4>1 DEF Made
    <3> QED BY <3>1, <3>2
  <2>9. Asks(p, mid)
    BY <1>1, <2>2, <2>4, <2>6, <2>7, <2>8 DEF Asks
  <2> QED BY <2>9
<1> QED BY <1>7, <1>8

\* So onTick keeps the invariant,
LEMMA OnTickKeeps ==
  ASSUME BothInv, MakerInv, OnTick
  PROVE  MakerInv'
<1>1. PICK p, mid : Asks(p, mid)
  BY OnTickAsks
<1> QED BY <1>1, MadeKeeps DEF Asks

\* so does shutdown,
LEMMA ShutdownKeeps ==
  ASSUME BothInv, MakerInv, Shutdown
  PROVE  MakerInv'
<1>1. /\ Idle /\ phase = "order" /\ phase' = "stopped"
      /\ UNCHANGED <<vars, tick, simId, tradeLog, nextOrderId, quote, position, crossing>>
      /\ account' = account /\ skipped' = skipped
      /\ todo' = CancelCalls(CancelQuotes(Side))
  BY DEF Shutdown, ownVars, ghostVars
<1>2. PICK p : p = account.position
  OBVIOUS
<1>3. /\ {position, crossing, skipped} \subseteq Int /\ account \in Account
      /\ Counted = account.position + 0
  BY <1>1 DEF MakerInv, Accounted
<1>4. account.position \in Int
  BY ParameterTypes DEF MakerInv, Capped
<1>5. Counted' = p /\ skipped' \in Int
  <2>1. Counted' = Counted
    BY <1>1 DEF Counted
  <2> QED BY <1>1, <1>2, <1>3, <1>4, <2>1
<1>6. Made(p, 0)
  BY <1>1, Withdrawal DEF Made, MakerInv, Tracked
<1> QED BY <1>1, <1>2, <1>3, <1>5, <1>6, MadeKeeps

\* and any step in which nothing happens.
LEMMA StutterKeeps ==
  ASSUME MakerInv, UNCHANGED makerVars
  PROVE  MakerInv'
<1>1. /\ UNCHANGED vars
      /\ UNCHANGED <<phase, tick, todo, tradeLog, simId, nextOrderId, account, killed, quote,
                     position, crossing, skipped>>
  BY DEF makerVars, simVars, ownVars, ghostVars
<1>2. RestingView' = RestingView /\ taker' = taker /\ order' = order /\ book' = book
  BY <1>1, ViewStays DEF vars
<1>3. Rounds' = Rounds /\ Ceiling' = Ceiling /\ (OwnInFlight' <=> OwnInFlight)
      /\ \A s \in Side : Dropping(s)' <=> Dropping(s)
  BY <1>1, <1>2 DEF Rounds, Ceiling, OwnInFlight, Dropping
<1>4. Counters' /\ Priced' /\ Calls'
  BY <1>1, <1>2, <1>3 DEF MakerInv, Counters, Priced, Calls
<1>5. Unstarted'
  BY <1>1, <1>2, <1>3 DEF MakerInv, Unstarted
<1>6. Tracked'
  BY <1>1, <1>2 DEF MakerInv, Tracked, OwnInFlight, Dropping
<1>7. Out'
  BY <1>1, <1>2, <1>3 DEF MakerInv, Out
<1>8. Capped(account.position)' /\ Capped(Counted)'
  BY <1>1, <1>2, <1>3 DEF MakerInv, Capped, Counted
<1>9. Accounted'
  BY <1>1, <1>2 DEF MakerInv, Accounted, Counted
<1> QED BY <1>4, <1>5, <1>6, <1>7, <1>8, <1>9 DEF MakerInv

-----------------------------------------------------------------------------
(* The invariant is one.                                                   *)

\* The book is seeded with orders of prices that its type holds.
LEMMA SeedsFit ==
  ASSUME NEW k \in 1 .. 2 * seedDepthLevels, NEW top, PricesFit(top), top \in Nat
  PROVE  SeedCalls[k] \in Call /\ Seeds(SeedCalls[k]) /\ SeedCalls[k].price \in 1 .. top
<1> DEFINE i == (k + 1) \div 2
<1>1. seedDepthLevels \in Nat /\ seedTickSize \in Nat /\ startPrice \in Nat
  BY ParameterTypes
<1>2. i \in 1 .. seedDepthLevels
  BY <1>1
<1>3. /\ i * seedTickSize \in Nat /\ i * seedTickSize <= seedDepthLevels * seedTickSize
  BY <1>1, <1>2, Product
<1>4. PICK z \in Nat : z = i * seedTickSize
  BY <1>3
<1>5. PICK d \in Nat : d = seedDepthLevels * seedTickSize
  BY <1>1
<1>6. z <= d /\ startPrice - d > 0 /\ startPrice + d <= top
  BY <1>3, <1>4, <1>5 DEF PricesFit
<1>7. SeedCalls[k] = IF k % 2 = 1
                     THEN ProcessCall(k, startPrice - z, seedQtyPerLevel, "BUY")
                     ELSE ProcessCall(k, startPrice + z, seedQtyPerLevel, "SELL")
  BY <1>4 DEF SeedCalls
<1> HIDE DEF i
<1>8. ASSUME NEW p \in 1 .. top, NEW s \in Side
      PROVE  LET c == ProcessCall(k, p, seedQtyPerLevel, s)
             IN c \in Call /\ Seeds(c) /\ c.price \in 1 .. top
  <2>1. seedQtyPerLevel \in Quantity /\ k \in Nat /\ p \in Int
    BY <1>1, SimulatorAssumption
  <2> QED BY <1>8, <2>1 DEF ProcessCall, Call, Seeds
<1>9. startPrice - z \in 1 .. top /\ startPrice + z \in 1 .. top
  BY <1>1, <1>4, <1>5, <1>6
<1>10. "BUY" \in Side /\ "SELL" \in Side
  BY DEF Side
<1> QED BY <1>7, <1>8, <1>9, <1>10

\* The invariant holds at first,
LEMMA InitMakerInv == MakerInit => MakerInv
<1> SUFFICES ASSUME MakerInit PROVE MakerInv
  OBVIOUS
<1>1. /\ Init /\ phase = "order" /\ tick = 0 /\ todo = SeedCalls /\ tradeLog = <<>>
      /\ simId = 2 * seedDepthLevels + 1 /\ nextOrderId = startingId
      /\ account = [position |-> 0, realized |-> 0, avgEntry |-> 0, unit |-> 1]
      /\ killed = FALSE /\ quote = [s \in Side |-> NoQuote]
      /\ position = 0 /\ crossing = 0 /\ skipped = 0
  BY DEF MakerInit
<1>2. /\ seedDepthLevels \in Nat /\ numTicks \in Nat /\ startingId \in Nat
      /\ maxPosition \in Nat
  BY ParameterTypes
<1>3. DOMAIN RestingView = {} /\ taker = null /\ book = [s \in Side |-> <<>>]
  <2>1. DOMAIN RestingView = DOMAIN orderMap
    BY <1>1, InitIInv, InitUInv, ViewTypes
  <2> QED BY <1>1, <2>1 DEF Init
<1>4. ~OwnInFlight /\ Rounds = 0
  BY <1>1, <1>3 DEF OwnInFlight, Rounds
<1>5. Counters
  BY <1>1, <1>2, <1>3, <1>4 DEF Counters
<1>6. PricesFit(Top) /\ Top \in Nat /\ Ceiling = Top
  <2>1. Reach \in Nat /\ 0 * Reach = 0
    BY <1>5, CeilingFits
  <2> QED BY <1>4, <1>5, <2>1, CeilingFits DEF Ceiling
<1>7. /\ DOMAIN todo = 1 .. 2 * seedDepthLevels
      /\ \A k \in DOMAIN todo : todo[k] \in Call /\ Seeds(todo[k])
                                /\ todo[k].price \in 1 .. Ceiling
  <2>1. DOMAIN SeedCalls = 1 .. 2 * seedDepthLevels
    BY DEF SeedCalls
  <2> QED BY <1>1, <1>6, <2>1, SeedsFit
<1>8. todo \in Seq(Call)
  <2>1. todo = [k \in 1 .. 2 * seedDepthLevels |-> todo[k]]
    BY <1>1 DEF SeedCalls
  <2>2. todo \in [1 .. 2 * seedDepthLevels -> Call] /\ 2 * seedDepthLevels \in Nat
    BY <1>2, <1>7, <2>1
  <2> QED BY <2>2, SeqOfFunction
<1>9. \A k \in DOMAIN todo : ~Cancels(todo[k]) /\ ~Quotes(todo[k])
  BY <1>7 DEF Seeds, Cancels, Quotes
<1>10. Priced
  <2>1. \A s \in Side : DOMAIN book[s] \subseteq 1 .. Ceiling
    BY <1>3
  <2> QED BY <1>3, <1>7, <2>1 DEF Priced
<1>11. Calls
  BY <1>1, <1>7, <1>8, <1>9 DEF Calls
<1>12. \A s \in Side : quote[s].id = 0
  BY <1>1 DEF NoQuote
<1>13. Unstarted
  BY <1>1, <1>4, <1>7, <1>12 DEF Unstarted
<1>14. Tracked
  <2>1. NoQuote \in [id : Nat, px : Int]
    BY DEF NoQuote
  <2>2. quote \in [Side -> [id : Nat, px : Int]]
    BY <1>1, <2>1
  <2> QED BY <1>3, <1>4, <1>9, <1>12, <2>2 DEF Tracked
<1>15. Out
  BY <1>1 DEF Out
<1>16. account.position = 0 /\ Counted = 0
  BY <1>1 DEF Counted
<1>17. Capped(account.position) /\ Capped(Counted)
  BY <1>2, <1>3, <1>4, <1>9, <1>16 DEF Capped
<1>18. Accounted
  <2>1. <<>> \in Seq(Trade) /\ account \in Account
    BY <1>1 DEF Account
  <2> QED BY <1>1, <1>16, <2>1 DEF Accounted
<1> QED BY <1>5, <1>10, <1>11, <1>13, <1>14, <1>15, <1>17, <1>18 DEF MakerInv

\* The invariants of the engine and of the maker, together.
MakerIInv == IInv /\ UInv /\ MakerInv

\* the engine's part of it in each step,
LEMMA StepEngine ==
  ASSUME MakerIInv, [MakerNext]_makerVars
  PROVE  [Next]_vars /\ BothInv
<1>1. [Next]_vars
  BY MakerStepRuns DEF MakerIInv
<1> QED BY <1>1, NextIInv, NextUInv, SimulatorAssumption DEF MakerIInv, BothInv

\* and so does the rest.
LEMMA NextMakerInv == MakerIInv /\ [MakerNext]_makerVars => MakerIInv'
<1> SUFFICES ASSUME MakerIInv, [MakerNext]_makerVars PROVE MakerIInv'
  OBVIOUS
<1>1. BothInv /\ MakerInv
  BY StepEngine DEF MakerIInv
<1>2. ASSUME Begins PROVE MakerInv'
  BY <1>1, <1>2, BeginKeeps
<1>3. ASSUME OnTick PROVE MakerInv'
  BY <1>1, <1>3, OnTickKeeps
<1>4. ASSUME CancelQuote PROVE MakerInv'
  BY <1>1, <1>4, CancelKeeps
<1>5. ASSUME PlaceOrder PROVE MakerInv'
  <2>1. Quotes(todo[1]) \/ Seeds(todo[1])
    BY <1>1, <1>5, PlacedOrder DEF PlaceOrder, MakerInv
  <2> QED BY <1>1, <1>5, <2>1, QuoteKeeps, SeedKeeps
<1>6. ASSUME Process PROVE MakerInv'
  <2>1. (FillMaker \/ FillTaker) \/ Finish
    BY <1>6 DEF Process, Sweep
  <2> QED BY <1>1, <1>6, <2>1, TradeKeeps, FinishKeeps
<1>7. ASSUME Shutdown PROVE MakerInv'
  BY <1>1, <1>7, ShutdownKeeps
<1>8. ASSUME Stopped \/ UNCHANGED makerVars PROVE MakerInv'
  BY <1>1, <1>8, StutterKeeps DEF Stopped
<1>9. MakerNext => Begins \/ OnTick \/ CancelQuote \/ PlaceOrder \/ Process \/ Shutdown \/ Stopped
  BY DEF MakerNext, Begins, SimulatedLimit, SimulatedMarket, SimulatedCancel
<1>10. MakerInv'
  BY <1>2, <1>3, <1>4, <1>5, <1>6, <1>7, <1>8, <1>9
<1> QED BY <1>1, <1>10 DEF BothInv, MakerIInv

\* All of it holds at first.
LEMMA InitMakerIInv == MakerInit => MakerIInv
BY InitIInv, InitUInv, InitMakerInv DEF MakerIInv, MakerInit

\* The invariant of the engine and the maker holds in every state of a run of
\* the simulator.
THEOREM MakerInvariance == MakerSpec => []MakerIInv
BY InitMakerIInv, NextMakerInv, PTL DEF MakerSpec

\* The market maker and its simulator leave the matching engine its behaviours:
\* each call they make of it is one that its own specification allows.
THEOREM MakerRunsEngine == MakerSpec => Spec
<1>1. MakerInit => Init
  BY DEF MakerInit
<1>2. MakerIInv /\ [MakerNext]_makerVars => [Next]_vars
  BY StepEngine
<1> QED BY <1>1, <1>2, MakerInvariance, PTL DEF MakerSpec, Spec

\* Whatever the flow, between two calls the maker knows the id of each order it
\* has in the book (property OwnQuotesTracked).
THEOREM QuotesStayTracked == MakerSpec => []OwnQuotesTracked
<1>1. MakerIInv => OwnQuotesTracked
  <2> SUFFICES ASSUME MakerIInv, NEW o \in Queued(book), Own(order[o].id)
               PROVE  order[o].id = quote[order[o].side].id
    BY DEF OwnQuotesTracked, OwnResting
  <2> DEFINE i == order[o].id
  <2>1. i \in DOMAIN RestingView /\ RestingView[i].side = order[o].side
    BY ViewTypes DEF MakerIInv
  <2>2. quote[RestingView[i].side] = [id |-> i, px |-> RestingView[i].price]
    BY <2>1 DEF MakerIInv, MakerInv, Tracked
  <2> QED BY <2>1, <2>2
<1> QED BY <1>1, MakerInvariance, PTL

\* After the kill switch, and after the run, nothing of the maker's is left in
\* the book (property OutWhenStopped).
THEOREM OutOnceStopped == MakerSpec => []OutWhenStopped
<1>1. MakerIInv => OutWhenStopped
  <2> SUFFICES ASSUME MakerIInv, Idle, killed \/ phase = "stopped",
                      NEW o \in Queued(book), Own(order[o].id)
               PROVE  FALSE
    BY DEF OutWhenStopped, OwnResting
  <2> DEFINE i == order[o].id
  <2>1. i \in DOMAIN RestingView /\ RestingView[i].side \in Side
    BY ViewTypes DEF MakerIInv
  <2>2. quote[RestingView[i].side] = [id |-> i, px |-> RestingView[i].price]
    BY <2>1 DEF MakerIInv, MakerInv, Tracked
  <2>3. i # 0
    BY <2>1 DEF MakerIInv, MakerInv, Counters
  <2>4. \A s \in Side : quote[s].id = 0
    BY DEF MakerIInv, MakerInv, Out, Dropping, Idle
  <2> QED BY <2>1, <2>2, <2>3, <2>4
<1> QED BY <1>1, MakerInvariance, PTL

\* The position that the maker counts never passes its limit, whatever the
\* sizes and the order of the fills (property CountedWithinCap).
THEOREM CountedStaysWithinCap == MakerSpec => []CountedWithinCap
<1>1. MakerIInv => CountedWithinCap
  BY ParameterTypes DEF MakerIInv, MakerInv, Capped, CountedWithinCap, Abs
<1> QED BY <1>1, MakerInvariance, PTL

\* Every fill but those of the two known ways is counted, once (property
\* PositionAccounted).
THEOREM PositionStaysAccounted == MakerSpec => []PositionAccounted
<1>1. MakerIInv => PositionAccounted
  <2> SUFFICES ASSUME MakerIInv, phase # "tick"
               PROVE  position = account.position + crossing + skipped
    BY DEF PositionAccounted
  <2>1. {position, crossing, skipped} \subseteq Int /\ Counted = account.position + 0
    BY DEF MakerIInv, MakerInv, Accounted
  <2>2. account.position \in Int
    BY ParameterTypes DEF MakerIInv, MakerInv, Capped
  <2> QED BY <2>1, <2>2 DEF Counted
<1> QED BY <1>1, MakerInvariance, PTL

-----------------------------------------------------------------------------
(* The maker's accounts agree with its cash.                               *)

Solvent == cash \in Int /\ PnlMatchesCash

\* onTick books what it counts; no other step touches the accounts.
LEMMA NextSolvent == MakerIInv /\ Solvent /\ [MakerNext]_makerVars => Solvent'
<1> SUFFICES ASSUME MakerIInv, Solvent, [MakerNext]_makerVars PROVE Solvent'
  OBVIOUS
<1>1. CASE account' = account /\ cash' = cash
  BY <1>1 DEF Solvent, PnlMatchesCash
<1>2. CASE OnTick /\ ~(account' = account /\ cash' = cash)
  <2>1. /\ phase = "tick" /\ account' = ProcessFills(account)
        /\ cash' = cash - Spent(tradeLog)
    BY <1>2 DEF OnTick, OnTickEarly, Spent
  <2>2. /\ account \in Account /\ tradeLog \in Seq(Trade)
        /\ \A k \in DOMAIN tradeLog : Names(tradeLog[k])
    BY <2>1 DEF MakerIInv, MakerInv, Accounted, Names
  <2>3. Balanced(account, cash)
    BY DEF Solvent, PnlMatchesCash, Balanced
  <2>4. Balanced(account', cash')
    BY <2>1, <2>2, <2>3, FillsCounted DEF Solvent
  <2>5. Spent(tradeLog) \in Int
    <3>1. /\ IsFiniteSet(DOMAIN tradeLog)
          /\ \A k \in DOMAIN tradeLog : Payments(tradeLog)[k] \in Int
      BY <2>2, ChangesType, PaymentsType
    <3> QED BY <2>2, <3>1, SpentIsTotal, TotalAdd
  <2> QED BY <2>1, <2>4, <2>5 DEF Solvent, PnlMatchesCash, Balanced
<1>3. (account' = account /\ cash' = cash) \/ OnTick
  BY DEF MakerNext, GenerateLimitOrder, GenerateMarketOrder, GenerateCancel, GenerateNothing,
         BeginTick, CancelQuote, PlaceOrder, Process, Shutdown, Stopped, makerVars, ownVars,
         ghostVars
<1> QED BY <1>1, <1>2, <1>3

\* The accounts agree with the cash that the counted fills brought in, for any
\* prices, quantities and order of fills (property PnlMatchesCash).
THEOREM AccountsMatchCash == MakerSpec => []PnlMatchesCash
<1>1. MakerInit => Solvent
  BY DEF MakerInit, Solvent, PnlMatchesCash
<1>2. Solvent => PnlMatchesCash
  BY DEF Solvent
<1> QED BY <1>1, <1>2, NextSolvent, MakerInvariance, PTL DEF MakerSpec

-----------------------------------------------------------------------------
(* With a spread, the maker's sell orders are above its buy orders.        *)

NoSelf == Apart /\ NoSelfTrade

\* Where no order of the maker's is in flight and none is to be placed, there is
\* nothing to show.
LEMMA NothingPlaced ==
  ASSUME ~OwnInFlight, \A k \in DOMAIN todo : ~Quotes(todo[k])
  PROVE  Apart
BY DEF Apart

\* A trade is with an order of somebody else's.
LEMMA TradeApart ==
  ASSUME BothInv, MakerInv, Apart, NEW i \in DOMAIN RestingView, NEW qty \in Nat,
         Traded(i, qty)
  PROVE  NoSelfTrade'
<1> SUFFICES ASSUME Own(i), Own(order[taker].id) PROVE FALSE
  <2>1. /\ order[taker].side \in Side
        /\ order[taker].side = "BUY" =>
              trade'.buyOrderId = order[taker].id /\ trade'.sellOrderId = i
        /\ order[taker].side = "SELL" =>
              trade'.buyOrderId = i /\ trade'.sellOrderId = order[taker].id
    BY TradeFacts
  <2> QED BY <2>1 DEF NoSelfTrade, Side
<1>1. /\ taker # null /\ order[taker].side \in Side /\ i \in Nat \ {0}
      /\ RestingView[i].side = Opposite(order[taker].side)
  BY TradeFacts
<1>2. OwnInFlight
  BY <1>1 DEF OwnInFlight
<1>3. ~order[taker].isMarket
  BY <1>2 DEF MakerInv, Tracked
<1>4. quote[RestingView[i].side] = [id |-> i, px |-> RestingView[i].price]
  BY DEF MakerInv, Tracked
<1>5. order[taker].price \in Int /\ RestingView[i].price \in Int
  <2>1. order[taker].price \in Price /\ RestingView[i].price \in Price
    <3>1. order[taker] \in Order
      BY <1>1, ViewTypes DEF BothInv
    <3>2. RestingView[i] \in [side : Side, price : Price, quantity : 0 .. QtyMod - 1]
      BY ViewTypes DEF BothInv
    <3> QED BY <3>1, <3>2 DEF Order
  <2>2. Price \subseteq Int
    BY ConstantsAssumption
  <2>3. order[taker].price \in Int
    BY <2>1, <2>2
  <2>4. RestingView[i].price \in Int
    BY <2>1, <2>2
  <2> QED BY <2>3, <2>4
<1>6. CASE order[taker].side = "BUY"
  <2>1. quote["SELL"].id = 0
    BY <1>2, <1>6 DEF Apart
  <2> QED BY <1>1, <1>4, <1>6, <2>1 DEF Opposite
<1>7. CASE order[taker].side = "SELL"
  <2>1. quote["BUY"].id = 0 \/ quote["BUY"].px < order[taker].price
    BY <1>2, <1>7 DEF Apart
  <2>2. quote["BUY"].id = i /\ quote["BUY"].px = RestingView[i].price
    BY <1>1, <1>4, <1>7 DEF Opposite
  <2>3. RestingView[i].price >= order[taker].price
    BY <1>3, <1>7 DEF Traded
  <2> QED BY <1>1, <1>5, <2>1, <2>2, <2>3
<1> QED BY <1>1, <1>6, <1>7 DEF Side

\* The cancel of a quote keeps them apart,
LEMMA CancelApart ==
  ASSUME BothInv, MakerInv, NoSelf, CancelQuote
  PROVE  NoSelf'
<1> DEFINE c == todo[1]
<1>1. /\ todo # <<>> /\ todo' = Tail(todo)
  BY DEF CancelQuote
<1>2. /\ c \in Call /\ Cancels(c) /\ taker' = null /\ trade' \in {trade, NoTrade}
      /\ quote' = [quote EXCEPT ![c.side] = NoQuote]
  BY QuoteLeaves
<1>3. /\ \A k \in DOMAIN todo : k \in Nat /\ k >= 1 /\ todo[k] \in Call
      /\ \A k \in DOMAIN todo' : k \in Nat /\ k >= 1 /\ k + 1 \in DOMAIN todo
                                 /\ todo'[k] = todo[k + 1]
      /\ \A k \in DOMAIN todo : k # 1 => k - 1 \in DOMAIN todo' /\ todo'[k - 1] = todo[k]
  BY <1>1, CallMade DEF MakerInv
<1>4. c.side \in Side
  BY <1>2 DEF Call
<1>5. /\ quote \in [Side -> [id : Nat, px : Int]]
      /\ quote'[c.side] = NoQuote /\ \A s \in Side : s # c.side => quote'[s] = quote[s]
  BY <1>2, <1>4 DEF MakerInv, Tracked
<1> HIDE DEF c
<1>6. ~OwnInFlight'
  BY <1>2 DEF OwnInFlight
<1>7. ASSUME NEW s \in Side, Dropping(s), s # c.side PROVE Dropping(s)'
  <2>1. PICK k \in DOMAIN todo : Cancels(todo[k]) /\ todo[k].side = s
    BY <1>7 DEF Dropping
  <2>2. k # 1
    BY <1>7, <2>1 DEF c
  <2> QED BY <1>3, <2>1, <2>2 DEF Dropping
<1>8. ASSUME NEW k \in DOMAIN todo', Quotes(todo'[k])
      PROVE  LET other == Opposite(todo'[k].side)
             IN \/ quote'[other].id = 0 \/ Dropping(Opposite(todo[k].side))'
                \/ todo'[k].side = "SELL" /\ quote'["BUY"].px < todo'[k].price
  <2>1. k + 1 \in DOMAIN todo /\ todo'[k] = todo[k + 1] /\ todo[k + 1] \in Call
    BY <1>3
  <2>2. PICK s \in Side : s = todo'[k].side
    BY <2>1 DEF Call
  <2>3. PICK t \in Side : t = Opposite(s) /\ (s = "SELL" => t = "BUY")
    BY DEF Opposite, Side
  <2>4. \/ quote[t].id = 0 \/ Dropping(t)
        \/ s = "SELL" /\ quote["BUY"].px < todo'[k].price
    BY <1>8, <2>1, <2>2, <2>3 DEF NoSelf, Apart
  <2>5. \/ quote'[t].id = 0 \/ Dropping(t)'
        \/ s = "SELL" /\ quote'["BUY"].px < todo'[k].price
    <3>1. CASE t = c.side
      BY <1>5, <3>1 DEF NoQuote
    <3>2. CASE t # c.side
      BY <1>5, <1>7, <2>3, <2>4, <3>2
    <3> QED BY <3>1, <3>2
  <2> QED BY <2>2, <2>3, <2>5 DEF Dropping
<1>9. ASSUME NEW j \in DOMAIN todo', NEW k \in DOMAIN todo', j < k,
             Quotes(todo'[j]), Quotes(todo'[k])
      PROVE  todo'[j].price < todo'[k].price
  <2>1. /\ j + 1 \in DOMAIN todo /\ k + 1 \in DOMAIN todo /\ j + 1 < k + 1
        /\ todo'[j] = todo[j + 1] /\ todo'[k] = todo[k + 1]
    BY <1>3, <1>9
  <2> QED BY <1>9, <2>1 DEF NoSelf, Apart
<1>10. NoSelfTrade'
  <2>1. startingId \in Nat /\ 0 < startingId
    BY ParameterTypes
  <2> QED BY <1>2, <2>1 DEF NoSelf, NoSelfTrade, NoTrade, Own
<1>11. Apart'
  BY <1>6, <1>8, <1>9 DEF Apart
<1> QED BY <1>10, <1>11 DEF NoSelf

\* and so does placing one,
LEMMA QuoteApart ==
  ASSUME BothInv, MakerInv, NoSelf, PlaceOrder, Quotes(todo[1])
  PROVE  NoSelf'
<1> DEFINE c == todo[1]
<1>1. todo # <<>> /\ todo' = Tail(todo) /\ quote' = quote
  BY DEF PlaceOrder
<1>2. /\ taker' # null /\ trade' = NoTrade
      /\ order'[taker'] = [id |-> PlacedId, price |-> c.price, quantity |-> c.qty,
                           side |-> c.side, isMarket |-> FALSE]
  BY OrderPlaced
<1>3. /\ \A k \in DOMAIN todo : Quotes(todo[k]) /\ \A s \in Side : ~Dropping(s)
      /\ c.side \in Side
      /\ \A k \in DOMAIN todo' : Quotes(todo'[k]) /\ c.side = "BUY" /\ todo'[k].side = "SELL"
  BY OrdersLeft
<1>4. /\ 1 \in DOMAIN todo
      /\ \A k \in DOMAIN todo' : k \in Nat /\ k >= 1 /\ k + 1 \in DOMAIN todo
                                 /\ todo'[k] = todo[k + 1]
  BY <1>1, CallMade DEF MakerInv
<1>5. \A k \in DOMAIN todo :
         LET other == Opposite(todo[k].side)
         IN \/ quote[other].id = 0
            \/ todo[k].side = "SELL" /\ quote["BUY"].px < todo[k].price
  <2>1. ASSUME NEW k \in DOMAIN todo
        PROVE  LET other == Opposite(todo[k].side)
               IN \/ quote[other].id = 0
                  \/ todo[k].side = "SELL" /\ quote["BUY"].px < todo[k].price
    <3>1. \/ quote[Opposite(todo[k].side)].id = 0 \/ Dropping(Opposite(todo[k].side))
          \/ todo[k].side = "SELL" /\ quote["BUY"].px < todo[k].price
      BY <1>3 DEF NoSelf, Apart
    <3>2. Opposite(todo[k].side) \in Side
      BY DEF Opposite, Side
    <3> QED BY <1>3, <3>1, <3>2
  <2> QED BY <2>1
<1>6. \A j, k \in DOMAIN todo : j < k => todo[j].price < todo[k].price
  BY <1>3 DEF NoSelf, Apart
<1>7. order'[taker'].side = c.side /\ order'[taker'].price = c.price
  BY <1>2
<1>8. c.side = "BUY" => quote'["SELL"].id = 0
  BY <1>1, <1>4, <1>5 DEF Opposite
<1>9. c.side = "SELL" => quote'["BUY"].id = 0 \/ quote'["BUY"].px < c.price
  BY <1>1, <1>4, <1>5 DEF Opposite
<1>10. \A k \in DOMAIN todo' :
          LET other == Opposite(todo'[k].side)
          IN \/ quote'[other].id = 0
             \/ todo'[k].side = "SELL" /\ quote'["BUY"].px < todo'[k].price
  BY <1>1, <1>4, <1>5
<1>11. \A j, k \in DOMAIN todo' : j < k => todo'[j].price < todo'[k].price
  <2>1. ASSUME NEW j \in DOMAIN todo', NEW k \in DOMAIN todo', j < k
        PROVE  todo'[j].price < todo'[k].price
    <3>1. /\ j + 1 \in DOMAIN todo /\ k + 1 \in DOMAIN todo /\ j + 1 < k + 1
          /\ todo'[j] = todo[j + 1] /\ todo'[k] = todo[k + 1]
      BY <1>4, <2>1
    <3> QED BY <1>6, <3>1
  <2> QED BY <2>1
<1>12. \A k \in DOMAIN todo' : c.price < todo'[k].price
  <2>1. ASSUME NEW k \in DOMAIN todo' PROVE c.price < todo'[k].price
    <3>1. k + 1 \in DOMAIN todo /\ 1 < k + 1 /\ todo'[k] = todo[k + 1]
      BY <1>4
    <3> QED BY <1>4, <1>6, <3>1
  <2> QED BY <2>1
<1> HIDE DEF c
<1>13. Apart'
  BY <1>7, <1>8, <1>9, <1>10, <1>11, <1>12 DEF Apart
<1>14. NoSelfTrade'
  BY <1>2, ParameterTypes DEF NoSelfTrade, NoTrade, Own
<1> QED BY <1>13, <1>14 DEF NoSelf

\* or an order that the book is seeded with;
LEMMA SeedApart ==
  ASSUME BothInv, MakerInv, NoSelf, PlaceOrder, Seeds(todo[1])
  PROVE  NoSelf'
<1>1. /\ todo # <<>> /\ todo' = Tail(todo) /\ Head(todo).call = "process"
  BY DEF PlaceOrder
<1>2. /\ taker' # null /\ trade' = NoTrade /\ order'[taker'].id = PlacedId
  BY OrderPlaced
<1>3. ~Own(PlacedId)
  <2>1. todo[1].id \in 1 .. 2 * seedDepthLevels /\ todo[1].id # 0 /\ Head(todo) = todo[1]
    BY <1>1, PlacedOrder, ParameterTypes DEF Seeds, MakerInv
  <2> QED BY <2>1, ParameterTypes DEF PlacedId, Own
<1>4. \A k \in DOMAIN todo' : ~Quotes(todo'[k])
  <2>1. /\ 1 \in DOMAIN todo
        /\ \A k \in DOMAIN todo' : k + 1 \in DOMAIN todo /\ todo'[k] = todo[k + 1]
    BY <1>1, CallMade DEF MakerInv
  <2>2. \A k \in DOMAIN todo : Seeds(todo[k])
    BY <2>1 DEF MakerInv, Calls, Seeds, Quotes, Cancels
  <2> QED BY <2>1, <2>2 DEF Seeds, Quotes
<1>5. ~OwnInFlight'
  BY <1>2, <1>3 DEF OwnInFlight
<1>6. Apart'
  BY <1>4, <1>5 DEF Apart
<1>7. NoSelfTrade'
  BY <1>2, ParameterTypes DEF NoSelfTrade, NoTrade, Own
<1> QED BY <1>6, <1>7 DEF NoSelf

\* a pass of a match loop does,
LEMMA PassApart ==
  ASSUME BothInv, MakerInv, NoSelf, Process, FillMaker \/ FillTaker
  PROVE  NoSelf'
<1>1. PICK i \in DOMAIN RestingView, qty \in Nat : Traded(i, qty)
  BY FillView
<1>2. NoSelfTrade'
  BY <1>1, TradeApart DEF NoSelf
<1>3. taker # null /\ Shrinks
  BY <1>1, TradeFacts
<1>4. taker' # null /\ quote' = quote /\ todo' = todo
  BY <1>3 DEF Process, Shrinks
<1>5. OwnInFlight' <=> OwnInFlight
  BY <1>3 DEF OwnInFlight, Shrinks
<1>6. order'[taker'].side = order[taker].side /\ order'[taker'].price = order[taker].price
  BY <1>3 DEF Shrinks
<1>7. \A k \in DOMAIN todo' : Quotes(todo'[k]) =>
         (LET other == Opposite(todo[k].side)
          IN \/ quote[other].id = 0 \/ Dropping(other)
             \/ todo[k].side = "SELL" /\ quote["BUY"].px < todo[k].price)'
  BY <1>4 DEF NoSelf, Apart, Dropping
<1>8. Apart'
  BY <1>4, <1>5, <1>6, <1>7 DEF NoSelf, Apart
<1> QED BY <1>2, <1>8 DEF NoSelf

\* and when processOrder has returned, the quote is noted that was placed.
LEMMA FinishApart ==
  ASSUME BothInv, MakerInv, NoSelf, Process, Finish
  PROVE  NoSelf'
<1> DEFINE o == order[taker]
<1>1. taker # null /\ taker' = null /\ trade' = NoTrade
  BY FinishView
<1>2. /\ todo' = todo
      /\ quote' = IF Own(o.id) THEN [quote EXCEPT ![o.side] = [id |-> o.id, px |-> o.price]]
                  ELSE quote
  BY <1>1 DEF Process
<1>3. ~OwnInFlight' /\ (OwnInFlight <=> Own(o.id))
  BY <1>1 DEF OwnInFlight
<1>4. NoSelfTrade'
  BY <1>1, ParameterTypes DEF NoSelfTrade, NoTrade, Own
<1>5. CASE ~Own(o.id)
  <2>1. quote' = quote
    BY <1>2, <1>5
  <2>2. \A k \in DOMAIN todo' : Quotes(todo'[k]) =>
           (LET other == Opposite(todo[k].side)
            IN \/ quote[other].id = 0 \/ Dropping(other)
               \/ todo[k].side = "SELL" /\ quote["BUY"].px < todo[k].price)'
    BY <1>2, <2>1 DEF NoSelf, Apart, Dropping
  <2>3. Apart'
    BY <1>2, <1>3, <2>2 DEF NoSelf, Apart
  <2> QED BY <1>4, <2>3 DEF NoSelf
<1>6. CASE Own(o.id)
  <2>1. \A k \in DOMAIN todo : Quotes(todo[k]) /\ o.side = "BUY" /\ todo[k].side = "SELL"
    BY <1>3, <1>6 DEF MakerInv, Tracked
  <2>2. \A k \in DOMAIN todo : o.price < todo[k].price
    BY <1>3, <1>6, <2>1 DEF NoSelf, Apart
  <2>3. quote \in [Side -> [id : Nat, px : Int]] /\ "BUY" \in Side
    BY DEF MakerInv, Tracked, Side
  <2>4. o.side = "BUY" => quote'["BUY"] = [id |-> o.id, px |-> o.price]
    BY <1>2, <1>6, <2>3
  <2>5. \A k \in DOMAIN todo' : todo'[k].side = "SELL" /\ quote'["BUY"].px < todo'[k].price
    BY <1>2, <2>1, <2>2, <2>4
  <2> HIDE DEF o
  <2>6. Apart'
    BY <1>2, <1>3, <2>5 DEF NoSelf, Apart
  <2> QED BY <1>4, <2>6 DEF NoSelf
<1> QED BY <1>5, <1>6

\* What onTick quotes on both sides is apart.
LEMMA MadeApart ==
  ASSUME halfSpread > 0, quote \in [Side -> [id : Nat, px : Int]], quote' = quote,
         NEW p \in Int, NEW mid \in Int, Made(p, mid), taker' = null
  PROVE  Apart'
<1>1. /\ todo' \in Seq(Call)
      /\ \A j, k \in DOMAIN todo' : j < k => Rank(todo'[j]) < Rank(todo'[k])
      /\ \A k \in DOMAIN todo' : todo'[k] \in Elements(todo')
      /\ \A c \in Elements(todo') : \E k \in DOMAIN todo' : c = todo'[k]
  BY DEF Made, InOrder, Elements
<1>2. ~OwnInFlight'
  BY DEF OwnInFlight
<1>3. \A c \in Withdrawn : Cancels(c) /\ ~Quotes(c)
  BY Withdrawal DEF Cancels, Quotes
<1>4. CASE \A k \in DOMAIN todo' : ~Quotes(todo'[k])
  BY <1>2, <1>4 DEF Apart
<1>5. CASE Elements(todo') = Withdrawn \cup Quoted(p, mid)
  <2>1. ASSUME NEW s \in Side, quote[s].id # 0 PROVE Dropping(s)'
    <3>1. CancelCall(quote[s].id, s) \in Elements(todo')
      BY <1>5, <2>1 DEF Withdrawn
    <3>2. PICK k \in DOMAIN todo' : todo'[k] = CancelCall(quote[s].id, s)
      BY <1>1, <3>1
    <3>3. Cancels(todo'[k]) /\ todo'[k].side = s
      BY <3>2 DEF CancelCall, Cancels
    <3> QED BY <3>3 DEF Dropping
  <2>2. ASSUME NEW k \in DOMAIN todo'
        PROVE  (quote[Opposite(todo[k].side)].id = 0 \/ Dropping(Opposite(todo[k].side)))'
    <3>1. PICK t \in Side : t = Opposite(todo'[k].side)
      BY DEF Opposite, Side
    <3>2. quote'[t].id = 0 \/ Dropping(t)'
      BY <2>1
    <3> QED BY <3>1, <3>2 DEF Dropping
  <2>3. ASSUME NEW j \in DOMAIN todo', NEW k \in DOMAIN todo', j < k,
               Quotes(todo'[j]), Quotes(todo'[k])
        PROVE  todo'[j].price < todo'[k].price
    <3>1. ASSUME NEW i \in DOMAIN todo', Quotes(todo'[i])
          PROVE  \E s \in Side : todo'[i] = QuoteCall(p, mid, s)
      BY <1>1, <1>3, <1>5, <3>1 DEF Quoted
    <3>2. PICK s \in Side : todo'[j] = QuoteCall(p, mid, s)
      BY <2>3, <3>1
    <3>3. PICK t \in Side : todo'[k] = QuoteCall(p, mid, t)
      BY <2>3, <3>1
    <3>4. ASSUME NEW r \in Side
          PROVE  /\ QuoteCall(p, mid, r).price = QuotePx(p, mid, r)
                 /\ Rank(QuoteCall(p, mid, r)) = IF r = "BUY" THEN 3 ELSE 4
      BY DEF QuoteCall, ProcessCall, Rank, Cancels
    <3>5. s = "BUY" /\ t = "SELL"
      <4>1. Rank(QuoteCall(p, mid, s)) < Rank(QuoteCall(p, mid, t))
        BY <1>1, <2>3, <3>2, <3>3
      <4> QED BY <3>4, <4>1 DEF Side
    <3>6. PICK z \in Int : z = p * skewPerUnit
      BY ParameterTypes
    <3>7. QuotePx(p, mid, s) = mid - halfSpread - z /\ QuotePx(p, mid, t) = mid + halfSpread - z
      BY <3>5, <3>6 DEF QuotePx
    <3>8. mid - halfSpread - z < mid + halfSpread - z
      BY ParameterTypes
    <3> QED BY <3>2, <3>3, <3>4, <3>7, <3>8
  <2> QED BY <1>2, <2>2, <2>3 DEF Apart
<1>6. CASE Elements(todo') = {} \/ Elements(todo') = Withdrawn
  BY <1>1, <1>3, <1>4, <1>6
<1> QED BY <1>5, <1>6 DEF Made

\* Every step keeps them apart, and so none is a trade of the maker with itself.
LEMMA NextNoSelf ==
  halfSpread > 0 /\ MakerIInv /\ NoSelf /\ [MakerNext]_makerVars => NoSelf'
<1> SUFFICES ASSUME halfSpread > 0, MakerIInv, NoSelf, [MakerNext]_makerVars PROVE NoSelf'
  OBVIOUS
<1>1. BothInv /\ MakerInv
  BY StepEngine DEF MakerIInv
<1>2. startingId \in Nat /\ 0 < startingId /\ quote \in [Side -> [id : Nat, px : Int]]
  BY <1>1, ParameterTypes DEF MakerInv, Tracked
<1>3. trade' \in {trade, NoTrade} => NoSelfTrade'
  BY <1>2 DEF NoSelf, NoSelfTrade, NoTrade, Own
<1>4. ASSUME Begins PROVE NoSelf'
  <2>1. BeginTick /\ trade' \in {trade, NoTrade} /\ (taker' = null \/ order'[taker'].id = simId)
    BY <1>1, <1>4, BeginEffect
  <2>2. todo' = <<>> /\ DOMAIN todo' = {}
    BY <2>1 DEF BeginTick, Idle
  <2>3. ~Own(simId)
    <3>1. simId \in 1 .. 2 * seedDepthLevels + 1 + tick /\ tick \in 0 .. numTicks /\ tick < numTicks
      BY <1>1, <2>1 DEF MakerInv, Counters, BeginTick
    <3> QED BY <3>1, ParameterTypes DEF Own
  <2>4. Apart'
    BY <2>1, <2>2, <2>3 DEF Apart, OwnInFlight
  <2> QED BY <1>3, <2>1, <2>4 DEF NoSelf
<1>5. ASSUME OnTick PROVE NoSelf'
  <2>1. PICK p, mid : Asks(p, mid)
    BY <1>1, <1>5, OnTickAsks
  <2>2. taker' = null /\ trade' = trade /\ quote' = quote
    BY <2>1 DEF Asks, Idle, vars
  <2>3. Apart'
    BY <1>2, <2>1, <2>2, MadeApart DEF Asks
  <2> QED BY <1>3, <2>2, <2>3 DEF NoSelf
<1>6. ASSUME CancelQuote PROVE NoSelf'
  BY <1>1, <1>6, CancelApart
<1>7. ASSUME PlaceOrder PROVE NoSelf'
  <2>1. Quotes(todo[1]) \/ Seeds(todo[1])
    BY <1>1, <1>7, PlacedOrder DEF PlaceOrder, MakerInv
  <2> QED BY <1>1, <1>7, <2>1, QuoteApart, SeedApart
<1>8. ASSUME Process PROVE NoSelf'
  <2>1. (FillMaker \/ FillTaker) \/ Finish
    BY <1>8 DEF Process, Sweep
  <2> QED BY <1>1, <1>8, <2>1, PassApart, FinishApart
<1>9. ASSUME Shutdown PROVE NoSelf'
  <2>1. taker' = null /\ trade' = trade /\ quote' = quote
        /\ todo' = CancelCalls(CancelQuotes(Side))
    BY <1>9 DEF Shutdown, Idle, vars, ownVars
  <2>2. \A k \in DOMAIN todo' : ~Quotes(todo'[k])
    BY <1>2, <2>1, Withdrawal DEF Elements, Cancels, Quotes
  <2>3. Apart'
    BY <2>1, <2>2 DEF Apart, OwnInFlight
  <2> QED BY <1>3, <2>1, <2>3 DEF NoSelf
<1>10. ASSUME Stopped \/ UNCHANGED makerVars PROVE NoSelf'
  <2>1. UNCHANGED <<order, taker, trade, quote, todo>>
    BY <1>10 DEF Stopped, makerVars, vars, ownVars
  <2> QED BY <2>1 DEF NoSelf, NoSelfTrade, Apart, OwnInFlight, Dropping
<1>11. MakerNext => Begins \/ OnTick \/ CancelQuote \/ PlaceOrder \/ Process \/ Shutdown \/ Stopped
  BY DEF MakerNext, Begins, SimulatedLimit, SimulatedMarket, SimulatedCancel
<1> QED BY <1>4, <1>5, <1>6, <1>7, <1>8, <1>9, <1>10, <1>11

\* Of a book that is being seeded nothing is the maker's.
LEMMA InitNoSelf == MakerInit => NoSelf
<1> SUFFICES ASSUME MakerInit PROVE NoSelf
  OBVIOUS
<1>1. taker = null /\ trade = NoTrade /\ todo = SeedCalls
  BY DEF MakerInit, Init
<1>2. MakerInv
  BY InitMakerInv
<1>3. \A k \in DOMAIN todo : ~Quotes(todo[k])
  <2>1. \A k \in DOMAIN todo : Seeds(todo[k])
    <3>1. PricesFit(Top) /\ Top \in Nat
      BY <1>2, CeilingFits DEF MakerInv
    <3>2. DOMAIN SeedCalls = 1 .. 2 * seedDepthLevels
      BY DEF SeedCalls
    <3> QED BY <1>1, <3>1, <3>2, SeedsFit
  <2> QED BY <2>1 DEF Seeds, Quotes
<1>4. Apart
  BY <1>1, <1>3 DEF Apart, OwnInFlight
<1>5. NoSelfTrade
  BY <1>1, ParameterTypes DEF NoSelfTrade, NoTrade, Own
<1> QED BY <1>4, <1>5 DEF NoSelf

\* A maker whose quotes are apart by a spread never trades with itself, be it
\* with the other quote or with one of an earlier tick (property NoSelfTrade).
THEOREM NeverTradesWithItself == halfSpread > 0 => (MakerSpec => []NoSelfTrade)
<1> SUFFICES ASSUME halfSpread > 0 PROVE MakerSpec => []NoSelfTrade
  OBVIOUS
<1>1. MakerIInv /\ NoSelf /\ [MakerNext]_makerVars => NoSelf'
  BY NextNoSelf
<1>2. NoSelf => NoSelfTrade
  BY DEF NoSelf
<1> QED BY <1>1, <1>2, InitNoSelf, MakerInvariance, PTL DEF MakerSpec
==============================================================================
