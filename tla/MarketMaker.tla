----------------------------- MODULE MarketMaker -----------------------------
(***************************************************************************)
(* The market maker of src/strategy/Marketmaker.h, run by the simulator of *)
(* apps/Simulator.cpp against the order book.  Each tick the simulator      *)
(* generates one order or cancel, then calls onTick, which looks for the   *)
(* maker's fills in the trades of the tick and quotes anew.                *)
(*                                                                         *)
(* All of this is one thread.  The calls a function still has to make of   *)
(* the book are kept in `todo`, so that each is a step of OrderBook.       *)
(***************************************************************************)
EXTENDS OrderBook

CONSTANTS
  halfSpread, quoteSize, maxPosition, skewPerUnit, maxLoss,   \* MarketMakerConfig
  startingId,            \* the maker's ids are from here on
  seedDepthLevels, seedQtyPerLevel, seedTickSize, startPrice, numTicks,   \* SimConfig
  SimPrice, SimQuantity  \* what the random walk and the distributions yield

ASSUME MakerAssumption ==
  /\ {halfSpread, quoteSize, maxPosition, skewPerUnit, maxLoss} \subseteq Nat
  /\ startingId \in Nat

\* How far a quote can be from the midpoint.
Reach == halfSpread + maxPosition * skewPerUnit

\* Ids are counted up, those of the maker from beyond the simulator's; ids,
\* sizes and prices, even if every tick moves the market by a quote's reach, are
\* numbers that their types hold.
ASSUME SimulatorAssumption ==
  /\ ~ReuseIds
  /\ {seedDepthLevels, seedTickSize, startPrice, numTicks} \subseteq Nat
  /\ 2 * seedDepthLevels + numTicks < startingId
  /\ 1 .. startingId + 2 * numTicks \subseteq OrderId
  /\ {seedQtyPerLevel} \cup SimQuantity \cup 1 .. quoteSize \subseteq Quantity
  /\ \E top \in Price :
        /\ 0 .. top + numTicks * Reach \subseteq Price
        /\ SimPrice \subseteq 1 .. top
        /\ startPrice - seedDepthLevels * seedTickSize > 0
        /\ startPrice + seedDepthLevels * seedTickSize <= top

VARIABLES
  phase,      \* where Simulator::run is: "order", "tick" or "stopped"
  tick,
  todo,       \* calls of the book still to be made
  tradeLog,   \* the trades since tradeLogBefore
  simId,      \* Simulator::nextOrderId
  nextOrderId,
  account,    \* netPosition; realizedPnl and avgEntryPrice in 1/unit
  killed,
  quote,      \* side -> currentBidId and currentBidPx, or those of the ask
  position,   \* GHOST: what the maker really bought less what it sold
  crossing,   \* GHOST: the part of it traded within placeQuote
  skipped,    \* GHOST: the part traded in ticks that onTick returned from early
  cash        \* GHOST: what the fills that were counted brought in

simVars == <<phase, tick, simId>>
ownVars == <<nextOrderId, account, killed, quote>>
ghostVars == <<position, crossing, skipped, cash>>
makerVars == <<vars, simVars, todo, tradeLog, ownVars, ghostVars>>

Own(i) == i >= startingId
NoQuote == [id |-> 0, px |-> 0]

\* Calls of processOrder for a limit order (id 0: the maker's next) and of
\* cancelOrder.
ProcessCall(i, p, q, s) == [call |-> "process", id |-> i, price |-> p, qty |-> q, side |-> s]
CancelCall(i, s) == [call |-> "cancel", id |-> i, side |-> s]

\* Change of position by a trade, as the trade log has it.
Change(t) == (IF Own(t.buyOrderId) THEN t.quantity ELSE 0)
             - (IF Own(t.sellOrderId) THEN t.quantity ELSE 0)

Abs(n) == IF n < 0 THEN -n ELSE n
Least(m, n) == IF m < n THEN m ELSE n
Quotient(n, d) == IF n < 0 THEN -((-n) \div d) ELSE n \div d

-----------------------------------------------------------------------------
\* seedBook
SeedCalls ==
  [k \in 1 .. 2 * seedDepthLevels |->
     LET i == (k + 1) \div 2
     IN IF k % 2 = 1
        THEN ProcessCall(k, startPrice - i * seedTickSize, seedQtyPerLevel, "BUY")
        ELSE ProcessCall(k, startPrice + i * seedTickSize, seedQtyPerLevel, "SELL")]

MakerInit ==
  /\ Init
  /\ phase = "order" /\ tick = 0
  /\ todo = SeedCalls
  /\ tradeLog = <<>>
  /\ simId = 2 * seedDepthLevels + 1
  /\ nextOrderId = startingId
  /\ account = [position |-> 0, realized |-> 0, avgEntry |-> 0, unit |-> 1]
  /\ killed = FALSE
  /\ quote = [s \in Side |-> NoQuote]
  /\ position = 0 /\ crossing = 0 /\ skipped = 0 /\ cash = 0

\* The average cost of both: amounts are fractions, exact where the code rounds.
Averaged(a, change, px) ==
  LET new == a.position + change
  IN [position |-> new,
      realized |-> a.realized * Abs(new),
      avgEntry |-> a.avgEntry * Abs(a.position) + a.unit * px * Abs(change),
      unit |-> a.unit * Abs(new)]

\* What a reduction realizes.
Realized(a, change, px) ==
  LET closed == Least(Abs(change), Abs(a.position))
  IN a.realized + closed * (IF a.position > 0 THEN a.unit * px - a.avgEntry
                                              ELSE a.avgEntry - a.unit * px)

\* The old average survives a change of sign.
BugUpdatePosition(a, change, px) ==
  LET new == a.position + change
  IN IF a.position * change >= 0 THEN Averaged(a, change, px)
     ELSE [a EXCEPT !.position = new, !.realized = Realized(a, change, px),
                    !.avgEntry = IF new = 0 THEN 0 ELSE a.avgEntry]

\* updatePosition
UpdatePosition(a, change, px) ==
  LET new == a.position + change
  IN IF a.position = 0
     THEN [a EXCEPT !.position = change, !.avgEntry = a.unit * px]
     ELSE IF a.position * change > 0 THEN Averaged(a, change, px)
     ELSE [a EXCEPT !.position = new, !.realized = Realized(a, change, px),
                    !.avgEntry = IF new = 0 THEN 0
                                 ELSE IF a.position * new < 0 THEN a.unit * px
                                 ELSE a.avgEntry]

\* A trade is the maker's if it names a current quote.
CountFill(a, t) ==
  LET bought == IF t.buyOrderId = quote["BUY"].id
                THEN UpdatePosition(a, t.quantity, t.price) ELSE a
  IN IF t.sellOrderId = quote["SELL"].id
     THEN UpdatePosition(bought, -t.quantity, t.price) ELSE bought

\* processFills, after each trade of the tick.
ProcessFills(a) ==
  LET after[k \in 0 .. Len(tradeLog)] ==
        IF k = 0 THEN a ELSE CountFill(after[k - 1], tradeLog[k])
  IN after[Len(tradeLog)]

\* computeUnrealizedPnl
Unrealized(a, mid) == a.position * (a.unit * mid - a.avgEntry)

\* Only a quote that will be replaced is cancelled.
BugCancelQuotes(changed) == {s \in changed : quote[s].id # 0}

\* cancelExistingQuotes cancels both, whichever of them changed.
CancelQuotes(changed) == {s \in Side : quote[s].id # 0}

\* An else too many.
BugCancelCalls(sides) ==
  IF "BUY" \in sides THEN <<CancelCall(quote["BUY"].id, "BUY")>>
  ELSE IF "SELL" \in sides THEN <<CancelCall(quote["SELL"].id, "SELL")>> ELSE <<>>

CancelCalls(sides) ==
  LET one(s) == IF s \in sides THEN <<CancelCall(quote[s].id, s)>> ELSE <<>>
  IN one("BUY") \o one("SELL")

\* The size is not cut to the room that is left.
BugRoom(p, s) == quoteSize

\* The position limit: what may still be bought or sold.
Room(p, s) == Least(quoteSize, IF s = "BUY" THEN maxPosition - p ELSE maxPosition + p)

\* Steps 3 to 5 of onTick.
Requote(p, mid) ==
  LET px == [s \in Side |-> IF s = "BUY" THEN mid - halfSpread - p * skewPerUnit
                                         ELSE mid + halfSpread - p * skewPerUnit]
      size == [s \in Side |-> Room(p, s)]
      changed == {s \in Side : px[s] # quote[s].px \/ (size[s] <= 0 /\ quote[s].id # 0)}
      place(s) == IF px[s] > 0 /\ size[s] > 0
                  THEN <<ProcessCall(0, px[s], size[s], s)>> ELSE <<>>
  IN IF changed = {} THEN <<>>
     ELSE CancelCalls(CancelQuotes(changed)) \o place("BUY") \o place("SELL")

-----------------------------------------------------------------------------
Idle == taker = null /\ todo = <<>>

\* tradeLogBefore is not moved on.
BugBeginTick ==
  /\ Idle
  /\ phase = "order" /\ tick < numTicks /\ ~killed
  /\ tick' = tick + 1
  /\ phase' = "tick"
  /\ UNCHANGED <<todo, tradeLog, ownVars, ghostVars>>

\* Simulator::run, one tick: generateOrder, of one of four kinds.
BeginTick ==
  /\ Idle
  /\ phase = "order" /\ tick < numTicks /\ ~killed
  /\ tick' = tick + 1
  /\ phase' = "tick"
  /\ tradeLog' = <<>>
  /\ UNCHANGED <<todo, ownVars, ghostVars>>

GenerateLimitOrder(p, q, s) ==
  /\ BeginTick
  /\ Submit(simId, p, q, s, FALSE)
  /\ simId' = simId + 1

GenerateMarketOrder(q, s) ==
  /\ BeginTick
  /\ Submit(simId, 0, q, s, TRUE)
  /\ simId' = simId + 1

GenerateCancel(i) ==
  /\ BeginTick
  /\ ~Own(i)
  /\ CancelOrder(i)
  /\ UNCHANGED simId

\* A quiet tick, or the cancel of an order that is gone.
GenerateNothing == BeginTick /\ UNCHANGED <<vars, simId>>

\* onTick returns when a side of the book is empty.
OnTickEarly ==
  /\ skipped' = skipped + MapThenSumSet(LAMBDA k : Change(tradeLog[k]), DOMAIN tradeLog)
  /\ UNCHANGED <<account, killed, todo, cash>>

\* onTick
OnTick ==
  /\ Idle
  /\ phase = "tick"
  /\ LET top == TopOfBook(book)
         mid == Quotient(top.bid + top.ask, 2)
         a == ProcessFills(account)
         kill == ~killed /\ a.realized + Unrealized(a, mid) < -(a.unit * maxLoss)
     IN IF top.bid = NoPrice \/ top.ask = NoPrice THEN OnTickEarly
        ELSE /\ account' = a
             /\ killed' = (killed \/ kill)
             /\ todo' = IF kill THEN CancelCalls(CancelQuotes(Side))
                        ELSE IF killed THEN <<>> ELSE Requote(a.position, mid)
             /\ cash' = cash - MapThenSumSet(
                  LAMBDA k : Change(tradeLog[k]) * tradeLog[k].price, DOMAIN tradeLog)
             /\ UNCHANGED skipped
  /\ phase' = "order"
  /\ UNCHANGED <<vars, tick, simId, tradeLog, nextOrderId, quote, position, crossing>>

\* The calls of cancelExistingQuotes
CancelQuote ==
  /\ taker = null /\ todo # <<>> /\ Head(todo).call = "cancel"
  /\ LET c == Head(todo)
     IN /\ IF c.id \in DOMAIN orderMap THEN CancelOrder(c.id) ELSE UNCHANGED vars
        /\ quote' = [quote EXCEPT ![c.side] = NoQuote]
  /\ todo' = Tail(todo)
  /\ UNCHANGED <<simVars, tradeLog, nextOrderId, account, killed, ghostVars>>

\* and of seedBook and placeQuote,
PlaceOrder ==
  /\ taker = null /\ todo # <<>> /\ Head(todo).call = "process"
  /\ LET c == Head(todo)
         own == c.id = 0
     IN /\ Submit(IF own THEN nextOrderId ELSE c.id, c.price, c.qty, c.side, FALSE)
        /\ nextOrderId' = IF own THEN nextOrderId + 1 ELSE nextOrderId
  /\ todo' = Tail(todo)
  /\ UNCHANGED <<simVars, tradeLog, account, killed, quote, ghostVars>>

\* processOrder going on.  placeQuote notes the quote when it has returned.
Process ==
  /\ Sweep
  /\ tradeLog' = IF trade' = NoTrade THEN tradeLog ELSE Append(tradeLog, trade')
  /\ quote' = IF taker' = null /\ Own(order[taker].id)
              THEN [quote EXCEPT ![order[taker].side] =
                      [id |-> order[taker].id, px |-> order[taker].price]]
              ELSE quote
  /\ position' = position + Change(trade')
  /\ crossing' = crossing + (IF Own(order[taker].id) THEN Change(trade') ELSE 0)
  /\ UNCHANGED <<simVars, todo, nextOrderId, account, killed, skipped, cash>>

\* The run ends after its last tick, or when the maker was killed: shutdown.
Shutdown ==
  /\ Idle
  /\ phase = "order" /\ (tick = numTicks \/ killed)
  /\ phase' = "stopped"
  /\ todo' = CancelCalls(CancelQuotes(Side))
  /\ UNCHANGED <<vars, tick, simId, tradeLog, ownVars, ghostVars>>

Stopped == Idle /\ phase = "stopped" /\ UNCHANGED makerVars

MakerNext ==
  \/ \E p \in SimPrice, q \in SimQuantity, s \in Side : GenerateLimitOrder(p, q, s)
  \/ \E q \in SimQuantity, s \in Side : GenerateMarketOrder(q, s)
  \/ \E i \in DOMAIN orderMap : GenerateCancel(i)
  \/ GenerateNothing
  \/ OnTick
  \/ CancelQuote
  \/ PlaceOrder
  \/ Process
  \/ Shutdown
  \/ Stopped

MakerSpec == MakerInit /\ [][MakerNext]_makerVars

-----------------------------------------------------------------------------
OwnResting == {o \in Queued(book) : Own(order[o].id)}

\* Between two calls of the book the maker knows each of its orders in the book
\* by the id under which it would cancel it: no quote is ever left behind.
OwnQuotesTracked ==
  taker = null => \A o \in OwnResting : order[o].id = quote[order[o].side].id

\* After the kill switch, and after the run, nothing of the maker's can trade.
OutWhenStopped == Idle /\ (killed \/ phase = "stopped") => OwnResting = {}

\* The position the maker counts stays within its limit, although both quotes
\* rest at once, keep resting over many ticks and are filled in parts.
CountedWithinCap == Abs(account.position) <= maxPosition

\* There are two ways for a fill not to be counted: a quote that trades while it
\* is being placed, and a tick that leaves a side of the book empty.  Every
\* other fill is counted exactly once.
PositionAccounted ==
  Idle /\ phase # "tick" => position = account.position + crossing + skipped

\* The average-cost accounts agree with the cash the counted fills brought in,
\* through additions, reductions and changes of sign.
PnlMatchesCash ==
  account.realized = account.unit * cash + account.position * account.avgEntry

\* The two quotes never trade with each other, nor with an earlier quote.
NoSelfTrade == ~(Own(trade.buyOrderId) /\ Own(trade.sellOrderId))

\* The claim of the configuration, "hard cap on net position (long or short)",
\* for the position the maker really has.
HardCap == Abs(position) <= maxPosition
=============================================================================
