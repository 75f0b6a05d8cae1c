------------------------------- MODULE Gateway -------------------------------
(***************************************************************************)
(* The order entry gateway of src/gateway/OrderEntryGateway.h: one handler *)
(* per message type, the risk engine in front of the matching engine.  It  *)
(* runs on the matching thread: a handler that calls processOrder returns  *)
(* when the sweep has ended, so that no message is handled before.         *)
(***************************************************************************)
EXTENDS OrderBook

CONSTANTS
  maxOrderQty, maxNotional, collarBps, maxMsgsPerWindow, windowDuration,
  BasisPoints, HalfWord,
  MsgPrice, MsgQty,   \* what messages carry: int64_t, not yet cut to Quantity
  MaxNow,             \* BOUND: the last instant
  MaxCount            \* BOUND: messages counted in one window

VARIABLES
  windowMsgCount, windowStart,
  now,        \* high_resolution_clock, which does not step back
  accepted,   \* GHOST: the instants at which messages were accepted
  escaped     \* GHOST: ids named in an accepted message the limits missed

Risk == INSTANCE RiskEngine

gatewayVars == <<vars, windowMsgCount, windowStart,
                 now, accepted, escaped>>

ASSUME GatewayAssumption ==
  /\ windowDuration \in Nat /\ MaxNow \in Nat
  /\ BasisPoints \in Nat \ {0} /\ HalfWord \in Nat \ {0}
  /\ MsgPrice \subseteq Price
  /\ MsgQty \subseteq Int /\ \A q \in MsgQty : q % QtyMod \in Quantity
  /\ maxOrderQty \in Int /\ maxNotional \in Int /\ maxMsgsPerWindow \in Nat

GatewayInit ==
  /\ Init
  /\ Risk!RiskInit
  /\ now = windowDuration    \* long after windowStart
  /\ accepted = <<>>
  /\ escaped = {}

\* What the risk checks read of a message.
Terms == [isMarket : BOOLEAN, price : MsgPrice, qty : MsgQty]

\* Every check misses a quantity that is cut to 32 bits after it was read, and
\* a product that wraps.
Misread(msg) == msg.qty >= QtyMod \/ msg.price * msg.qty >= HalfWord

\* Both handlers begin with updateBBO and checkOrder.  The messages that get as
\* far as the rate limiter, which GatewayNext hands to the actions below:
Sound ==
  LET top == TopOfBook(book)
  IN {msg \in Terms : Risk!Sound(msg, top.bid, top.ask)}

Limiter ==
  /\ taker = null
  /\ Risk!RateLimit(now)
  /\ windowMsgCount' <= MaxCount
  /\ UNCHANGED now

Accept ==
  /\ Limiter
  /\ Risk!Passed
  /\ accepted' = Append(accepted, now)

\* A handler returns on any reason but NONE: without a trace,
RejectUncounted == taker = null /\ Sound # Terms /\ UNCHANGED gatewayVars

\* or counted by the limiter that rejects the message.
Reject ==
  /\ Sound # {}
  /\ Limiter
  /\ ~Risk!Passed
  /\ UNCHANGED <<vars, accepted, escaped>>

\* The message names an order i.
Note(i, missed) == escaped' = IF missed THEN escaped \cup {i} ELSE escaped

\* handleNewOrderSingle; acquire cuts the quantity to 32 bits.
NewOrderSingle(i, s, msg) ==
  /\ Accept
  /\ Note(i, Misread(msg))
  /\ Submit(i, msg.price, msg.qty % QtyMod, s, msg.isMarket)

\* handleCancelReplace.  A replacement that says it is a market order passes
\* without a look at its price, yet gives its price to the order.
CancelReplace(origId, i, msg) ==
  /\ origId \in DOMAIN orderMap
  /\ Accept
  /\ Note(i, Misread(msg) \/ msg.isMarket)
  /\ \/ ReduceOrder(origId, i, msg.price, msg.qty % QtyMod)
     \/ ReplaceOrder(origId, i, msg.price, msg.qty % QtyMod)

\* The same for an order that is gone: it counts as a message, and no more.
CancelReplaceGone ==
  /\ Sound # {} /\ OrderId \ DOMAIN orderMap # {}
  /\ Accept
  /\ UNCHANGED <<vars, escaped>>

\* handleCancelRequest bypasses the risk engine.
CancelRequest(i) ==
  /\ CancelOrder(i)
  /\ UNCHANGED <<windowMsgCount, windowStart,
                 now, accepted, escaped>>

\* processOrder, called by handleNewOrderSingle, goes on.
Process ==
  /\ Sweep
  /\ UNCHANGED <<windowMsgCount, windowStart,
                 now, accepted, escaped>>

Tick ==
  /\ taker = null
  /\ now < MaxNow
  /\ now' = now + 1
  /\ UNCHANGED <<vars, windowMsgCount, windowStart, accepted, escaped>>

GatewayNext ==
  \/ \E msg \in Sound :
       \/ \E i \in OrderId, s \in Side : NewOrderSingle(i, s, msg)
       \/ \E origId, i \in OrderId : CancelReplace(origId, i, msg)
  \/ CancelReplaceGone
  \/ Reject
  \/ RejectUncounted
  \/ \E i \in OrderId : CancelRequest(i)
  \/ Process
  \/ Tick

GatewaySpec == GatewayInit /\ [][GatewayNext]_gatewayVars

-----------------------------------------------------------------------------
\* Whatever sequence of new orders, trades and replacements led to it, an order
\* that rests is within the limits on size and value, unless it is named by one
\* of the messages the limits miss.
RestingWithinLimits ==
  \A o \in Queued(book) : order[o].id \notin escaped =>
     /\ order[o].price > 0
     /\ order[o].quantity \in 1 .. maxOrderQty
     /\ order[o].price * order[o].quantity <= maxNotional

\* checkPriceCollar "prevents orders from executing at prices far from the
\* current market": until a message escapes, every trade of an incoming limit
\* order, deep in the book as it may be, is within the collar around the market
\* it arrived to, even in a book that replacements have crossed; but there the
\* midpoint, which is rounded down, may let it be off by the collar of one tick.
TradesInsideCollar ==
  [][trade' # NoTrade /\ ~order[taker].isMarket /\ escaped = {}
     => LET ref == Risk!RefPrice(before.bid, before.ask)
            rounding == IF Uncrossed(book) THEN 0 ELSE 1
            reach == (ref + rounding) * collarBps
        IN /\ (trade'.price - ref) * BasisPoints <= reach
           /\ (ref - trade'.price) * BasisPoints <= reach]_vars

\* The limiter's windows tumble, each starting with a message it counts: within
\* any stretch of one window's length fewer than twice the limit are accepted.
LessThanTwice ==
  \A first, last \in DOMAIN accepted :
     last = first + 2 * maxMsgsPerWindow - 1 => accepted[last] - accepted[first] >= windowDuration
=============================================================================
