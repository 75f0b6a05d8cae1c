----------------------------- MODULE RiskEngine ------------------------------
(***************************************************************************)
(* The pre-trade checks of src/risk/Riskengine.h.  Of a message they read  *)
(* isMarket (ordType is '1'), price and qty, both int64_t, as the parser   *)
(* delivers them.                                                          *)
(*                                                                         *)
(* The statistics (RiskStats, printReport) only count and are left out, as *)
(* is getConfig, which nothing calls to change a limit.  bestBid and       *)
(* bestAsk are no state here: each handler calls updateBBO just before     *)
(* checkOrder, so the checks have the top of the book as arguments.        *)
(***************************************************************************)
EXTENDS Integers

CONSTANTS
  maxOrderQty, maxNotional, collarBps,   \* RiskConfig
  maxMsgsPerWindow, windowDuration,
  BasisPoints,   \* 10000
  HalfWord,      \* 2^63: int64_t arithmetic wraps
  QtyMod         \* 2^32

VARIABLES windowMsgCount, windowStart

RiskInit == windowMsgCount = 0 /\ windowStart = 0

\* int64_t: two's complement, and division truncates.
Int64(n) == ((n + HalfWord) % (2 * HalfWord)) - HalfWord
Quotient(n, d) == IF n < 0 THEN -((-n) \div d) ELSE n \div d

-----------------------------------------------------------------------------
InvalidQuantity(msg) == msg.qty <= 0
InvalidPrice(msg) == ~msg.isMarket /\ msg.price <= 0

\* The cast to Quantity comes before the comparison.
FatFingerSize(msg) == msg.qty % QtyMod > maxOrderQty

\* The value of a single share is compared.
BugShareNotional(msg) == ~msg.isMarket /\ msg.price > maxNotional

FatFingerNotional(msg) == ~msg.isMarket /\ Int64(msg.price * msg.qty) > maxNotional

\* The midpoint, or the one price there is.
RefPrice(bid, ask) ==
  IF bid > 0 /\ ask > 0 THEN Quotient(Int64(bid + ask), 2)
  ELSE IF bid > 0 THEN bid ELSE ask

\* A bid above the reference or an ask below it cannot be too far.
BugOneSidedCollar(msg, bid, ask) ==
  LET ref == RefPrice(bid, ask)
  IN /\ ~msg.isMarket
     /\ bid > 0 \/ ask > 0
     /\ ref - msg.price > Quotient(Int64(ref * collarBps), BasisPoints)

PriceCollar(msg, bid, ask) ==
  LET ref == RefPrice(bid, ask)
  IN /\ ~msg.isMarket
     /\ bid > 0 \/ ask > 0
     /\ Int64(IF msg.price > ref THEN msg.price - ref ELSE ref - msg.price)
          > Quotient(Int64(ref * collarBps), BasisPoints)

\* checkOrder fails fast: only a message that passes the checks which come before
\* the rate limit is counted by it.
Sound(msg, bid, ask) ==
  /\ ~InvalidQuantity(msg) /\ ~InvalidPrice(msg)
  /\ ~FatFingerSize(msg) /\ ~FatFingerNotional(msg)
  /\ ~PriceCollar(msg, bid, ask)

\* A new window restarts the count but not the clock.
BugRateLimit(now) ==
  /\ windowMsgCount' = IF now - windowStart >= windowDuration
                       THEN 1 ELSE windowMsgCount + 1
  /\ UNCHANGED windowStart

\* checkRateLimit: the window after the last one starts with its first message.
RateLimit(now) ==
  IF now - windowStart >= windowDuration
  THEN windowStart' = now /\ windowMsgCount' = 1
  ELSE windowMsgCount' = windowMsgCount + 1 /\ UNCHANGED windowStart

\* checkOrder returns NONE to a message that has passed the other checks.
Passed == windowMsgCount' <= maxMsgsPerWindow
=============================================================================
