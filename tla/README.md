# LOB-CITY: a TLA+ model of the order book engine

LOB-CITY is an exchange emulator in C++: FIX messages come in over TCP, are
checked against risk limits, matched in a limit order book, and the best prices
go out over UDP. This directory holds TLA+ modules that model the engine, TLC
configurations that check them on small instances, and theorems about them that
TLAPS proves for every value of the constants. Paths below are relative to the
repository.

## 1. The system

Three threads, each busy-waiting on its own core, connected by two rings:

    network thread --orderQueue--> matching thread --BBO ring--> publisher thread
    (runTCPServer)                 (runMatchingEngine)           (DisplayBBO)

Inside the matching thread everything is a plain call: the gateway asks the risk
engine, acquires an order from the pool and hands it to the book; the book
matches, releases orders to the pool and pushes a message to the BBO ring.

| Component | Code | State | Operations |
|---|---|---|---|
| Matching engine | `src/core/OrderBook.{h,cpp}` | `bids`, `asks`, `orderMap`, `tradeLog` | `processOrder`, `cancelOrder`, `modifyOrder`, `publishBBO` |
| Order pool | `src/core/MemoryPool.h` | `freeList`, `allAllocated` | `acquire`, `release` |
| Price levels | `src/core/types.h` | `head`, `tail`, `next`, `prev`, `totalVolume` | `appendOrder`, `removeOrder` |
| Rings | `src/core/RingBuffer.h`, `src/marketdata/RingBufferBBO.h` | `buffer`, `head`, `tail` | `push`, `pop` |
| Threads, TCP ingress | `apps/main.cpp` | `accumulator`, the rings | read and frame, spin on push, pop and dispatch |
| Gateway | `src/gateway/OrderEntryGateway.h` | none of its own | the handlers for D, F and G messages |
| Risk engine | `src/risk/Riskengine.h` | best prices, message count, window start, statistics | `checkOrder`, `updateBBO` |
| FIX parser | `src/gateway/FixParser.{h,cpp}` | none | `parseFixMessage`, `parseFastInt`, `parseFastDecimal` |
| Market maker, simulator | `src/strategy/Marketmaker.h`, `apps/Simulator.cpp` | position, live quote ids, kill flag | `onTick`, `shutdown`, synthetic flow |
| Publisher | `src/marketdata/UdpPublisher.h` | a socket | `publishBbo` |
| Latency tracker | `src/core/LatencyTracker.h` | samples | `record`, `printReport` |

What makes each of them correct, and what is hard about it:

* *Matching engine.* Price-time priority; the maps, the id index, the levels'
  volumes and the published quotes describe the same book after any sequence of
  calls. Hard: a sweep changes five structures per trade, orders leave through
  four paths, ids are erased by the maker's id, and clients may reuse ids.
* *Pool and levels.* Orders are recycled with raw pointers. Hard: one missing or
  doubled release, or one pointer left behind by an earlier level, and two
  levels share an order; the match loop walks a list that it takes apart.
* *Rings.* The only shared memory between threads. Hard: item copies are not
  atomic and each side decides from an index that may be stale.
* *Threads, parser.* Every message of the stream comes out once, in order, with
  its own numbers. Hard: TCP cuts anywhere, the end of a message is a text that may
  occur inside one, and the ids of a queued message are views into a buffer that
  the network thread goes on editing.
* *Gateway, risk engine.* No order outside the limits reaches the book or stays
  there. Hard: integer widths, the window boundary, the message type that skips
  checks, and orders that trade, shrink and move after they were checked.
* *Publisher.* Subscribers learn the top of the book. Hard: a full ring and the
  network both drop snapshots, and nobody notices.
* *Market maker.* Its quotes, its position, its losses. Hard: fills are looked for
  in a part of the trade log that can miss some, quotes rest and are filled in
  parts, and a cancel may come after the fill.

`PROJECT.json` lists every such hazard at the line where it bites, with the
properties that cover it or the reason why none does.

## 2. Modules

| Module | What it is |
|---|---|
| `OrderBook` | the matching engine and the order pool |
| `PriceTimeBook` | what a price-time book promises to clients, without pool, index or levels |
| `ClientView` | which id stands for which order: the refinement mapping from `OrderBook` to `PriceTimeBook`, and `RestingIndexed` |
| `MCOrderBook` | TLC instances of `ClientView`, and a property of the documentation |
| `LevelList` | the pointers of the intrusive lists, and the match loops' walk |
| `MCLevelList` | its TLC instance |
| `BoundedFifo` | what a ring promises: a bounded first-in, first-out queue |
| `SpscRing` | the two rings, one access to shared memory at a time |
| `MCSpscRing` | its TLC instances |
| `Queues` | an order's place in a queue, the queue without it, and who is in front of whom |
| `RiskEngine` | the pre-trade checks and the rate limiter |
| `Gateway`, `MCGateway` | the three message handlers: `RiskEngine` in front of `OrderBook` |
| `BboFeed`, `MCBboFeed` | `OrderBook`'s publications through ring and network to a subscriber |
| `FixParser` | `parseFixMessage` and its number parsers, with reference definitions |
| `NetworkIngress`, `MCNetworkIngress` | the network thread, `orderQueue` and the matching thread's loop, with `FixParser` |
| `MarketMaker`, `MCMarketMaker` | the market maker and the simulator's loop on `OrderBook` |
| `Queues_proofs`, `OrderBook_proofs`, `OrderBookClients_proofs`, `LevelList_proofs`, `SpscRing_proofs`, `GatewayAndFeed_proofs`, `NetworkIngress_proofs`, `MarketMaker_proofs` | theorems |

`OrderBook` is the core: `Gateway`, `BboFeed` and `MarketMaker` extend it, each
action of theirs being one of its actions with what the caller does around it.
`SpscRing` justifies the queues that stand for rings in `BboFeed` and
`NetworkIngress`, `LevelList` the sequences in `OrderBook`.

A definition named `Bug...` stands before the definition it spoils and is used
by no specification: with it in place of that definition TLC must find a
property violated, which shows that the property depends on the code it is about.

### OrderBook

`order` is `allAllocated`, so an order's address is its index; `freeList` is a
stack acquired from the back; `orderMap` maps ids to addresses; `book[side]` maps
the prices that have a node in the `std::map` to a level, which is a sequence of
addresses and a `totalVolume`. A sequence stands for the pointers of the level;
`LevelList` is about the pointers. `bbo` keeps the prices of the last message.

`cancelOrder` and the two cases of `modifyOrder` are one action each
(`CancelOrder`, `ReduceOrder`, `ReplaceOrder`), trailing publication included.
`processOrder` is cut at its trades so that the properties see every state of a
sweep: `Submit` (acquire, snapshot of the top of the book), a `FillMaker` or
`FillTaker` per trade, `Finish` (rest or release, compare, publish). Both match
loops are one pair of actions, as they differ only in side and comparator.

Abstracted: quantities in the messages, time stamps and everything that only
prints. `tradeLog` is reduced to the trade the last step appended. A released
order's old contents are forgotten (`Blank`), since `acquire` overwrites every
field. An order is acquired and processed in one go, as the gateway, the
simulator and the market maker do; `runBenchmark` in `apps/tests.cpp`, which
acquires a thousand orders first, is outside the model. A cancel or replacement
for an unknown id, which returns at once, is a stutter. Quantities are modular
(`QtyMod` is 2^32) and zero is among them: FIX quantities are 64-bit, and 2^32
arrives as 0.

### LevelList

`mem` holds the four pointer fields. `AppendOrder` and `RemoveOrder` are the code
of `types.h`, statement by statement; the actions are the sequences of calls the
book makes: append after `acquire`'s reset, unlink and release, unlink and append
elsewhere, and the match loop with its cursor. `queue` is a ghost variable with
the sequences `OrderBook` uses; it says which calls are legal, and those are what
`OrderBook`'s `PoolExact` and `LevelsFiled` guarantee. A level erased from its
map gives way to a fresh one, which in this module is an empty level with both
pointers null.

### SpscRing

One action per load, store and word copied. The producer's and the consumer's own
index is not loaded in a step of its own, since nobody else writes it. A load of
the other side's index returns any value that index has had since the last such
load (`Visible`): that is what coherence of an atomic guarantees, and no more.
What release and acquire add, that the words written before a store of an index
are seen after a load of it, is modelled by taking the copies as sequentially
consistent, which is justified by `NoSharedSlot`: no two threads ever touch the
same slot without such a store and load between them. `Spins` tells the two
producers apart: the network thread retries until its push succeeds,
`publishBBO` ignores that it failed.

### RiskEngine and Gateway

`RiskEngine` is an operator per check. `checkOrder` fails fast: only a message that
passes the other checks (`Sound`) is counted by the rate limiter (`RateLimit`), whose
window is the state. `Int64` wraps, `QtyMod` cuts the quantity before it is compared, as
the cast in the code does. `bestBid` and `bestAsk` are arguments, since each handler
calls `updateBBO` just before. `RiskStats` only counts and is left out, as is
`getConfig`, which nobody calls.

`Gateway` has an action per handler. `NewOrderSingle` and `CancelReplace` (and
`CancelReplaceGone`, for an order that is no longer there) are what becomes of a
message that is accepted; `Reject` and `RejectUncounted` what becomes of one the
limiter, or an earlier check, rejects. `CancelRequest` asks nobody. Only
`handleNewOrderSingle` starts a sweep; no other message is handled before `Process`
has ended it. `now` is the clock, which the model lets stand still between messages
but never step back. Two ghost variables: `accepted` holds the instants
at which messages passed, and `escaped` holds the ids of messages that pass though the numbers the
checks saw are not those the book gets: a quantity from 2^32 on, a product from 2^63
on, a replacement of order type market. The properties are about all others, so
they say how far the limits go and that there is no fourth way around them.

### BboFeed

Each action of `OrderBook` with the publication it ends in, a ring of `Slots`
entries that refuses a snapshot when it looks full, and a publisher whose datagram
arrives (`Deliver`) or not (`Lose`). The engine may not see yet that slots were freed:
`unseen` is how far behind the tail that it loads may be, so a ring with room can
refuse too. A snapshot is its two prices: the quantities in `BboMessage` are left out.
`lost` is a ghost variable: will the newest snapshot never arrive? Of the network it is
*assumed* that datagrams arrive in order and at most once. UDP promises neither; an
older snapshot that came last would leave a subscriber wrong, who can only tell from
the timestamp in it.

### FixParser and NetworkIngress

A message is a sequence of cells, alternately the text of a tag up to `=` and that
of a value up to SOH; fields without `=` are left out. A value is a sequence of
characters, each written as its distance from '0', which is what the two number
parsers add up; a minus sign counts as the digit -3 in the code and so it does
here. A tag is a text as well, of any characters but `=`: `TagOf` reads it with
`ParseFastInt` and narrows the result to `int` (`HalfInt` is 2^31), as the code does,
so 4294967334 is the tag 38. `ParseFastInt`, `ParseFastDecimal` and `ParseFixMessage` go from left to right as
the loops do, each step taking the state the step before left. `IntValue`,
`DecimalValue`, `MeantTerms` and `MeantIds` say what the text or message means without
going through it: a sum of digits times powers of ten, and the last field that counts,
found by the text of its tag. They agree with the parser for messages none of whose tags is
read as another (`Unmistaken`).

`NetworkIngress` is the loop of `runTCPServer` with a program counter: `Read` takes
any number of cells the client sent, `Frame` finds the end of a message as the code
does (the first `10=`, wherever it is), parses, `Push` waits for room, `Erase` moves
the rest to the front. `memory` keeps erased bytes, because the ids of a queued
message point there: `Ids` is what the matching thread reads by the time it handles
the message. `Read`, `Erase` and `Handle` are atomic, so the data race on single
bytes is not modelled, only what is read between two such steps. The accumulator
is never reallocated within the 65536 bytes it reserves. A client sends fields of a tag
and a value, and may hang up anywhere (`MessageAssumption`). `hasty` is a ghost
variable: did a client send on, or hang up, before its call was handled?

`Messages` is the reference, what the stream means and not what the server makes of it:
a message ends with the field whose tag is 10, as the clients in `scripts/` write it.
The code looks for the text `10=` instead, and cuts a message also behind a field such as
`110=5` or one with `10=` in its value. So `Messages` numbers the calls too: each field in
which the text occurs makes the server call the engine once (`calls`), and the field
that ends a message makes the call that should handle it (`call`). The properties
except, by name, the messages that the code gets wrong, those that are not `Plain`:
the text occurs before the last field (`OneEnd`), or a tag is read as another
(`Unmistaken`). Both are findings. What is checked is that nothing else goes wrong: every
plain message is handled as sent, also behind and between such messages.

### MarketMaker

The simulator's loop: seed the book, then per tick one random order or cancel and
one `onTick`. All of it is one thread; the calls of the book a function still has to
make are in `todo`, so that each remains a step of `OrderBook`. Random draws
are nondeterministic choices. `tradeLog` holds the trades since `tradeLogBefore`.
Money is exact where the code has `double`: the amounts of `account` are fractions with
the common denominator `unit`, which grows when an average is taken. Ghosts: the
`position` really held, the parts of it traded inside `placeQuote` (`crossing`) and
in ticks that `onTick` left early (`skipped`), and the `cash` of the counted fills.
History, reports and the CSV export are left out.

## 3. What TLC checks

| Run | Instance | Shows |
|---|---|---|
| `book` | 2 ids, freely reused; prices 1 and 2; quantities 0 to 2, modulo 4; a pool of 2 and one order more from the heap | types, `PoolExact`, `LevelsFiled`, `IndexSound`, `VolumeMatches`, `BboCurrent`, `OnlyReplaceCrosses`, `TimePriority`, `SweepProgresses` |
| `unique` | 3 ids, none reused while it rests; quantities 1 and 2; with fairness | `RestingIndexed`, `SweepEnds`; refinement of `PriceTimeBook` |
| `list` | 4 orders, 2 levels | `PointersMatchQueues`, `SweepInOrder` |
| `ring` | 3 slots, items of 2 words, 2 items, a spinning producer | no shared slot; refinement of `BoundedFifo`; every push returns, every item comes out |
| `bboring` | the same with a producer that gives up and a consumer that may stop | refinement of `BoundedFifo` with loss; the push returns |
| `gateway` | 3 ids and orders; prices 0 to 3; quantities 1, 3, 4, 5 modulo 5, at most 3; notional 3; a collar of half the reference; 2 messages per 2 instants of 3 | `RestingWithinLimits`, `TradesInsideCollar`, `LessThanTwice` |
| `feed` | 1 id; prices 1 and 2; quantities 0 and 1; 2 slots; with fairness | `CaughtUp`, `LastTopArrives` |
| `ingress` | 12 messages, up to 10 cells sent, 1 slot; 2 implied decimals; integers of 5000 and `int` of 128 to either side; with fairness | `TermsAsSent`, `IdsAsSent`, `AllHandled` |
| `maker` | 5 ticks, position limit 2, quotes of 2, loss limit 1, a book seeded 2 deep | `OwnQuotesTracked`, `OutWhenStopped`, `CountedWithinCap`, `PositionAccounted`, `PnlMatchesCash`, `NoSelfTrade` |
| `reused` | as `book` without quantity 0 | *violation* of `RestingIndexed` |
| `crossing` | as `unique` | *violation* of `BestPriceFirst` |
| `position` | as `maker`, 4 ticks | *violation* of `HardCap` |

**Bounds of the book and the rings.** Three orders are enough for a level with a
first, a middle and a last order, and for two levels on a side with a sweep across
both; the third comes from the heap, so acquiring with an empty free list happens.
Two prices are enough for a book that is crossed, locked or neither, and for a best
and a second level. `QtyMod` = 4 lets two quantities of 2 wrap to 0. With 2 ids and
3 orders every pattern of reuse by two clients occurs. `MaxOrders` bounds the heap
in the guard of `Acquire`; with it a state can lack a `Submit` but never deadlocks,
as resting orders can be cancelled. Four orders on two levels give the pointers
every combination of first, middle, last and only. Three slots are a ring that
wraps with both indices at every distance, full and empty; two words can tear.
The rings themselves are finite-state: their runs are exhaustive without a bound.

**Bounds of the compositions.** `gateway`: 3 times 3 wraps in the small `int64_t`
(`HalfWord` = 7), 2 times 3 is above the limit without wrapping, 5 is cut to 0 and 4
is above the limit; the collar around 2 admits 1 and 3, the one around 1 only 1, so
a book can move out of an order's reach and the midpoint of 1 and 2 is rounded; 3 instants (`MaxNow`) with a
window of 2 have a window that starts late and one that overlaps two; `MaxCount`
stops counting one above the limit. The pool has all its orders from the
start (`book` lets it grow). Three orders are a taker that sweeps
two makers, one of which was replaced. `feed`: with 2 slots both the oldest and the
newest snapshot can be dropped or in flight; 2 orders are a book that is empty,
one-sided or two-sided. `ingress`: 10 cells (`MaxCells`) are two messages of two
fields or more, or up to five that are nothing but a checksum, so that one is in
`parsedMsg`, one in the queue, one with the matching thread and one still on the
wire; every chunking of them is tried. The messages cover each case of the parsers:
decimals missing, few, too many, two dots, digits that overflow (`HalfWord` = 5000), a
tag that repeats, one that is absent, a tag ending in 10 (110) and a value with `10=`
inside, a tag that the narrowing takes for another (294 for 38, with `HalfInt` = 128), a
tag that is no number, a client that breaks off. `maker`: a position of one share moves the quotes
by half the spread, so quotes cross the midpoint, trade while they are placed and
empty a side of the book; 5 ticks suffice to quote, be filled in part, turn the
position round and be killed; 40 ids and 12 orders are never used up, and prices to 22
are as high as 5 rounds of quotes can take the market.

**Deadlock** is checked in all runs but `ingress`, where the server waits for
clients that stop at `MaxCells`. `MarketMaker`'s end of a run is a step of its own
(`Stopped`).

**Symmetry.** Ids are only compared and used as keys, so the runs of `book` and
`gateway`, which check no liveness, use their permutations.

**Fairness.** `FairSpec` of `OrderBook` assumes only that a call of
`processOrder` goes on: the matching thread does not block in it. `FairSpec` of
`SpscRing` assumes that both threads go on inside push and pop (they busy-wait
and hold no locks), not that anything is ever sent, and that a load repeated for
ever at last returns the current value (`StoresArrive`), which C++ requires of
stores to atomics in a finite time. `PushReturns` of the BBO ring needs none of
this of the consumer: `ProducerFairSpec` lets it stop, as a publisher in a
blocked `sendto` does. `FeedFairSpec` assumes the same of the matching thread, that
the publisher goes on polling and sending, and that the network does not lose every
datagram for ever (strong fairness of `Deliver`, which implies the weak fairness of
`Deliver \/ Lose`); `LastTopArrives` is about runs in
which the last snapshot is not lost, by the ring or the network, since nothing ever
repeats it. `IngressFairSpec` assumes that each of the two threads takes the steps it
can take; it assumes nothing of clients.

**Where the code does otherwise than its documentation says.** Each is a finding of
`PROJECT.json` with the lines.

* Run `reused`: a second order with the id of a resting one takes over its entry of
  the index that `README.md` says holds every live order, and the first can no
  longer be cancelled or replaced. The server fills its book this way before it
  starts: both benchmarks in `apps/tests.cpp` number their orders from 1000.
* Run `crossing`: a replacement is not matched, so it may leave a bid at or above an
  offer, and later orders trade past it, not "best price first". What does hold is
  in the passing runs: clients with ids of their own get the book of
  `PriceTimeBook` (in which a replacement is not matched either), and nothing but a
  replacement crosses the book (`OnlyReplaceCrosses`).
* Run `position`: the "hard cap on net position" holds for what the market maker
  counts (`CountedWithinCap`), not for what it holds. `PositionAccounted` says where
  the difference comes from, and that there is no third source.
* The ids of a message are views into a buffer that is edited before they are read.
  `IdsAsSent` holds for clients that wait for each message to be handled.
* The text `10=` ends a message wherever it occurs, so a message with a field `110=5`
  is handled as two. `TermsAsSent` excepts such messages (`OneEnd`) and shows that they do
  not shift or change any other.
* A tag is narrowed to `int`, so 4294967334 is taken for 38 (`Unmistaken` excepts it).
* A replacement that says it is a market order skips the checks on its price.
* The rate limiter's window is not rolling. `LessThanTwice` is the bound that holds.
* `BboMessage` is 64 bytes long, the Python listener expects 33.

**What was not obvious.** `TradesInsideCollar` compares each trade of a sweep, deep
in the book, with the market its order arrived to, not with the one that is left
when it trades. The limit of the incoming order bounds its trades on one side; on the
other, no resting order is better than the best price that entered the reference. In
a book that replacements have crossed, best bid and best ask lie beyond the midpoint;
but each got there from within the collar around an earlier midpoint, and moving one
moves the midpoint along, so both stay within the collar of it, but for rounding: the
midpoint of 2 and 1 is 1, where a collar of half admits only 1, and yet a sell order at
1 trades at 2. The property gives a crossed book the collar of one tick more, and no
other. One replacement that escapes breaks it for everyone, hence `escaped = {}` and
not a condition on the order that trades.

## 4. What is proved

For all values of the constants that satisfy the modules' named assumptions (no
assumption but that prices, quantities, limits and sizes are the numbers the C++
types can hold, that an order's price is one a message can carry, that a queue holds
at least one entry, that clients send fields of a tag and a value, that the tags looked
for fit into the integers, and what
`SimulatorAssumption` says of a simulator's run, below):

* `OrderBook`: `TypeOK`, `PoolExact`, `LevelsFiled`, `IndexSound`, `VolumeMatches`,
  `BboCurrent`, `OnlyReplaceCrosses`, `SweepProgresses` and `TimePriority`, whatever
  ids clients use.
* `ClientView`: `RestingIndexed` and that the engine implements `PriceTimeBook`, for
  clients who do not reuse an id while it rests (`~ReuseIds`, the hypothesis that
  run `reused` shows to be needed).
* `LevelList`: `TypeOK`, `PointersMatchQueues` and `SweepInOrder`.
* `SpscRing`: `TypeOK`, `NoSharedSlot`, and that it implements `BoundedFifo`.
* `BboFeed`: that it implements `OrderBook`, and `CaughtUp`.
* `Gateway`: that it implements `OrderBook`, `RestingWithinLimits`, `LessThanTwice`,
  and, for `SaneLimits`, `TradesInsideCollar`. Limits are sane if they are not
  negative and twice the notional limit fits an `int64_t`; the defaults of `RiskConfig`
  are, by eight orders of magnitude. Without it the sum of two prices could wrap.
* `FixParser`: that both number parsers compute what each text means, whatever its length
  and digits, and `parseFixMessage` what each `Unmistaken` message means, whatever the
  order of its fields.
* `NetworkIngress`: `TermsAsSent` and `IdsAsSent`, which speak of `Plain` messages among
  any others, and the half of `AllHandled` that is a safety property (`Quiet`): a server
  that has nothing left to do has made every call that is due.
* `MarketMaker`: that it implements `OrderBook`, `OwnQuotesTracked`, `OutWhenStopped`,
  `CountedWithinCap`, `PositionAccounted`, `PnlMatchesCash`, and, where `halfSpread` is
  positive (it is 5000 in the code), `NoSelfTrade`. `SimulatorAssumption` says that the simulator's
  ids end below the maker's first one and that ids, sizes and prices fit their types
  for the whole run, prices even if every tick moves the market by the farthest
  a quote can be from the midpoint (`Reach`); with the configuration in `main` that is
  5.5 * 10^9 for an `int64_t`, and 100,020 simulated ids below 5,000,000.

**The invariant of `OrderBook`.** None of the properties is inductive alone. A
release is right only if the order was in one place before (`Placed`), which has
to be known of the order the index leads to (`Indexed`), which is unlinked from
the level its own price names (`Filed`). `Sides` says that every queue is
injective and not empty; `Held` that an order which is not free has the fields of
a real order, so the comparators apply to its price. `IInv` is their conjunction.
It does not need ids to be unique: `Indexed` is one-sided, from index to order,
and that is what survives reuse. The lemmas of `Queues_proofs` say what appending
and unlinking do to the elements of a queue. `BboCurrent` needs one more fact,
that `before` is the top of the book last published (`QuoteInv`).
`OnlyReplaceCrosses` rests on the best level of the opposite side existing and
being extremal (by well-founded induction on prices, as a side of the book is not
assumed to be finite) and on `Marketable` being false when an order rests.

**`VolumeMatches`** is about a counter that wraps and a sum over a set. The sum is defined
by recursion over the set, an element of its own choice at a time; that there is such
a function, that it does not depend on the choices and that one element more adds its
value are lemmas of `Queues_proofs` (`SumsExist`, `TotalAgree`, `TotalAdd`), each shown by
taking a smallest set of which it is false. `Volumes` is then inductive with `IInv`: each
call changes one level by the quantity of one order (`AppendVolume`, `RemoveVolume`,
`ReducedVolume`), no order is linked elsewhere, and taking a remainder before or
after an addition makes no difference (`ModSum`). That a trade takes the volume down and
the unlinking of the filled maker takes it down once more is right because the order's
quantity is zero by then.

**`TimePriority`** compares the queue at a price before and after a step: what stood
before stays in front of what comes later. Each of the calls leaves a queue as it was,
appends to it or unlinks one order; the lemmas of `Queues_proofs` say that appending
puts an order behind all others and that unlinking keeps the order of the rest. There is
one exception, a replacement at the same price: there the order that is overtaken has to
be the one replaced, named by the id the client gave, and to end at the back of the line
with all other orders as they were (`Requeued`), and it must not have been made smaller.
An order that was made larger may be in front of nobody who was there before
(`test_modify_qty_up_loses_priority` in `tests/test_matching_engine.cpp` is one case).

**The price-time book.** `PriceTimeBook` knows ids, terms and who is ahead of whom;
the engine knows addresses, an index and queues. The mapping reads each id's terms off
the order that rests under it, which is well defined only if there is one:
`UInv` says that the index leads from the id of each order that rests back to it, and
that the order in flight has no entry. It is inductive only without reuse: `Finish`
would overwrite the entry of another order. With it the view can be read off the
index instead of being chosen (`RestingView` has the domain of `orderMap`), and what an
append or an unlinking does to the pairs of addresses in front of each other it does
to the pairs of ids. Then each action is shown to be the action of `PriceTimeBook` of the
same name, or, `Submit` and a trade of a sweep included, to leave its variables as that
action prescribes. A replacement which keeps price and does not add quantity keeps its
place; any other one goes to the back of its queue.

**The invariant of `LevelList`.** `Match`: for a queue assignment in which no
order is twice, each level's pointers represent its queue and loose orders point
nowhere. `AppendMatches` and `RemoveMatches` show that the two functions of
`types.h` preserve it; the actions are compositions of them.

**The invariant of `SpscRing`.** `Ordered` says that the loaded values lie between
the indices in ring order (the stale tail is behind the tail, the stale head
between tail and head), `Checked` what a passed test means for them, `Filled` that
the slots between tail and head hold whole items, `Copied` that the consumer's
partial copy agrees with its slot. With it, each step of the ring is a step of
`BoundedFifo` or leaves its variables alone.

**`SweepProgresses`** follows from `Placed` before and after a trade: a maker that is
released was linked and no longer is, and nothing else changes places. So the
match loops end also for makers of quantity zero, without the fairness and the small
instance of `SweepEnds`.

**The compositions.** `FeedRunsEngine`, `GatewayRunsEngine` and `MakerRunsEngine` say that every step of
the composition is a step of `OrderBook` or leaves its variables alone, so all
theorems about `OrderBook` hold in them; the proofs that follow use its `IInv`.
`FeedInv` says that the newest snapshot, in the ring or already seen, is the top of
the book, or while a sweep runs the top before it, unless `lost`. `GateInv` says of
every order that is not free, resting or in flight, that a message that named it was
missed or that it is within the limits; it has to speak of orders in flight, because
they come to rest with what the sweep leaves them, and of the remainders of
makers. `PassedWithin` is the arithmetic: where the product does not reach 2^63 and
the quantity not 2^32, what the checks see is what the book gets.

**The rate limiter.** `RateInv` numbers the accepted messages: those of the current
window are the last `Admitted`; all before came no later than the window started; and
all before the last `maxMsgsPerWindow - 1` of those are a window's length older than its
start, since a window starts with a message it counts and admits no more than the limit.
Of two messages that are twice the limit apart the later one is in the current window
and the earlier one at or before that boundary.

**The collar.** `CollarInv` is about runs in which no message escaped. `BookClose` says
how far replacements can cross a book: for each bid at or above an ask, half their
distance, rounded up, is at most the collar of their midpoint, rounded up. It is stated
for all pairs and not only for the best, so that orders which leave the book preserve it
at once. A bid that moves up to within the collar around the midpoint of the best
prices becomes close to every ask it crosses (`RaisedBidClose`; `LoweredAskClose` is its
mirror image), one that moves down is no farther than the best bid was (`InnerClose`),
and an order that comes to rest after a sweep crosses nothing. `SweepCollar` relates
the book in mid-sweep to the market the order arrived to: its own side is as it was, the
other has only lost prices. `CloseToMidpoint` then bounds a trade in a crossed book, and
the order of best bid, midpoint and best ask one in a book that is not. The conversions
are part of it: `RefValue` says that the reference does not wrap, `CollarNoWider` that a
collar that wraps, or is rounded, only gets narrower.

**The market maker.** `MakerInv` speaks of the calls that are still to be made as well
as of the book. `Calls` is their order: cancels come before new quotes, the bid before
the ask (`Rank`), and each new quote has an id left for it. `Tracked` says that an order
of the maker's which rests is the current quote of its side, and that before a new quote
of a side the old one is gone, or its cancel is still to come: so no id is forgotten
while it is replaced. `Out` is the same for a maker that has stopped: every quote it
knows is still to be cancelled. Both see the book by id through `RestingView`, for which
the engine's `UInv` is needed. `Priced` bounds prices by a ceiling that rises by `Reach`
per round, and with `Counters` shows that no price or id leaves its type.

`Capped` says that each quote, wherever it is, may be filled whole without passing the
limit. It is stated twice, as the two positions differ: for the position that `onTick`
counted last, from which it takes the room for new quotes, and for `Counted`, the one it
would count now, which the trades of the tick have moved. The fills inside `placeQuote`
move neither; that is where `HardCap` fails. `Accounted` relates the two: the difference
is the sum over the trade log, and each trade in it names the current quotes and no
earlier one, since what rests is tracked. That `processFills` adds up to that sum is
`FillsCounted`, about the trade after which it first would not (`NetAppend` gives one
more trade to a sum).

`PnlMatchesCash` needs no invariant but the types of the account. One fill keeps the
accounts in balance with the cash at its price (`UpdateCounts`), be it the first one, one
more, a reduction or a change of sign, and so do all fills of a tick (`FillsCounted`):
the same induction over the trade log as for the position, with a second sum.

`NoSelfTrade` needs `Apart`: a quote on its way is not marketable against the other one,
be that resting, still to be placed or about to be cancelled. The skew moves both quotes
of a round alike, so only the spread counts; with none, bid and ask would meet.

**The parsers.** What a loop computes is a recursive function, and that there is one is
shown first (`Iterates`: a value can be taken through any number of steps); what holds of
it is shown by taking the first step of which it is false (`Climb`). A digit that is read
multiplies all digits before it by ten, and cutting to 64 bits at each step or once at
the end is the same (`DigitAppended`). For decimals the state after each step says where
the dot was and how many digits followed; the digits read so far, times the power of
ten still to come, are the digits' worth. For messages, each field parsed so far is the
last one of its tag that counts (`LatestNext`). `ReadTerms` and `ReadIds` are what the
fields say to the parser, by the numbers of their tags; that they say the same by the
texts of their tags is where `Unmistaken` is needed (`ReadIsMeant`).

**The ingress.** `IngressInv` cuts the stream in two. `Taken(c)`: what was sent is a part
`c`, whose messages are those handled followed by those queued, each with its terms, and
then what is `Left`, in the accumulator and on the wire. The cut is not a variable of the
model: there is one in each state, and `Frame`, `Push` and `Disconnect` move it.
`MemoryInv` adds that the thread reads on only when no message is complete in the
accumulator, that what it pushes was parsed from the first one there and from nothing
older. The pieces into which the code cuts a stream are `Pieces`; that its search for the end
of a message finds them is `Reading` (until one is complete, cells gather) and
`FrameComplete` (then it is done and nothing is over). `Joint` relates them to what the
stream means, `Messages`: there are as many pieces as calls, what the code has over is the
end of what is over, everything before it was cut off at a `10=`, and the piece of the call
of a message without stray ones is that message. `StreamInv`, tags and values taking turns, is what
the parser needs of a frame. For clients that wait, `Waits` says that there is at most one
message that is not handled, and that once it is queued nothing else is in the stream, so
`Erase` leaves its cells in memory, all but the first, which the NUL overwrites and which
is a tag. To see that nothing was sent on one needs that what is sent never takes back
messages (`DoneGrows`) and that a stream which ends with a message has one more than any
shorter one (`EndsWithMessage`).

**Only model-checked.** What is out of TLAPS's reach, since it depends on fairness:
`SweepEnds`, `PushReturns`, `AllReceived`, `LastTopArrives`, `AllHandled`. Every safety
and action property that a passing run checks is a theorem.

## 5. Plan

All components that keep state are modelled. What is left, in this order:

1. `NetworkIngress` with accesses cut into single bytes, for the data race between
   the two threads.
2. Quantities in the messages of `BboFeed`, with a bound on how stale they get.
3. A bound on what the rounding of `double` may add to the maker's accounts.

## 6. Not modelled

The latency tracker, `display`, `getVWAP`, `printMarketStats`, `RiskStats`, the
market maker's history and the Python scripts only read, print, count or generate
load. The tests and benchmarks served as evidence of how the components are called;
the start-up test reads an order after `processOrder` may have released it, and
`runBenchmark` acquires its orders up front, both outside the calls the model makes.
Start-up and shutdown of the process (a failed `bind`, threads that are never
joined) and the sockets are outside. Destructors do not matter to a server that
runs for ever. The clock is assumed not to step back.
