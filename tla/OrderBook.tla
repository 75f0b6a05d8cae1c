------------------------------ MODULE OrderBook ------------------------------
(***************************************************************************)
(* The matching engine of src/core/OrderBook.{h,cpp}, with the order pool  *)
(* of src/core/MemoryPool.h it acquires its orders from.  One thread, the  *)
(* matching thread, runs every operation.                                  *)
(*                                                                         *)
(* An order's address is its index in `order`, the pool's allAllocated; a  *)
(* side of the book is a partial function from the prices that have a node *)
(* in the std::map to that node's PriceLevel.  The intrusive list of a     *)
(* level is the sequence of the addresses on it: module LevelList shows    *)
(* that the pointers of types.h represent such a sequence.                 *)
(*                                                                         *)
(* cancelOrder and modifyOrder are one action each.  processOrder is cut   *)
(* at its trades: Submit, then one FillMaker or FillTaker per trade, then  *)
(* Finish.                                                                 *)
(*                                                                         *)
(* A definition named Bug... is a plausible mistake in the one after it,   *)
(* which a property has to catch; the specification uses none of them.     *)
(***************************************************************************)
EXTENDS Integers, FiniteSets, Queues

CONSTANTS
  OrderId,    \* the ids clients use
  Price,      \* the limit prices clients use
  MaxPrice,   \* 2^63 - 1: Price is an int64_t
  Quantity,   \* the quantities passed in, after the cast to uint32_t
  QtyMod,     \* 2^32: Quantity arithmetic is modular
  PoolSize,   \* the orders the pool constructs up front
  MaxOrders,  \* BOUND: how many orders the heap gives out in all
  ReuseIds    \* may a client reuse the id of an order that rests?

ASSUME ConstantsAssumption ==
  /\ MaxPrice \in Nat
  /\ Price \subseteq -MaxPrice .. MaxPrice
  /\ QtyMod \in Nat \ {0}
  /\ Quantity \subseteq 0 .. QtyMod - 1
  /\ PoolSize \in Nat
  /\ MaxOrders \in Nat
  /\ ReuseIds \in BOOLEAN

Side == {"BUY", "SELL"}
Opposite(s) == IF s = "BUY" THEN "SELL" ELSE "BUY"

null == 0      \* nullptr: addresses start at 1
NoPrice == 0   \* what an empty side reports as its best price

\* An order nobody holds.  The code leaves the old contents in a released
\* order; nothing reads them before acquire sets every field, so the model
\* forgets them.
Blank == [id |-> 0, price |-> NoPrice, quantity |-> 0, side |-> "BUY", isMarket |-> FALSE]

Order == [id : OrderId, price : Price, quantity : 0 .. QtyMod - 1,
          side : Side, isMarket : BOOLEAN]

PriceLevel(n) == [queue : Seq(1 .. n), totalVolume : 0 .. QtyMod - 1]
EmptyLevel == [queue |-> <<>>, totalVolume |-> 0]
NoTop == [bid |-> NoPrice, ask |-> NoPrice]
NoTrade == [buyOrderId |-> 0, sellOrderId |-> 0, price |-> 0, quantity |-> 0]

VARIABLES
  order,      \* allAllocated: the Order at each address
  freeList,   \* released addresses; acquired from the back
  orderMap,   \* id -> address of the resting order indexed under it
  book,       \* side -> (price -> [queue, totalVolume]): bids and asks
  taker,      \* the order processOrder is sweeping with, or null
  before,     \* bidBefore and askBefore, local to processOrder
  trade,      \* what this step appended to tradeLog, or NoTrade
  bbo         \* the prices of the last message of publishBBO

vars == <<order, freeList, orderMap, book, taker, before, trade, bbo>>

-----------------------------------------------------------------------------
\* std::map and std::unordered_map: insert or assign, and erase.
Put(f, k, v) == [x \in DOMAIN f \cup {k} |-> IF x = k THEN v ELSE f[x]]
Erase(f, k) == [x \in DOMAIN f \ {k} |-> f[x]]

\* One map forgets its std::greater.
BugAscending(s, p, q) == p < q

\* The comparators of the two maps: bids descend, asks ascend.
Better(s, p, q) == IF s = "BUY" THEN p > q ELSE p < q

\* begin() of a side that has a level.
Best(side, s) == CHOOSE p \in DOMAIN side : \A q \in DOMAIN side : ~Better(s, q, p)

BestPrice(side, s) == IF DOMAIN side = {} THEN NoPrice ELSE Best(side, s)

TopOfBook(b) == [bid |-> BestPrice(b["BUY"], "BUY"), ask |-> BestPrice(b["SELL"], "SELL")]

\* A new order goes to the head of its level.
BugAppendAtHead(side, p, o, qty) ==
  LET level == IF p \in DOMAIN side THEN side[p] ELSE EmptyLevel
  IN Put(side, p, [queue |-> <<o>> \o level.queue,
                   totalVolume |-> (level.totalVolume + qty) % QtyMod])

\* try_emplace(price).appendOrder(order)
AppendOrder(side, p, o, qty) ==
  LET level == IF p \in DOMAIN side THEN side[p] ELSE EmptyLevel
  IN Put(side, p, [queue |-> Append(level.queue, o),
                   totalVolume |-> (level.totalVolume + qty) % QtyMod])

\* A trade forgets to reduce the level's volume.
BugVolumeKept(side, p, qty) == side

\* The node of price p loses volume in place.
ReduceVolume(side, p, qty) ==
  [side EXCEPT ![p].totalVolume = (@ - qty) % QtyMod]

\* A level that lost its last order stays in the map.
BugLevelKept(side, p, o, qty) ==
  Put(side, p, [queue |-> Unlinked(side[p].queue, o),
                totalVolume |-> (side[p].totalVolume - qty) % QtyMod])

\* removeOrder, then erase the level if its head is nullptr.
RemoveOrder(side, p, o, qty) ==
  LET queue == Unlinked(side[p].queue, o)
  IN IF queue = <<>> THEN Erase(side, p)
     ELSE Put(side, p, [queue |-> queue,
                        totalVolume |-> (side[p].totalVolume - qty) % QtyMod])

\* The orders linked into some level.
Queued(b) == {o \in 1 .. Len(order) :
                \E s \in Side : \E p \in DOMAIN b[s] : o \in Range(b[s][p].queue)}

RestingIds == {order[o].id : o \in Queued(book)}

\* What a client may name an order: not what another that rests is named.
MayName(i, own) ==
  ReuseIds \/ i \in own \/ \A o \in 1 .. Len(order) : order[o].id = i => o \notin Queued(book)

\* modifyOrder erases the old id, or inserts the new one, but not both.
BugOldIdKept(i, new) == Put(orderMap, new, orderMap[i])
BugNewIdLost(i, new) == Erase(orderMap, i)

\* modifyOrder's renaming of an order in the index.
Reindexed(i, new) == Put(Erase(orderMap, i), new, orderMap[i])

\* Only the bid is compared before publishing.
BugPublishBid(moved) ==
  bbo' = IF moved /\ TopOfBook(book').bid # bbo.bid THEN TopOfBook(book') ELSE bbo

\* publishBBO, when the top of the book moved.
PublishIf(moved) == bbo' = IF moved THEN TopOfBook(book') ELSE bbo

-----------------------------------------------------------------------------
Init ==
  /\ order = [a \in 1 .. PoolSize |-> Blank]
  /\ freeList = [a \in 1 .. PoolSize |-> a]
  /\ orderMap = <<>>
  /\ book = [s \in Side |-> <<>>]
  /\ taker = null
  /\ before = NoTop
  /\ trade = NoTrade
  /\ bbo = NoTop

\* An order made by `new` is not tracked in allAllocated.
BugUntracked(new) ==
  IF freeList = <<>>
  THEN taker' = Len(order) + 1 /\ UNCHANGED <<order, freeList>>
  ELSE /\ order' = [order EXCEPT ![Last(freeList)] = new]
       /\ taker' = Last(freeList)
       /\ freeList' = Front(freeList)

\* The pool's acquire: the back of the free list, else `new`.
Acquire(new) ==
  IF freeList = <<>>
  THEN /\ Len(order) < MaxOrders
       /\ order' = Append(order, new)
       /\ taker' = Len(order) + 1
       /\ UNCHANGED freeList
  ELSE /\ order' = [order EXCEPT ![Last(freeList)] = new]
       /\ taker' = Last(freeList)
       /\ freeList' = Front(freeList)

\* The gateway acquires an order and calls processOrder, which takes its
\* snapshot of the top of the book.
Submit(i, p, q, s, m) ==
  /\ taker = null
  /\ MayName(i, {})
  /\ Acquire([id |-> i, price |-> p, quantity |-> q, side |-> s, isMarket |-> m])
  /\ before' = TopOfBook(book)
  /\ trade' = NoTrade
  /\ UNCHANGED <<orderMap, book, bbo>>

\* What matchBuyOrder and matchSellOrder trade with next.
MakerSide == Opposite(order[taker].side)
MakerPrice == Best(book[MakerSide], MakerSide)
Maker == Head(book[MakerSide][MakerPrice].queue)

\* An order does not trade at exactly its limit.
BugLimitExcluded ==
  /\ taker # null
  /\ order[taker].quantity > 0
  /\ DOMAIN book[MakerSide] # {}
  /\ order[taker].isMarket \/ Better(MakerSide, MakerPrice, order[taker].price)

\* The loop does not stop when the taker is filled.
BugFilledTrades ==
  /\ taker # null
  /\ DOMAIN book[MakerSide] # {}
  /\ order[taker].isMarket \/ ~Better(MakerSide, order[taker].price, MakerPrice)

\* The condition of their loops.
Marketable ==
  /\ taker # null
  /\ order[taker].quantity > 0
  /\ DOMAIN book[MakerSide] # {}
  /\ order[taker].isMarket \/ ~Better(MakerSide, order[taker].price, MakerPrice)

\* recordTrade
RecordTrade(qty) ==
  trade' = [buyOrderId  |-> order[IF MakerSide = "BUY" THEN Maker ELSE taker].id,
            sellOrderId |-> order[IF MakerSide = "SELL" THEN Maker ELSE taker].id,
            price |-> MakerPrice, quantity |-> qty]

\* One trade that exhausts the resting order: unlink and release it.
FillMaker ==
  /\ Marketable
  /\ order[Maker].quantity <= order[taker].quantity
  /\ LET qty == order[Maker].quantity
     IN /\ RecordTrade(qty)
        /\ order' = [order EXCEPT ![taker].quantity = @ - qty, ![Maker] = Blank]
        /\ orderMap' = Erase(orderMap, order[Maker].id)
        /\ book' = [book EXCEPT ![MakerSide] =
                      RemoveOrder(ReduceVolume(@, MakerPrice, qty), MakerPrice, Maker, 0)]
        /\ freeList' = Append(freeList, Maker)
  /\ UNCHANGED <<taker, before, bbo>>

\* One trade that leaves the resting order a remainder, and the taker none.
FillTaker ==
  /\ Marketable
  /\ order[Maker].quantity > order[taker].quantity
  /\ LET qty == order[taker].quantity
     IN /\ RecordTrade(qty)
        /\ order' = [order EXCEPT ![taker].quantity = 0, ![Maker].quantity = @ - qty]
        /\ book' = [book EXCEPT ![MakerSide] = ReduceVolume(@, MakerPrice, qty)]
  /\ UNCHANGED <<orderMap, freeList, taker, before, bbo>>

\* The rest of processOrder: a limit order's remainder rests, anything else
\* goes back to the pool; the BBO is published if the top of the book moved.
Rest ==
  LET o == order[taker]
  IN /\ orderMap' = Put(orderMap, o.id, taker)
     /\ book' = [book EXCEPT ![o.side] = AppendOrder(@, o.price, taker, o.quantity)]
     /\ UNCHANGED <<order, freeList>>

\* A filled taker does not go back to the pool.
BugLeaked ==
  /\ order' = [order EXCEPT ![taker] = Blank]
  /\ UNCHANGED <<freeList, orderMap, book>>

Discard ==
  /\ order' = [order EXCEPT ![taker] = Blank]
  /\ freeList' = Append(freeList, taker)
  /\ UNCHANGED <<orderMap, book>>

Finish ==
  /\ taker # null
  /\ ~Marketable
  /\ IF order[taker].quantity > 0 /\ ~order[taker].isMarket THEN Rest ELSE Discard
  /\ taker' = null
  /\ before' = NoTop
  /\ trade' = NoTrade
  /\ PublishIf(TopOfBook(book') # before)

CancelOrder(i) ==
  /\ taker = null
  /\ i \in DOMAIN orderMap
  /\ LET o == orderMap[i]
         s == order[o].side
     IN /\ orderMap' = Erase(orderMap, i)
        /\ book' = [book EXCEPT ![s] =
                      RemoveOrder(@, order[o].price, o, order[o].quantity)]
        /\ order' = [order EXCEPT ![o] = Blank]
        /\ freeList' = Append(freeList, o)
  /\ trade' = NoTrade
  /\ PublishIf(TRUE)
  /\ UNCHANGED <<taker, before>>

\* More quantity keeps the place as well.
BugPlaceKept(i, new, p, q) ==
  /\ taker = null
  /\ i \in DOMAIN orderMap
  /\ LET o == orderMap[i]
     IN /\ MayName(new, {i})
        /\ p = order[o].price
        /\ order' = [order EXCEPT ![o].quantity = q, ![o].id = new]
        /\ book' = [book EXCEPT ![order[o].side] =
                      ReduceVolume(@, p, order[o].quantity - q)]
        /\ orderMap' = Reindexed(i, new)
  /\ trade' = NoTrade
  /\ PublishIf(TopOfBook(book') # TopOfBook(book))
  /\ UNCHANGED <<freeList, taker, before>>

\* modifyOrder, case 1: same price, less quantity, the place is kept.
ReduceOrder(i, new, p, q) ==
  /\ taker = null
  /\ i \in DOMAIN orderMap
  /\ LET o == orderMap[i]
     IN /\ MayName(new, {i})
        /\ p = order[o].price /\ q < order[o].quantity
        /\ order' = [order EXCEPT ![o].quantity = q, ![o].id = new]
        /\ book' = [book EXCEPT ![order[o].side] =
                      ReduceVolume(@, p, order[o].quantity - q)]
        /\ orderMap' = Reindexed(i, new)
  /\ trade' = NoTrade
  /\ PublishIf(TopOfBook(book') # TopOfBook(book))
  /\ UNCHANGED <<freeList, taker, before>>

\* modifyOrder, case 2: any other change goes to the back of its price.  It
\* is not matched, whatever the new price.
ReplaceOrder(i, new, p, q) ==
  /\ taker = null
  /\ i \in DOMAIN orderMap
  /\ LET o == orderMap[i]
         old == order[o]
     IN /\ MayName(new, {i})
        /\ ~(p = old.price /\ q < old.quantity)
        /\ order' = [order EXCEPT ![o].quantity = q, ![o].id = new, ![o].price = p]
        /\ book' = [book EXCEPT ![old.side] =
                      AppendOrder(RemoveOrder(@, old.price, o, old.quantity), p, o, q)]
        /\ orderMap' = Reindexed(i, new)
  /\ trade' = NoTrade
  /\ PublishIf(TopOfBook(book') # TopOfBook(book))
  /\ UNCHANGED <<freeList, taker, before>>

Sweep == FillMaker \/ FillTaker \/ Finish

Next ==
  \/ \E i \in OrderId, p \in Price, q \in Quantity, s \in Side, m \in BOOLEAN :
        Submit(i, p, q, s, m)
  \/ FillMaker
  \/ FillTaker
  \/ Finish
  \/ \E i \in OrderId : CancelOrder(i)
  \/ \E i, new \in OrderId, p \in Price, q \in Quantity :
        ReduceOrder(i, new, p, q) \/ ReplaceOrder(i, new, p, q)

Spec == Init /\ [][Next]_vars

\* The matching thread never blocks inside processOrder.
FairSpec == Spec /\ WF_vars(Sweep)

-----------------------------------------------------------------------------
\* Every variable has its type.
TypeOK ==
  /\ order \in Seq(Order \cup {Blank})
  /\ freeList \in Seq(1 .. Len(order))
  /\ \A i \in DOMAIN orderMap : i \in OrderId /\ orderMap[i] \in 1 .. Len(order)
  /\ DOMAIN book = Side
  /\ \A s \in Side : \A p \in DOMAIN book[s] :
        p \in Price /\ book[s][p] \in PriceLevel(Len(order))
  /\ taker \in 0 .. Len(order)

\* Every order the pool allocated is in exactly one place, once: free, linked
\* into one level, or being processed.  No order is leaked, released twice, or
\* handed out while the book still links to it.
Free == Range(freeList)
PoolExact ==
  /\ IsInjective(freeList)
  /\ \A s \in Side : \A p \in DOMAIN book[s] : IsInjective(book[s][p].queue)
  /\ \A o \in 1 .. Len(order) :
        \/ o \in Free /\ o \notin Queued(book) /\ o # taker
        \/ o \notin Free /\ o \in Queued(book) /\ o # taker
        \/ o \notin Free /\ o \notin Queued(book) /\ o = taker

\* The maps hold no level without an order (it would be quoted as the best
\* price), and a linked order names the side and price it is linked under,
\* which is where cancelOrder and modifyOrder look for it.
LevelsFiled ==
  \A s \in Side : \A p \in DOMAIN book[s] :
     /\ book[s][p].queue # <<>>
     /\ \A o \in Range(book[s][p].queue) :
           order[o].side = s /\ order[o].price = p /\ ~order[o].isMarket

\* An id leads to an order that rests under that id, never to a released
\* order, though ids are erased by the maker's id as it is filled.
IndexSound ==
  \A i \in DOMAIN orderMap : orderMap[i] \in Queued(book) /\ order[orderMap[i]].id = i

\* A level's totalVolume, decremented at each trade and again at each unlink,
\* is what its orders add up to.
VolumeMatches ==
  \A s \in Side : \A p \in DOMAIN book[s] :
     book[s][p].totalVolume =
       MapThenSumSet(LAMBDA o : order[o].quantity, Range(book[s][p].queue)) % QtyMod

\* Between two messages subscribers have been told the best prices there are.
BboCurrent == taker = null => bbo = TopOfBook(book)

Uncrossed(b) ==
  \A bid \in DOMAIN b["BUY"], ask \in DOMAIN b["SELL"] : bid < ask

\* Only a client's replacement of a resting order can cross the book: sweeping
\* takes all it can before an order comes to rest.
OnlyReplaceCrosses ==
  [][Uncrossed(book) /\ ~Uncrossed(book')
       => \E o \in Queued(book) : order'[o].price # order[o].price]_vars

\* The orders at a price, and who is served first of two of them.
Queue(side, p) == IF p \in DOMAIN side THEN side[p].queue ELSE <<>>
Ahead(b, s, p, o1, o2) == InFront(Queue(b[s], p), o1, o2)

\* A client replaced o at its price: the order has the id the client gave, stands
\* behind all others of its line, and nobody else's terms or place changed.
Requeued(s, p, o) ==
  /\ \E i \in DOMAIN orderMap : orderMap[i] = o /\ orderMap' = Reindexed(i, order'[o].id)
  /\ \A other \in 1 .. Len(order) : other # o => order'[other] = order[other]
  /\ book'[s][p].queue = Append(Unlinked(book[s][p].queue, o), o)

\* Time priority: whoever joins a price joins at the back, and who stands ahead of
\* another there has not been made larger.  An order is overtaken only by its own
\* client's doing: a replacement of that very order which does not make it smaller.
TimePriority ==
  [][\A s \in Side : \A p \in DOMAIN book[s] \cap DOMAIN book'[s] :
       \A o1 \in Range(book'[s][p].queue), o2 \in Range(book[s][p].queue) :
          Ahead(book', s, p, o1, o2) =>
            \/ Ahead(book, s, p, o1, o2) /\ order'[o1].quantity <= order[o1].quantity
            \/ Requeued(s, p, o2) /\ order'[o2].quantity >= order[o2].quantity]_vars

\* A call of processOrder cannot run for ever: each pass of its loops takes some
\* of the taker's quantity, or takes a maker off the book without any; also when
\* the maker or the taker has quantity zero.
SweepProgresses ==
  [][taker # null /\ taker' = taker =>
       \/ order'[taker].quantity < order[taker].quantity
       \/ /\ order'[taker].quantity = order[taker].quantity
          /\ Queued(book') \subseteq Queued(book) /\ Queued(book') # Queued(book)]_vars

\* A sweep comes to an end: each pass of the loops of processOrder consumes
\* the taker or the maker.
SweepEnds == (taker # null) ~> (taker = null)
=============================================================================
