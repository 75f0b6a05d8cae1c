----------------------- MODULE OrderBookClients_proofs -----------------------
(***************************************************************************)
(* What clients are promised, whatever the constants: time priority, for   *)
(* any use of ids; and, if each live order has an id of its own, that      *)
(* every resting order is found by its id, and that the engine implements  *)
(* the price-time book, action by action.                                  *)
(***************************************************************************)
EXTENDS ClientView, OrderBook_proofs

-----------------------------------------------------------------------------
(* What the three changes of a side do to its queues.                      *)

\* The orders at a price are its queue.
LEMMA QueueFacts ==
  ASSUME NEW side, NEW n \in Nat, SideOK(side, n), NEW p
  PROVE  /\ Queue(side, p) \in Seq(1 .. n)
         /\ IsInjective(Queue(side, p))
         /\ Range(Queue(side, p)) = Linked(side, p)
<1>1. CASE p \in DOMAIN side
  BY <1>1 DEF SideOK, PriceLevel, Queue, Linked
<1>2. CASE p \notin DOMAIN side
  <2>1. <<>> \in Seq(1 .. n) /\ IsInjective(<<>>) /\ Range(<<>>) = {}
    BY DEF IsInjective, Range
  <2> QED BY <1>2, <2>1 DEF Queue, Linked
<1> QED BY <1>1, <1>2

\* appendOrder puts the order at the back of one queue.
LEMMA AppendOrderQueues ==
  ASSUME NEW side, NEW p, NEW o, NEW qty
  PROVE  LET new == AppendOrder(side, p, o, qty)
         IN /\ Queue(new, p) = Append(Queue(side, p), o)
            /\ \A r : r # p => Queue(new, r) = Queue(side, r)
<1> DEFINE level == IF p \in DOMAIN side THEN side[p] ELSE EmptyLevel
           add == [queue |-> Append(level.queue, o),
                   totalVolume |-> (level.totalVolume + qty) % QtyMod]
           new == AppendOrder(side, p, o, qty)
<1>1. level.queue = Queue(side, p)
  BY DEF Queue, EmptyLevel
<1>2. new = Put(side, p, add)
  BY DEF AppendOrder
<1>3. add.queue = Append(Queue(side, p), o)
  BY <1>1
<1> HIDE DEF level, add, new
<1>4. /\ DOMAIN new = DOMAIN side \cup {p}
      /\ new[p] = add
      /\ \A r \in DOMAIN side : r # p => new[r] = side[r]
  BY <1>2 DEF Put
<1> QED BY <1>3, <1>4 DEF Queue, new

\* removeOrder takes the order out of one queue.
LEMMA RemoveOrderQueues ==
  ASSUME NEW side, NEW p \in DOMAIN side, NEW o, NEW qty
  PROVE  LET new == RemoveOrder(side, p, o, qty)
         IN /\ Queue(new, p) = Unlinked(Queue(side, p), o)
            /\ \A r : r # p => Queue(new, r) = Queue(side, r)
<1> DEFINE queue == Unlinked(side[p].queue, o)
           rest == [queue |-> queue,
                    totalVolume |-> (side[p].totalVolume - qty) % QtyMod]
           new == RemoveOrder(side, p, o, qty)
<1>1. queue = Unlinked(Queue(side, p), o)
  BY DEF Queue
<1>2. new = IF queue = <<>> THEN Erase(side, p) ELSE Put(side, p, rest)
  BY DEF RemoveOrder
<1>3. rest.queue = queue
  OBVIOUS
<1> HIDE DEF queue, rest, new
<1>4. CASE queue = <<>>
  <2>1. /\ DOMAIN new = DOMAIN side \ {p}
        /\ \A r \in DOMAIN side : r # p => new[r] = side[r]
    BY <1>2, <1>4 DEF Erase
  <2> QED BY <1>1, <1>4, <2>1 DEF Queue, new
<1>5. CASE queue # <<>>
  <2>1. /\ DOMAIN new = DOMAIN side
        /\ new[p] = rest
        /\ \A r \in DOMAIN side : r # p => new[r] = side[r]
    BY <1>2, <1>5 DEF Put
  <2> QED BY <1>1, <1>3, <2>1 DEF Queue, new
<1> QED BY <1>4, <1>5

\* A change of volume leaves the queues alone.
LEMMA ReduceVolumeQueues ==
  ASSUME NEW side, NEW p \in DOMAIN side, NEW qty
  PROVE  \A r : Queue(ReduceVolume(side, p, qty), r) = Queue(side, r)
<1> DEFINE new == ReduceVolume(side, p, qty)
           volume == (side[p].totalVolume - qty) % QtyMod
           level == [side[p] EXCEPT !.totalVolume = volume]
<1>1. new = [side EXCEPT ![p] = level]
  BY DEF ReduceVolume
<1>2. level.queue = side[p].queue
  OBVIOUS
<1> HIDE DEF new, volume, level
<1>3. /\ DOMAIN new = DOMAIN side
      /\ \A r \in DOMAIN side : r # p => new[r] = side[r]
      /\ new[p] = level
  BY <1>1
<1> QED BY <1>2, <1>3 DEF Queue, new

-----------------------------------------------------------------------------
(* What they do to who is ahead of whom.                                   *)

\* The same orders are in front of the same others.
LinesKept(c, b) ==
  \A s \in Side, p \in Price : \A x, y : Ahead(c, s, p, x, y) <=> Ahead(b, s, p, x, y)

\* One order has left its line.
LinesLess(c, b, o) ==
  \A s \in Side, p \in Price : \A x, y :
     Ahead(c, s, p, x, y) <=> Ahead(b, s, p, x, y) /\ x # o /\ y # o

\* One order has joined a line, at its end.
LinesMore(c, b, s, p, o) ==
  \A t \in Side, r \in Price : \A x, y :
     Ahead(c, t, r, x, y) <=>
       \/ Ahead(b, t, r, x, y)
       \/ t = s /\ r = p /\ x \in Linked(b[s], p) /\ y = o

\* Who is ahead or behind at a price is linked there, and they are two.
LEMMA AheadLinked ==
  ASSUME NEW b, NEW n \in Nat, \A s \in Side : SideOK(b[s], n),
         NEW s \in Side, NEW p \in Price, NEW x, NEW y, Ahead(b, s, p, x, y)
  PROVE  x \in Linked(b[s], p) /\ y \in Linked(b[s], p) /\ x # y
<1>1. /\ Queue(b[s], p) \in Seq(1 .. n) /\ IsInjective(Queue(b[s], p))
      /\ Range(Queue(b[s], p)) = Linked(b[s], p)
  BY QueueFacts
<1> QED BY <1>1, InFrontElements DEF Ahead

LEMMA UnlinkLines ==
  ASSUME NEW b, NEW n \in Nat, BookOK(b, n), NEW s \in Side, NEW p \in Price,
         NEW o \in Linked(b[s], p), OnlyAt(b, o, s, p), NEW new,
         Queue(new, p) = Unlinked(Queue(b[s], p), o),
         \A r : r # p => Queue(new, r) = Queue(b[s], r)
  PROVE  LinesLess([b EXCEPT ![s] = new], b, o)
<1> DEFINE c == [b EXCEPT ![s] = new]
<1>1. c[s] = new /\ \A t \in Side : t # s => c[t] = b[t]
  BY DEF BookOK
<1> HIDE DEF c
<1>2. \A t \in Side : SideOK(b[t], n)
  BY DEF BookOK
<1>3. ASSUME NEW t \in Side, NEW r \in Price, NEW x, NEW y
      PROVE  Ahead(c, t, r, x, y) <=> Ahead(b, t, r, x, y) /\ x # o /\ y # o
  <2>1. CASE t = s /\ r = p
    <3>1. /\ Queue(b[s], p) \in Seq(1 .. n) /\ IsInjective(Queue(b[s], p))
          /\ o \in Range(Queue(b[s], p))
      BY <1>2, QueueFacts
    <3>2. InFront(Unlinked(Queue(b[s], p), o), x, y)
            <=> InFront(Queue(b[s], p), x, y) /\ x # o /\ y # o
      BY <3>1, UnlinkedInFront
    <3> QED BY <1>1, <2>1, <3>2 DEF Ahead
  <2>2. CASE ~(t = s /\ r = p)
    <3>1. Queue(c[t], r) = Queue(b[t], r)
      BY <1>1, <2>2
    <3>2. Ahead(b, t, r, x, y) => x # o /\ y # o
      BY <1>2, <2>2, AheadLinked DEF OnlyAt
    <3> QED BY <3>1, <3>2 DEF Ahead
  <2> QED BY <2>1, <2>2
<1> QED BY <1>3 DEF LinesLess, c

LEMMA LinkLines ==
  ASSUME NEW b, NEW n \in Nat, BookOK(b, n), NEW s \in Side, NEW p \in Price,
         NEW o \in 1 .. n, NEW new,
         Queue(new, p) = Append(Queue(b[s], p), o),
         \A r : r # p => Queue(new, r) = Queue(b[s], r)
  PROVE  LinesMore([b EXCEPT ![s] = new], b, s, p, o)
<1> DEFINE c == [b EXCEPT ![s] = new]
<1>1. c[s] = new /\ \A t \in Side : t # s => c[t] = b[t]
  BY DEF BookOK
<1> HIDE DEF c
<1>2. SideOK(b[s], n)
  BY DEF BookOK
<1>3. ASSUME NEW t \in Side, NEW r \in Price, NEW x, NEW y
      PROVE  Ahead(c, t, r, x, y) <=>
               \/ Ahead(b, t, r, x, y)
               \/ t = s /\ r = p /\ x \in Linked(b[s], p) /\ y = o
  <2>1. CASE t = s /\ r = p
    <3>1. /\ Queue(b[s], p) \in Seq(1 .. n)
          /\ Range(Queue(b[s], p)) = Linked(b[s], p)
      BY <1>2, QueueFacts
    <3>2. InFront(Append(Queue(b[s], p), o), x, y)
            <=> InFront(Queue(b[s], p), x, y) \/ (x \in Linked(b[s], p) /\ y = o)
      BY <3>1, AppendInFront
    <3> QED BY <1>1, <2>1, <3>2 DEF Ahead
  <2>2. CASE ~(t = s /\ r = p)
    <3>1. Queue(c[t], r) = Queue(b[t], r)
      BY <1>1, <2>2
    <3> QED BY <2>2, <3>1 DEF Ahead
  <2> QED BY <2>1, <2>2
<1> QED BY <1>3 DEF LinesMore, c

LEMMA VolumeLines ==
  ASSUME NEW b, NEW n \in Nat, BookOK(b, n), NEW s \in Side, NEW new,
         \A r : Queue(new, r) = Queue(b[s], r)
  PROVE  LinesKept([b EXCEPT ![s] = new], b)
<1> DEFINE c == [b EXCEPT ![s] = new]
<1>1. c[s] = new /\ \A t \in Side : t # s => c[t] = b[t]
  BY DEF BookOK
<1> HIDE DEF c
<1>2. \A t \in Side : \A r : Queue(c[t], r) = Queue(b[t], r)
  BY <1>1
<1> QED BY <1>2 DEF LinesKept, Ahead, c

-----------------------------------------------------------------------------
(* What each action does to the orders and to their lines.                 *)

\* What is true in every state of the invariant.
LEMMA Shapes ==
  ASSUME IInv
  PROVE  /\ Len(order) \in Nat /\ order \in [1 .. Len(order) -> Order \cup {Blank}]
         /\ BookOK(book, Len(order))
BY LenProperties DEF IInv, Typed, Sides

\* The pool hands out an order that nobody holds.
LEMMA SubmitEffect ==
  ASSUME IInv, NEW i \in OrderId, NEW p \in Price, NEW q \in Quantity,
         NEW s \in Side, NEW m \in BOOLEAN, Submit(i, p, q, s, m)
  PROVE  /\ taker' \in Nat \ {null}
         /\ order'[taker'] =
              [id |-> i, price |-> p, quantity |-> q, side |-> s, isMarket |-> m]
         /\ \A o \in 1 .. Len(order') : o # taker' /\ o \notin Free' =>
               o \in 1 .. Len(order) /\ o \notin Free
         /\ \A o \in 1 .. Len(order) : o \notin Free => o # taker' /\ order'[o] = order[o]
<1> DEFINE new == [id |-> i, price |-> p, quantity |-> q, side |-> s, isMarket |-> m]
           n == Len(order)
<1>1. Acquire(new)
  BY DEF Submit
<1> HIDE DEF new
<1>2. /\ n \in Nat /\ order \in [1 .. n -> Order \cup {Blank}]
      /\ order \in Seq(Order \cup {Blank})
      /\ freeList \in Seq(1 .. n) /\ IsInjective(freeList)
  BY Shapes DEF IInv, Typed
<1>3. CASE freeList = <<>>
  <2>1. /\ order' = Append(order, new) /\ taker' = n + 1 /\ freeList' = freeList
    BY <1>1, <1>3 DEF Acquire
  <2>2. /\ Len(order') = n + 1
        /\ order'[n + 1] = new
        /\ \A o \in 1 .. n : order'[o] = order[o]
    BY <1>2, <2>1
  <2>3. Free' = Free
    BY <2>1 DEF Free
  <2>4. \A o \in 1 .. n : o # n + 1
    BY <1>2
  <2>5. \A o \in 1 .. n + 1 : o # n + 1 => o \in 1 .. n
    BY <1>2
  <2> QED BY <1>2, <2>1, <2>2, <2>3, <2>4, <2>5 DEF null, new
<1>4. CASE freeList # <<>>
  <2> DEFINE a == Last(freeList)
  <2>1. /\ order' = [order EXCEPT ![a] = new] /\ taker' = a /\ freeList' = Front(freeList)
    BY <1>1, <1>4 DEF Acquire
  <2>2. /\ a \in 1 .. n /\ a \in Free
        /\ Free' = Free \ {a}
    BY <1>2, <1>4, <2>1, FrontRange DEF Free
  <2> HIDE DEF a
  <2>3. /\ DOMAIN order' = 1 .. n /\ order'[a] = new
        /\ \A o \in 1 .. n : o # a => order'[o] = order[o]
    BY <1>2, <2>1, <2>2
  <2>4. Len(order') = n
    BY <1>2, <2>1, <2>2
  <2> QED BY <1>2, <2>1, <2>2, <2>3, <2>4 DEF null, new
<1> QED BY <1>3, <1>4

\* A filled maker leaves the index, its line and the client's view.
LEMMA FillMakerEffect ==
  ASSUME IInv, FillMaker
  PROVE  /\ Len(order') = Len(order)
         /\ order'[taker] = [order[taker] EXCEPT !.quantity = @ - order[Maker].quantity]
         /\ \A o \in 1 .. Len(order) : o # Maker /\ o # taker => order'[o] = order[o]
         /\ Free' = Free \cup {Maker}
         /\ LinesLess(book', book, Maker)
<1> DEFINE n == Len(order)
           M == Maker
           S == MakerSide
           P == MakerPrice
           qty == order[M].quantity
<1>1. /\ Marketable /\ taker # null
      /\ order' = [order EXCEPT ![taker].quantity = @ - qty, ![M] = Blank]
      /\ book' = [book EXCEPT ![S] = RemoveOrder(ReduceVolume(@, P, qty), P, M, 0)]
      /\ freeList' = Append(freeList, M)
  BY DEF FillMaker, Marketable
<1>2. /\ S \in Side /\ P \in Price /\ P \in DOMAIN book[S] /\ M \in Linked(book[S], P)
  BY <1>1, MakerFacts
<1> HIDE DEF M, S, P, qty
<1>3. /\ M \in 1 .. n /\ M \notin Free /\ M # taker /\ order[M] \in Order
      /\ OnlyAt(book, M, S, P)
  BY <1>2, LinkedFacts DEF OnlyAt
<1>4. taker \in 1 .. n
  BY <1>1, TakerFacts
<1>5. /\ n \in Nat /\ order \in [1 .. n -> Order \cup {Blank}] /\ BookOK(book, n)
  BY Shapes
<1>6. /\ Len(order') = n
      /\ order'[taker] = [order[taker] EXCEPT !.quantity = @ - qty]
      /\ \A o \in 1 .. n : o # M /\ o # taker => order'[o] = order[o]
  BY <1>1, <1>3, <1>4, <1>5
<1>7. Free' = Free \cup {M}
  BY <1>1, <1>3, ReleaseFree
<1>8. LinesLess(book', book, M)
  <2> DEFINE v == ReduceVolume(book[S], P, qty)
             w == RemoveOrder(v, P, M, 0)
  <2>1. /\ P \in DOMAIN v /\ \A r : Queue(v, r) = Queue(book[S], r)
    <3>1. SideOK(book[S], n) /\ qty \in 0 .. QtyMod - 1
      BY <1>2, <1>3, <1>5 DEF BookOK, Order, qty
    <3> QED BY <1>2, <1>5, <3>1, ReduceVolumeLinks, ReduceVolumeQueues
  <2> HIDE DEF v
  <2>2. /\ Queue(w, P) = Unlinked(Queue(book[S], P), M)
        /\ \A r : r # P => Queue(w, r) = Queue(book[S], r)
    BY <2>1, RemoveOrderQueues
  <2> HIDE DEF w
  <2>3. LinesLess([book EXCEPT ![S] = w], book, M)
    BY <1>2, <1>3, <1>5, <2>2, UnlinkLines
  <2> QED BY <1>1, <2>3 DEF v, w
<1> QED BY <1>6, <1>7, <1>8 DEF M, qty

\* A maker that is left a remainder keeps its place.
LEMMA FillTakerEffect ==
  ASSUME IInv, FillTaker
  PROVE  /\ Len(order') = Len(order)
         /\ order'[taker] = [order[taker] EXCEPT !.quantity = 0]
         /\ order'[Maker] = [order[Maker] EXCEPT !.quantity = @ - order[taker].quantity]
         /\ \A o \in 1 .. Len(order) : o # Maker /\ o # taker => order'[o] = order[o]
         /\ Free' = Free
         /\ LinesKept(book', book)
<1> DEFINE n == Len(order)
           M == Maker
           S == MakerSide
           P == MakerPrice
           qty == order[taker].quantity
<1>1. /\ Marketable /\ taker # null
      /\ order' = [order EXCEPT ![taker].quantity = 0, ![M].quantity = @ - qty]
      /\ book' = [book EXCEPT ![S] = ReduceVolume(@, P, qty)]
      /\ freeList' = freeList
  BY DEF FillTaker, Marketable
<1>2. /\ S \in Side /\ P \in Price /\ P \in DOMAIN book[S] /\ M \in Linked(book[S], P)
  BY <1>1, MakerFacts
<1> HIDE DEF M, S, P, qty
<1>3. M \in 1 .. n /\ M # taker
  BY <1>2, LinkedFacts
<1>4. taker \in 1 .. n
  BY <1>1, TakerFacts
<1>5. /\ n \in Nat /\ order \in [1 .. n -> Order \cup {Blank}] /\ BookOK(book, n)
  BY Shapes
<1>6. /\ Len(order') = n
      /\ order'[taker] = [order[taker] EXCEPT !.quantity = 0]
      /\ order'[M] = [order[M] EXCEPT !.quantity = @ - qty]
      /\ \A o \in 1 .. n : o # M /\ o # taker => order'[o] = order[o]
  BY <1>1, <1>3, <1>4, <1>5
<1>7. LinesKept(book', book)
  <2> DEFINE v == ReduceVolume(book[S], P, qty)
  <2>1. \A r : Queue(v, r) = Queue(book[S], r)
    BY <1>2, ReduceVolumeQueues
  <2> HIDE DEF v
  <2>2. LinesKept([book EXCEPT ![S] = v], book)
    BY <1>2, <1>5, <2>1, VolumeLines
  <2> QED BY <1>1, <2>2 DEF v
<1> QED BY <1>1, <1>6, <1>7 DEF M, qty, Free

\* What is left of a limit order joins the end of the line at its price.
LEMMA RestEffect ==
  ASSUME IInv, taker # null, Rest
  PROVE  LinesMore(book', book, order[taker].side, order[taker].price, taker)
<1> DEFINE n == Len(order)
           O == order[taker]
           w == AppendOrder(book[O.side], O.price, taker, O.quantity)
<1>1. book' = [book EXCEPT ![O.side] = w]
  BY DEF Rest
<1>2. taker \in 1 .. n /\ O.side \in Side /\ O.price \in Price
  BY TakerFacts DEF Order
<1>3. n \in Nat /\ BookOK(book, n)
  BY Shapes
<1> HIDE DEF n, O
<1>4. /\ Queue(w, O.price) = Append(Queue(book[O.side], O.price), taker)
      /\ \A r : r # O.price => Queue(w, r) = Queue(book[O.side], r)
  BY AppendOrderQueues
<1> HIDE DEF w
<1> QED BY <1>1, <1>2, <1>3, <1>4, LinkLines DEF O

\* A taker that does not rest goes back to the pool.
LEMMA DiscardEffect ==
  ASSUME IInv, taker # null, Discard
  PROVE  /\ Len(order') = Len(order)
         /\ \A o \in 1 .. Len(order) : o # taker => order'[o] = order[o]
         /\ Free' = Free \cup {taker}
<1>1. /\ order' = [order EXCEPT ![taker] = Blank] /\ freeList' = Append(freeList, taker)
  BY DEF Discard
<1>2. taker \in 1 .. Len(order) /\ taker \notin Free
  BY TakerFacts
<1>3. Free' = Free \cup {taker}
  BY <1>1, <1>2, ReleaseFree
<1> QED BY <1>1, <1>2, <1>3, Shapes

LEMMA CancelEffect ==
  ASSUME IInv, NEW i \in OrderId, CancelOrder(i)
  PROVE  /\ Len(order') = Len(order)
         /\ \A o \in 1 .. Len(order) : o # orderMap[i] => order'[o] = order[o]
         /\ Free' = Free \cup {orderMap[i]}
         /\ LinesLess(book', book, orderMap[i])
<1> DEFINE n == Len(order)
           O == orderMap[i]
           S == order[O].side
           P == order[O].price
           w == RemoveOrder(book[S], P, O, order[O].quantity)
<1>1. /\ i \in DOMAIN orderMap
      /\ book' = [book EXCEPT ![S] = w]
      /\ order' = [order EXCEPT ![O] = Blank]
      /\ freeList' = Append(freeList, O)
  BY DEF CancelOrder
<1>2. /\ O \in 1 .. n /\ O \notin Free /\ S \in Side /\ P \in Price
      /\ O \in Linked(book[S], P) /\ OnlyAt(book, O, S, P)
  BY <1>1, IndexFacts DEF Order
<1>3. /\ n \in Nat /\ order \in [1 .. n -> Order \cup {Blank}] /\ BookOK(book, n)
  BY Shapes
<1> HIDE DEF O, S, P
<1>4. LinesLess(book', book, O)
  <2>1. P \in DOMAIN book[S]
    BY <1>2 DEF Linked
  <2>2. /\ Queue(w, P) = Unlinked(Queue(book[S], P), O)
        /\ \A r : r # P => Queue(w, r) = Queue(book[S], r)
    BY <2>1, RemoveOrderQueues
  <2> HIDE DEF w
  <2> QED BY <1>1, <1>2, <1>3, <2>2, UnlinkLines
<1>5. Len(order') = n /\ \A o \in 1 .. n : o # O => order'[o] = order[o]
  BY <1>1, <1>2, <1>3
<1>6. Free' = Free \cup {O}
  BY <1>1, <1>2, ReleaseFree
<1> QED BY <1>4, <1>5, <1>6 DEF O

\* What modifyOrder assigns to an order, and what it leaves.
Renamed(o, new, p, q) ==
  /\ order'[o].id = new /\ order'[o].price = p /\ order'[o].quantity = q
  /\ order'[o].side = order[o].side /\ order'[o].isMarket = order[o].isMarket

LEMMA ReduceEffect ==
  ASSUME IInv, NEW i \in OrderId, NEW new \in OrderId, NEW p \in Price, NEW q \in Quantity,
         ReduceOrder(i, new, p, q)
  PROVE  /\ Len(order') = Len(order)
         /\ Renamed(orderMap[i], new, order[orderMap[i]].price, q)
         /\ \A o \in 1 .. Len(order) : o # orderMap[i] => order'[o] = order[o]
         /\ LinesKept(book', book)
<1> DEFINE n == Len(order)
           O == orderMap[i]
           S == order[O].side
           w == ReduceVolume(book[S], p, order[O].quantity - q)
<1>1. /\ i \in DOMAIN orderMap /\ p = order[O].price
      /\ book' = [book EXCEPT ![S] = w]
      /\ order' = [order EXCEPT ![O].quantity = q, ![O].id = new]
  BY DEF ReduceOrder
<1>2. O \in 1 .. n /\ order[O] \in Order /\ S \in Side /\ O \in Linked(book[S], p)
  BY <1>1, IndexFacts DEF Order
<1>3. /\ n \in Nat /\ order \in [1 .. n -> Order \cup {Blank}] /\ BookOK(book, n)
  BY Shapes
<1> HIDE DEF O, S
<1>4. LinesKept(book', book)
  <2>1. p \in DOMAIN book[S]
    BY <1>2 DEF Linked
  <2>2. \A r : Queue(w, r) = Queue(book[S], r)
    BY <2>1, ReduceVolumeQueues
  <2> HIDE DEF w
  <2> QED BY <1>1, <1>2, <1>3, <2>2, VolumeLines
<1>5. /\ Len(order') = n
      /\ \A o \in 1 .. n : o # O => order'[o] = order[o]
  BY <1>1, <1>2, <1>3
<1>6. Renamed(O, new, order[O].price, q)
  <2> DEFINE rec == [order[O] EXCEPT !.quantity = q, !.id = new]
  <2>1. /\ rec.id = new /\ rec.quantity = q /\ rec.price = order[O].price
        /\ rec.side = order[O].side /\ rec.isMarket = order[O].isMarket
    BY <1>2 DEF Order
  <2>2. order' = [order EXCEPT ![O] = rec]
    BY <1>1, <1>2, <1>3
  <2> HIDE DEF rec
  <2>3. order'[O] = rec
    BY <1>2, <1>3, <2>2
  <2> QED BY <2>1, <2>3 DEF Renamed
<1> QED BY <1>4, <1>5, <1>6 DEF O

\* Any other replacement joins the end of the line at its new price, which may
\* be the line it has just left.
LEMMA ReplaceEffect ==
  ASSUME IInv, NEW i \in OrderId, NEW new \in OrderId, NEW p \in Price, NEW q \in Quantity,
         ReplaceOrder(i, new, p, q)
  PROVE  LET o == orderMap[i]
             s == order[o].side
         IN /\ Len(order') = Len(order)
            /\ Renamed(o, new, p, q)
            /\ \A k \in 1 .. Len(order) : k # o => order'[k] = order[k]
            /\ \A t \in Side, r \in Price : \A x, y :
                  Ahead(book', t, r, x, y) <=>
                    \/ Ahead(book, t, r, x, y) /\ x # o /\ y # o
                    \/ t = s /\ r = p /\ x \in Linked(book[s], p) \ {o} /\ y = o
<1> DEFINE n == Len(order)
           O == orderMap[i]
           S == order[O].side
           P == order[O].price
           w == RemoveOrder(book[S], P, O, order[O].quantity)
           mid == [book EXCEPT ![S] = w]
           x == AppendOrder(w, p, O, q)
<1>1. /\ i \in DOMAIN orderMap
      /\ book' = [book EXCEPT ![S] = x]
      /\ order' = [order EXCEPT ![O].quantity = q, ![O].id = new, ![O].price = p]
  BY DEF ReplaceOrder
<1>2. /\ O \in 1 .. n /\ order[O] \in Order /\ S \in Side /\ P \in Price
      /\ order[O].quantity \in 0 .. QtyMod - 1
      /\ O \in Linked(book[S], P) /\ OnlyAt(book, O, S, P)
  BY <1>1, IndexFacts DEF Order
<1>3. /\ n \in Nat /\ order \in [1 .. n -> Order \cup {Blank}] /\ BookOK(book, n)
  BY Shapes
<1>4. /\ Len(order') = n
      /\ Renamed(O, new, p, q)
      /\ \A o \in 1 .. n : o # O => order'[o] = order[o]
  <2> DEFINE rec == [order[O] EXCEPT !.quantity = q, !.id = new, !.price = p]
  <2>1. /\ rec.id = new /\ rec.quantity = q /\ rec.price = p
        /\ rec.side = order[O].side /\ rec.isMarket = order[O].isMarket
    BY <1>2 DEF Order
  <2>2. order' = [order EXCEPT ![O] = rec]
    BY <1>1, <1>2, <1>3
  <2> HIDE DEF rec
  <2>3. /\ Len(order') = n /\ order'[O] = rec
        /\ \A o \in 1 .. n : o # O => order'[o] = order[o]
    BY <1>2, <1>3, <2>2
  <2> QED BY <2>1, <2>3 DEF Renamed
<1> HIDE DEF n, O, S, P
<1>5. P \in DOMAIN book[S] /\ SideOK(book[S], n)
  BY <1>2, <1>3 DEF Linked, BookOK
<1>6. /\ SideOK(w, n) /\ SideWithout(w, book[S], P, O)
      /\ Queue(w, P) = Unlinked(Queue(book[S], P), O)
      /\ \A r : r # P => Queue(w, r) = Queue(book[S], r)
  BY <1>2, <1>3, <1>5, RemoveOrderUnlinks, RemoveOrderQueues DEF SideWithout
<1>7. /\ Queue(x, p) = Append(Queue(w, p), O)
      /\ \A r : r # p => Queue(x, r) = Queue(w, r)
  BY AppendOrderQueues
<1> HIDE DEF w, x
<1>8. LinesLess(mid, book, O) /\ BookOK(mid, n) /\ BookWithout(mid, book, O) /\ mid[S] = w
  BY <1>2, <1>3, <1>6, UnlinkLines, BookUnlink DEF BookOK
<1>9. [mid EXCEPT ![S] = x] = [book EXCEPT ![S] = x]
  BY <1>3 DEF BookOK
<1> HIDE DEF mid
<1>10. LinesMore([mid EXCEPT ![S] = x], mid, S, p, O)
  BY <1>2, <1>3, <1>7, <1>8, LinkLines
<1>11. LinesMore(book', mid, S, p, O)
  BY <1>1, <1>9, <1>10
<1>12. Linked(mid[S], p) = Linked(book[S], p) \ {O}
  BY <1>2, <1>8 DEF BookWithout
<1>13. ASSUME NEW t \in Side, NEW r \in Price, NEW a, NEW b
       PROVE  Ahead(book', t, r, a, b) <=>
                \/ Ahead(book, t, r, a, b) /\ a # O /\ b # O
                \/ t = S /\ r = p /\ a \in Linked(book[S], p) \ {O} /\ b = O
  BY <1>8, <1>11, <1>12 DEF LinesLess, LinesMore
<1> QED BY <1>4, <1>13 DEF n, O, S

-----------------------------------------------------------------------------
(* Time priority.                                                          *)

PlacesKept ==
  \A s \in Side : \A p \in DOMAIN book[s] \cap DOMAIN book'[s] :
     \A o1 \in Range(book'[s][p].queue), o2 \in Range(book[s][p].queue) :
        Ahead(book', s, p, o1, o2) =>
          \/ Ahead(book, s, p, o1, o2) /\ order'[o1].quantity <= order[o1].quantity
          \/ Requeued(s, p, o2) /\ order'[o2].quantity >= order[o2].quantity

\* No order in line grows, but one that leaves its line may.
NoneGrows(gone) ==
  \A s \in Side, p \in Price : \A x \in Linked(book[s], p) :
     x # gone => order'[x].quantity <= order[x].quantity

LEMMA NoneChanges ==
  ASSUME IInv, NEW gone,
         \A o \in 1 .. Len(order) : o # gone /\ o # taker => order'[o] = order[o]
  PROVE  NoneGrows(gone)
<1> SUFFICES ASSUME NEW s \in Side, NEW p \in Price, NEW x \in Linked(book[s], p), x # gone
             PROVE  order'[x].quantity <= order[x].quantity
  BY DEF NoneGrows
<1>1. x \in 1 .. Len(order) /\ x # taker /\ order[x] \in Order
  BY LinkedFacts
<1>2. order[x].quantity \in Int
  BY <1>1, ConstantsAssumption DEF Order
<1> QED BY <1>1, <1>2

\* Orders that stay in line stay in the order they were in.
LEMMA LinesKeepPlaces ==
  ASSUME IInv, NEW gone, NoneGrows(gone),
         \/ LinesKept(book', book) /\ gone = null
         \/ LinesLess(book', book, gone)
  PROVE  PlacesKept
<1> SUFFICES ASSUME NEW s \in Side, NEW p \in DOMAIN book[s], NEW x, NEW y,
                    Ahead(book', s, p, x, y)
             PROVE  Ahead(book, s, p, x, y) /\ order'[x].quantity <= order[x].quantity
  BY DEF PlacesKept
<1>1. p \in Price
  BY Shapes DEF BookOK, SideOK
<1>2. Ahead(book, s, p, x, y) /\ (x # gone \/ gone = null)
  BY <1>1 DEF LinesKept, LinesLess
<1>3. x \in Linked(book[s], p)
  BY <1>1, <1>2, Shapes, AheadLinked DEF BookOK
<1>4. x # null
  <2>1. x \in 1 .. Len(order) /\ Len(order) \in Nat
    BY <1>1, <1>3, LinkedFacts, Shapes
  <2> QED BY <2>1 DEF null
<1> QED BY <1>1, <1>2, <1>3, <1>4 DEF NoneGrows

\* A newcomer is behind all others, and was in no line before.
LEMMA RestKeepsPlaces ==
  ASSUME IInv, taker # null, Rest
  PROVE  PlacesKept
<1> DEFINE O == order[taker]
<1>1. ~LinkedIn(book, taker)
  BY TakerFacts
<1>2. LinesMore(book', book, O.side, O.price, taker)
  BY RestEffect
<1> HIDE DEF O
<1>3. NoneGrows(null)
  BY NoneChanges DEF Rest
<1>4. ASSUME NEW s \in Side, NEW p \in DOMAIN book[s], NEW x,
             NEW y \in Range(book[s][p].queue), Ahead(book', s, p, x, y)
      PROVE  Ahead(book, s, p, x, y) /\ order'[x].quantity <= order[x].quantity
  <2>1. p \in Price
    BY Shapes DEF BookOK, SideOK
  <2>2. y \in Linked(book[s], p)
    BY DEF Linked
  <2>3. y # taker
    BY <1>1, <2>1, <2>2 DEF LinkedIn
  <2>4. Ahead(book, s, p, x, y)
    BY <1>2, <1>4, <2>1, <2>3 DEF LinesMore
  <2>5. x \in Linked(book[s], p)
    BY <2>1, <2>4, Shapes, AheadLinked DEF BookOK
  <2>6. x # null
    <3>1. x \in 1 .. Len(order) /\ Len(order) \in Nat
      BY <2>1, <2>5, LinkedFacts, Shapes
    <3> QED BY <3>1 DEF null
  <2> QED BY <1>3, <2>1, <2>4, <2>5, <2>6 DEF NoneGrows
<1> QED BY <1>4 DEF PlacesKept

\* A replacement that stays at its price leaves its place and joins the end.
LEMMA ReplaceRequeues ==
  ASSUME IInv, NEW i \in OrderId, NEW new \in OrderId, NEW p \in Price, NEW q \in Quantity,
         ReplaceOrder(i, new, p, q), p = order[orderMap[i]].price
  PROVE  LET o == orderMap[i]
             s == order[o].side
         IN p \in DOMAIN book[s] /\ (p \in DOMAIN book'[s] => Requeued(s, p, o))
<1> DEFINE O == orderMap[i]
           S == order[O].side
           w == RemoveOrder(book[S], p, O, order[O].quantity)
           x == AppendOrder(w, p, O, q)
<1>1. /\ i \in DOMAIN orderMap /\ orderMap' = Reindexed(i, new)
      /\ book' = [book EXCEPT ![S] = x]
  BY DEF ReplaceOrder
<1>2. O \in 1 .. Len(order) /\ S \in Side /\ O \in Linked(book[S], p)
  BY <1>1, IndexFacts DEF Order
<1>3. p \in DOMAIN book[S] /\ S \in DOMAIN book
  BY <1>2, Shapes DEF Linked, BookOK
<1>4. order'[O].id = new /\ \A other \in 1 .. Len(order) : other # O => order'[other] = order[other]
  BY ReplaceEffect DEF Renamed
<1>5. Queue(x, p) = Append(Unlinked(Queue(book[S], p), O), O)
  <2>1. Queue(w, p) = Unlinked(Queue(book[S], p), O)
    BY <1>3, RemoveOrderQueues
  <2>2. Queue(x, p) = Append(Queue(w, p), O)
    BY AppendOrderQueues
  <2> QED BY <2>1, <2>2
<1>6. book'[S] = x
  <2> HIDE DEF x
  <2> QED BY <1>1, <1>3
<1> HIDE DEF O, S, w, x
<1>7. ASSUME p \in DOMAIN book'[S] PROVE Requeued(S, p, O)
  <2>1. book'[S][p].queue = Append(Unlinked(book[S][p].queue, O), O)
    BY <1>3, <1>5, <1>6, <1>7 DEF Queue
  <2>2. orderMap[i] = O /\ orderMap' = Reindexed(i, order'[O].id)
    BY <1>1, <1>4 DEF O
  <2> QED BY <1>1, <1>4, <2>1, <2>2 DEF Requeued
<1> QED BY <1>3, <1>7 DEF O, S

\* A replacement that stays at its price and is not made smaller is overtaken
\* by those that were behind it, and nobody else is overtaken.
LEMMA ReplaceKeepsPlaces ==
  ASSUME IInv, NEW i \in OrderId, NEW new \in OrderId, NEW p \in Price, NEW q \in Quantity,
         ReplaceOrder(i, new, p, q)
  PROVE  PlacesKept
<1> DEFINE O == orderMap[i]
           S == order[O].side
<1>1. i \in DOMAIN orderMap /\ ~(p = order[O].price /\ q < order[O].quantity)
  BY DEF ReplaceOrder
<1>2. /\ O \in 1 .. Len(order) /\ order[O] \in Order /\ S \in Side
      /\ O \in Linked(book[S], order[O].price) /\ OnlyAt(book, O, S, order[O].price)
  BY <1>1, IndexFacts DEF Order
<1>3. order'[O].quantity = q
  BY ReplaceEffect DEF Renamed
<1>4. \A t \in Side, r \in Price : \A x, y :
         Ahead(book', t, r, x, y) <=>
           \/ Ahead(book, t, r, x, y) /\ x # O /\ y # O
           \/ t = S /\ r = p /\ x \in Linked(book[S], p) \ {O} /\ y = O
  BY ReplaceEffect
<1>5. q \in Int /\ order[O].quantity \in Int
  BY <1>2, ConstantsAssumption DEF Order
<1>6. p = order[O].price => (p \in DOMAIN book'[S] => Requeued(S, p, O))
  BY ReplaceRequeues
<1> HIDE DEF O, S
<1>7. ASSUME NEW s \in Side, NEW r \in DOMAIN book[s] \cap DOMAIN book'[s], NEW x,
             NEW y \in Range(book[s][r].queue), Ahead(book', s, r, x, y)
      PROVE  \/ Ahead(book, s, r, x, y) /\ order'[x].quantity <= order[x].quantity
             \/ Requeued(s, r, y) /\ order'[y].quantity >= order[y].quantity
  <2>1. r \in Price
    BY Shapes DEF BookOK, SideOK
  <2>2. y \in Linked(book[s], r)
    BY DEF Linked
  <2>3. CASE y # O
    <3>1. Ahead(book, s, r, x, y) /\ x # O
      BY <1>4, <1>7, <2>1, <2>3
    <3>2. x \in Linked(book[s], r)
      BY <2>1, <3>1, Shapes, AheadLinked DEF BookOK
    <3>3. NoneGrows(O)
      BY ReplaceEffect, NoneChanges DEF O
    <3> QED BY <2>1, <3>1, <3>2, <3>3 DEF NoneGrows
  <2>4. CASE y = O
    <3>1. s = S /\ r = p
      BY <1>4, <1>7, <2>1, <2>4
    <3>2. p = order[O].price
      BY <1>2, <2>1, <2>2, <2>4, <3>1 DEF OnlyAt
    <3>3. order'[O].quantity >= order[O].quantity
      BY <1>1, <1>3, <1>5, <3>2 DEF O
    <3>4. Requeued(S, p, O)
      BY <1>6, <1>7, <3>1, <3>2
    <3> QED BY <2>4, <3>1, <3>3, <3>4
  <2> QED BY <2>3, <2>4
<1> QED BY <1>7 DEF PlacesKept

LEMMA StepKeepsPlaces == IInv /\ [Next]_vars => [PlacesKept]_vars
<1> SUFFICES ASSUME IInv, Next PROVE PlacesKept
  OBVIOUS
<1>1. ASSUME book' = book, NoneGrows(null) PROVE PlacesKept
  BY <1>1, LinesKeepPlaces DEF LinesKept
<1>2. ASSUME NEW i \in OrderId, NEW p \in Price, NEW q \in Quantity, NEW s \in Side,
             NEW m \in BOOLEAN, Submit(i, p, q, s, m)
      PROVE  PlacesKept
  <2>1. NoneGrows(null)
    <3> SUFFICES ASSUME NEW t \in Side, NEW r \in Price, NEW x \in Linked(book[t], r)
                 PROVE  order'[x].quantity <= order[x].quantity
      BY DEF NoneGrows
    <3>1. x \in 1 .. Len(order) /\ x \notin Free /\ order[x] \in Order
      BY LinkedFacts
    <3>2. order'[x] = order[x]
      BY <1>2, <3>1, SubmitEffect
    <3>3. order[x].quantity \in Int
      BY <3>1, ConstantsAssumption DEF Order
    <3> QED BY <3>2, <3>3
  <2> QED BY <1>1, <1>2, <2>1 DEF Submit
<1>3. CASE FillMaker
  <2>1. NoneGrows(Maker)
    BY <1>3, FillMakerEffect, NoneChanges
  <2> QED BY <1>3, <2>1, FillMakerEffect, LinesKeepPlaces
<1>4. CASE FillTaker
  <2>1. NoneGrows(null)
    <3> SUFFICES ASSUME NEW t \in Side, NEW r \in Price, NEW x \in Linked(book[t], r)
                 PROVE  order'[x].quantity <= order[x].quantity
      BY DEF NoneGrows
    <3>1. x \in 1 .. Len(order) /\ x # taker /\ order[x] \in Order
      BY LinkedFacts
    <3>2. order[taker] \in Order
      BY <1>4, TakerFacts DEF FillTaker, Marketable
    <3>3. order[x].quantity \in Nat /\ order[taker].quantity \in Nat
      BY <3>1, <3>2, ConstantsAssumption DEF Order
    <3>4. \/ order'[x] = order[x]
          \/ order'[x] = [order[x] EXCEPT !.quantity = @ - order[taker].quantity]
      BY <1>4, <3>1, FillTakerEffect
    <3>5. \/ order'[x].quantity = order[x].quantity
          \/ order'[x].quantity = order[x].quantity - order[taker].quantity
      BY <3>1, <3>4 DEF Order
    <3> QED BY <3>3, <3>5
  <2> QED BY <1>4, <2>1, FillTakerEffect, LinesKeepPlaces
<1>5. CASE Finish
  <2>1. taker # null /\ (Rest \/ Discard)
    BY <1>5 DEF Finish
  <2>2. CASE Rest
    BY <2>1, <2>2, RestKeepsPlaces
  <2>3. CASE Discard
    <3>1. NoneGrows(null)
      BY <2>1, <2>3, DiscardEffect, NoneChanges
    <3> QED BY <1>1, <2>3, <3>1 DEF Discard
  <2> QED BY <2>1, <2>2, <2>3
<1>6. ASSUME NEW i \in OrderId, CancelOrder(i) PROVE PlacesKept
  <2>1. NoneGrows(orderMap[i])
    BY <1>6, CancelEffect, NoneChanges
  <2> QED BY <1>6, <2>1, CancelEffect, LinesKeepPlaces
<1>7. ASSUME NEW i \in OrderId, NEW new \in OrderId, NEW p \in Price, NEW q \in Quantity,
             ReduceOrder(i, new, p, q)
      PROVE  PlacesKept
  <2>1. NoneGrows(null)
    <3> SUFFICES ASSUME NEW t \in Side, NEW r \in Price, NEW x \in Linked(book[t], r)
                 PROVE  order'[x].quantity <= order[x].quantity
      BY DEF NoneGrows
    <3>1. x \in 1 .. Len(order) /\ order[x].quantity \in Int
      BY LinkedFacts, ConstantsAssumption DEF Order
    <3>2. order'[orderMap[i]].quantity = q /\ q < order[orderMap[i]].quantity
      <4>1. order'[orderMap[i]].quantity = q
        BY <1>7, ReduceEffect DEF Renamed
      <4>2. q < order[orderMap[i]].quantity
        BY <1>7 DEF ReduceOrder
      <4> QED BY <4>1, <4>2
    <3>3. q \in Int
      BY ConstantsAssumption
    <3>4. x # orderMap[i] => order'[x] = order[x]
      BY <1>7, <3>1, ReduceEffect
    <3> QED BY <3>1, <3>2, <3>3, <3>4
  <2> QED BY <1>7, <2>1, ReduceEffect, LinesKeepPlaces
<1>8. ASSUME NEW i \in OrderId, NEW new \in OrderId, NEW p \in Price, NEW q \in Quantity,
             ReplaceOrder(i, new, p, q)
      PROVE  PlacesKept
  BY <1>8, ReplaceKeepsPlaces
<1> QED BY <1>2, <1>3, <1>4, <1>5, <1>6, <1>7, <1>8 DEF Next

\* Whatever the ids, prices and quantities: the only order that is ever overtaken
\* at its price is one that its own client replaces in this very step, with one
\* that is not smaller; it goes behind all others (property TimePriority).
THEOREM TimePriorityHolds == Spec => TimePriority
<1>1. Spec => [][PlacesKept]_vars
  BY Invariance, StepKeepsPlaces, PTL DEF Spec
<1> QED BY <1>1 DEF TimePriority, PlacesKept

-----------------------------------------------------------------------------
(* Clients who give each live order an id of its own.  The index then knows *)
(* every order that rests, and the order in flight is not one of them.      *)

Rests(o) == o \in 1 .. Len(order) /\ o \notin Free /\ o # taker

UInv ==
  /\ \A o \in 1 .. Len(order) : Rests(o) =>
        order[o].id \in DOMAIN orderMap /\ orderMap[order[o].id] = o
  /\ taker # null => order[taker].id \notin DOMAIN orderMap

\* An order rests if some level links to it.
LEMMA RestsQueued ==
  ASSUME IInv
  PROVE  /\ \A o : Rests(o) <=> o \in Queued(book)
         /\ \A o : Rests(o) <=> LinkedIn(book, o)
<1>1. ASSUME NEW o \in 1 .. Len(order)
      PROVE  (Rests(o) <=> o \in Queued(book)) /\ (Rests(o) <=> LinkedIn(book, o))
  BY IInvImplies DEF PoolExact, Rests, IInv, Placed
<1>2. \A o : LinkedIn(book, o) => o \in 1 .. Len(order)
  BY Shapes, LinkedAddress DEF BookOK
<1> QED BY <1>1, <1>2 DEF Rests, Queued

\* The index leads to orders that rest, each under one id.
LEMMA IndexRests ==
  ASSUME IInv, NEW i \in DOMAIN orderMap
  PROVE  Rests(orderMap[i]) /\ order[orderMap[i]].id = i
BY IndexFacts DEF Rests

\* What the strengthening says is what the property says.
LEMMA UInvImplies == IInv /\ UInv => RestingIndexed
BY RestsQueued DEF UInv, RestingIndexed, Rests

\* An order leaves: its id leaves the index, and nothing else does.
LEMMA EraseUnique ==
  ASSUME IInv, UInv, NEW i \in DOMAIN orderMap,
         orderMap' = Erase(orderMap, i),
         Len(order') = Len(order), Free' = Free \cup {orderMap[i]}, taker' = taker,
         \A o \in 1 .. Len(order) : o # orderMap[i] => order'[o].id = order[o].id
  PROVE  UInv'
<1>1. /\ DOMAIN orderMap' = DOMAIN orderMap \ {i}
      /\ \A j \in DOMAIN orderMap' : orderMap'[j] = orderMap[j]
  BY DEF Erase
<1>2. ASSUME NEW o \in 1 .. Len(order), o \notin Free', o # taker
      PROVE  order'[o].id \in DOMAIN orderMap' /\ orderMap'[order'[o].id] = o
  <2>1. Rests(o) /\ o # orderMap[i] /\ order'[o].id = order[o].id
    BY <1>2 DEF Rests
  <2>2. order[o].id \in DOMAIN orderMap /\ orderMap[order[o].id] = o
    BY <2>1 DEF UInv
  <2>3. order[o].id # i
    BY <2>1, <2>2
  <2> QED BY <1>1, <2>1, <2>2, <2>3
<1>3. ASSUME taker # null PROVE order'[taker].id \notin DOMAIN orderMap'
  <2>1. taker \in 1 .. Len(order) /\ taker # orderMap[i]
    BY <1>3, TakerFacts, IndexFacts
  <2> QED BY <1>1, <1>3, <2>1 DEF UInv
<1> QED BY <1>2, <1>3 DEF UInv, Rests

\* A resting order is renamed to an id that no other resting order has.
LEMMA RenameUnique ==
  ASSUME IInv, UInv, ~ReuseIds, NEW i \in DOMAIN orderMap, NEW new, taker = null,
         MayName(new, {i}), orderMap' = Reindexed(i, new),
         Len(order') = Len(order), freeList' = freeList, taker' = taker,
         order'[orderMap[i]].id = new,
         \A o \in 1 .. Len(order) : o # orderMap[i] => order'[o] = order[o]
  PROVE  /\ UInv'
         /\ new = i \/ new \notin DOMAIN orderMap
<1>1. /\ DOMAIN orderMap' = (DOMAIN orderMap \ {i}) \cup {new}
      /\ orderMap'[new] = orderMap[i]
      /\ \A j \in DOMAIN orderMap' : j # new => orderMap'[j] = orderMap[j]
  BY DEF Reindexed, Put, Erase
<1>2. new = i \/ new \notin DOMAIN orderMap
  <2>1. ASSUME new \in DOMAIN orderMap PROVE new = i
    <3>1. Rests(orderMap[new]) /\ order[orderMap[new]].id = new
      BY <2>1, IndexRests
    <3> QED BY <3>1, RestsQueued DEF MayName, Rests
  <2> QED BY <2>1
<1>3. Free' = Free
  BY DEF Free
<1>4. ASSUME NEW o \in 1 .. Len(order), o \notin Free', o # taker
      PROVE  order'[o].id \in DOMAIN orderMap' /\ orderMap'[order'[o].id] = o
  <2>1. Rests(o)
    BY <1>3, <1>4 DEF Rests
  <2>2. order[o].id \in DOMAIN orderMap /\ orderMap[order[o].id] = o
    BY <2>1 DEF UInv
  <2>3. CASE o = orderMap[i]
    BY <1>1, <2>3
  <2>4. CASE o # orderMap[i]
    <3>1. order'[o].id = order[o].id /\ order[o].id # i /\ order[o].id # new
      BY <1>2, <2>2, <2>4
    <3> QED BY <1>1, <2>2, <3>1
  <2> QED BY <2>3, <2>4
<1>5. UInv'
  BY <1>4 DEF UInv, Rests
<1> QED BY <1>2, <1>5

\* A new order is in flight under an id that no resting order has.
LEMMA SubmitUnique ==
  ASSUME IInv, UInv, ~ReuseIds, NEW i \in OrderId, NEW p \in Price, NEW q \in Quantity,
         NEW s \in Side, NEW m \in BOOLEAN, Submit(i, p, q, s, m)
  PROVE  UInv' /\ i \notin DOMAIN orderMap
<1>1. taker = null /\ MayName(i, {}) /\ orderMap' = orderMap
  BY DEF Submit
<1>2. /\ taker' \in Nat \ {null} /\ order'[taker'].id = i
      /\ \A o \in 1 .. Len(order') : o # taker' /\ o \notin Free' =>
            o \in 1 .. Len(order) /\ o \notin Free
      /\ \A o \in 1 .. Len(order) : o \notin Free => o # taker' /\ order'[o] = order[o]
  <2>1. order'[taker'] =
          [id |-> i, price |-> p, quantity |-> q, side |-> s, isMarket |-> m]
    BY SubmitEffect
  <2>2. order'[taker'].id = i
    BY <2>1
  <2> QED BY <2>2, SubmitEffect
<1>3. i \notin DOMAIN orderMap
  <2>1. ASSUME i \in DOMAIN orderMap PROVE FALSE
    <3>1. Rests(orderMap[i]) /\ order[orderMap[i]].id = i
      BY <2>1, IndexRests
    <3> QED BY <1>1, <3>1, RestsQueued DEF MayName, Rests
  <2> QED BY <2>1
<1>4. ASSUME NEW o \in 1 .. Len(order'), o # taker', o \notin Free'
      PROVE  order'[o].id \in DOMAIN orderMap' /\ orderMap'[order'[o].id] = o
  <2>1. Rests(o) /\ order'[o] = order[o]
    BY <1>1, <1>2, <1>4 DEF Rests, null
  <2> QED BY <1>1, <2>1 DEF UInv, Rests
<1> QED BY <1>1, <1>2, <1>3, <1>4 DEF UInv, Rests

LEMMA FillMakerUnique == ASSUME IInv, UInv, FillMaker PROVE UInv'
<1> DEFINE M == Maker
           i == order[M].id
<1>1. /\ Marketable /\ taker # null /\ taker' = taker /\ orderMap' = Erase(orderMap, i)
  BY DEF FillMaker, Marketable
<1>2. Rests(M)
  BY <1>1, MakerFacts, LinkedFacts DEF Rests
<1>3. i \in DOMAIN orderMap /\ orderMap[i] = M
  BY <1>2 DEF UInv, Rests
<1>4. /\ Len(order') = Len(order) /\ Free' = Free \cup {M}
      /\ order'[taker].id = order[taker].id
      /\ \A o \in 1 .. Len(order) : o # M /\ o # taker => order'[o] = order[o]
  <2>1. order[taker] \in Order
    BY <1>1, TakerFacts
  <2>2. order'[taker] = [order[taker] EXCEPT !.quantity = @ - order[M].quantity]
    BY FillMakerEffect
  <2> QED BY <2>1, <2>2, FillMakerEffect DEF Order
<1> HIDE DEF M, i
<1>5. \A o \in 1 .. Len(order) : o # M => order'[o].id = order[o].id
  BY <1>4
<1> QED BY <1>1, <1>3, <1>4, <1>5, EraseUnique

LEMMA FillTakerUnique == ASSUME IInv, UInv, FillTaker PROVE UInv'
<1> DEFINE M == Maker
<1>1. Marketable /\ taker # null /\ taker' = taker /\ orderMap' = orderMap
  BY DEF FillTaker, Marketable
<1>2. Rests(M)
  BY <1>1, MakerFacts, LinkedFacts DEF Rests
<1>3. /\ taker \in 1 .. Len(order) /\ order[taker] \in Order /\ order[M] \in Order
  BY <1>1, <1>2, TakerFacts DEF IInv, Held, Rests
<1>4. /\ Len(order') = Len(order) /\ Free' = Free
      /\ \A o \in 1 .. Len(order) : order'[o].id = order[o].id
  <2>1. /\ order'[taker] = [order[taker] EXCEPT !.quantity = 0]
        /\ order'[M] = [order[M] EXCEPT !.quantity = @ - order[taker].quantity]
        /\ \A o \in 1 .. Len(order) : o # M /\ o # taker => order'[o] = order[o]
    BY FillTakerEffect
  <2> HIDE DEF M
  <2>2. order'[taker].id = order[taker].id /\ order'[M].id = order[M].id
    BY <1>3, <2>1 DEF Order
  <2> QED BY <2>1, <2>2, FillTakerEffect DEF M
<1> QED BY <1>1, <1>3, <1>4 DEF UInv, Rests

\* A taker that comes to rest enters the index under its own id.
LEMMA FinishUnique == ASSUME IInv, UInv, Finish PROVE UInv'
<1>1. taker # null /\ taker' = null
  BY DEF Finish
<1>2. taker \in 1 .. Len(order) /\ order[taker].id \notin DOMAIN orderMap
  BY <1>1, TakerFacts DEF UInv
<1>3. CASE Rest
  <2>1. /\ orderMap' = Put(orderMap, order[taker].id, taker)
        /\ order' = order /\ freeList' = freeList
    BY <1>3 DEF Rest
  <2>2. ASSUME NEW o \in 1 .. Len(order), o \notin Free
        PROVE  order[o].id \in DOMAIN orderMap' /\ orderMap'[order[o].id] = o
    <3>1. CASE o = taker
      BY <2>1, <3>1 DEF Put
    <3>2. CASE o # taker
      BY <1>2, <2>1, <2>2, <3>2 DEF UInv, Rests, Put
    <3> QED BY <3>1, <3>2
  <2> QED BY <1>1, <2>1, <2>2 DEF UInv, Rests, Free
<1>4. CASE Discard
  <2>1. orderMap' = orderMap
    BY <1>4 DEF Discard
  <2>2. /\ Len(order') = Len(order) /\ Free' = Free \cup {taker}
        /\ \A o \in 1 .. Len(order) : o # taker => order'[o] = order[o]
    BY <1>1, <1>4, DiscardEffect
  <2> QED BY <1>1, <2>1, <2>2 DEF UInv, Rests
<1> QED BY <1>3, <1>4 DEF Finish

LEMMA NextUInv == IInv /\ UInv /\ ~ReuseIds /\ [Next]_vars => UInv'
<1> SUFFICES ASSUME IInv, UInv, ~ReuseIds, [Next]_vars PROVE UInv'
  OBVIOUS
<1>1. ASSUME NEW i \in OrderId, NEW p \in Price, NEW q \in Quantity, NEW s \in Side,
             NEW m \in BOOLEAN, Submit(i, p, q, s, m)
      PROVE  UInv'
  BY <1>1, SubmitUnique
<1>2. CASE FillMaker
  BY <1>2, FillMakerUnique
<1>3. CASE FillTaker
  BY <1>3, FillTakerUnique
<1>4. CASE Finish
  BY <1>4, FinishUnique
<1>5. ASSUME NEW i \in OrderId, CancelOrder(i) PROVE UInv'
  <2>1. i \in DOMAIN orderMap /\ orderMap' = Erase(orderMap, i) /\ taker' = taker
    BY <1>5 DEF CancelOrder
  <2> QED BY <1>5, <2>1, CancelEffect, EraseUnique
<1>6. ASSUME NEW i \in OrderId, NEW new \in OrderId, NEW p \in Price, NEW q \in Quantity,
             ReduceOrder(i, new, p, q)
      PROVE  UInv'
  <2>1. /\ i \in DOMAIN orderMap /\ taker = null /\ MayName(new, {i})
        /\ orderMap' = Reindexed(i, new) /\ freeList' = freeList /\ taker' = taker
    BY <1>6 DEF ReduceOrder
  <2> QED BY <1>6, <2>1, ReduceEffect, RenameUnique DEF Renamed
<1>7. ASSUME NEW i \in OrderId, NEW new \in OrderId, NEW p \in Price, NEW q \in Quantity,
             ReplaceOrder(i, new, p, q)
      PROVE  UInv'
  <2>1. /\ i \in DOMAIN orderMap /\ taker = null /\ MayName(new, {i})
        /\ orderMap' = Reindexed(i, new) /\ freeList' = freeList /\ taker' = taker
    BY <1>7 DEF ReplaceOrder
  <2> QED BY ZenonT(40), <1>7, <2>1, ReplaceEffect, RenameUnique DEF Renamed
<1>8. CASE UNCHANGED vars
  BY <1>8 DEF vars, UInv, Rests, Free
<1> QED BY <1>1, <1>2, <1>3, <1>4, <1>5, <1>6, <1>7, <1>8 DEF Next

LEMMA InitUInv == Init => UInv
<1> SUFFICES ASSUME Init PROVE UInv
  OBVIOUS
<1>1. Len(order) = PoolSize /\ Free = 1 .. PoolSize /\ taker = null
  BY ConstantsAssumption DEF Init, Free, Range
<1> QED BY <1>1 DEF UInv, Rests

LEMMA UniqueInvariance == ~ReuseIds /\ Spec => [](IInv /\ UInv)
<1> SUFFICES ASSUME ~ReuseIds PROVE Spec => [](IInv /\ UInv)
  OBVIOUS
<1>1. IInv /\ UInv /\ [Next]_vars => (IInv /\ UInv)'
  BY NextIInv, NextUInv
<1> QED BY <1>1, InitIInv, InitUInv, PTL DEF Spec

\* For clients who give each live order an id of its own, whatever their
\* prices and quantities: a resting order is found by its id (property
\* RestingIndexed).
THEOREM RestingStayIndexed == ~ReuseIds => (Spec => []RestingIndexed)
<1> SUFFICES ASSUME ~ReuseIds PROVE Spec => []RestingIndexed
  OBVIOUS
<1> QED BY UniqueInvariance, UInvImplies, PTL

-----------------------------------------------------------------------------
(* The clients' view, read off the index.                                  *)

Ids == DOMAIN orderMap

\* Of two ids that rest, one is served before the other at their price.
Before(i, j) == \E s \in Side, p \in Price : Ahead(book, s, p, orderMap[i], orderMap[j])

\* The order of an id, and its terms.
LEMMA ViewOfOrders ==
  IInv /\ UInv => RestingIds = Ids /\ RestingView = [i \in Ids |-> Terms(orderMap[i])]
<1> SUFFICES ASSUME IInv, UInv
    PROVE RestingIds = Ids /\ RestingView = [i \in Ids |-> Terms(orderMap[i])]
  OBVIOUS
<1>1. ASSUME NEW o \in Queued(book) PROVE order[o].id \in Ids /\ orderMap[order[o].id] = o
  BY RestsQueued DEF UInv, Rests, Ids
<1>2. ASSUME NEW i \in Ids PROVE orderMap[i] \in Queued(book) /\ order[orderMap[i]].id = i
  BY IndexRests, RestsQueued DEF Ids
<1>3. RestingIds = Ids
  BY <1>1, <1>2 DEF RestingIds
<1>4. ASSUME NEW i \in Ids PROVE AddressOf(i) = orderMap[i]
  <2>1. \A o \in Queued(book) : order[o].id = i <=> o = orderMap[i]
    BY <1>1, <1>2
  <2> QED BY <1>2, <2>1 DEF AddressOf
<1> QED BY <1>3, <1>4 DEF RestingView

\* A pair of ids stands for two orders of one line.
LEMMA ViewOfLines ==
  IInv /\ UInv => AheadView = {pair \in Ids \X Ids : Before(pair[1], pair[2])}
<1> SUFFICES ASSUME IInv, UInv
    PROVE AheadView = {pair \in Ids \X Ids : Before(pair[1], pair[2])}
  OBVIOUS
<1> DEFINE lines == UNION {PairsInFront(Queue(book[s], p)) : s \in Side, p \in Price}
<1>1. ASSUME NEW x, NEW y
      PROVE  <<x, y>> \in lines <=> \E s \in Side, p \in Price : Ahead(book, s, p, x, y)
  <2>1. ASSUME NEW q PROVE <<x, y>> \in PairsInFront(q) <=> InFront(q, x, y)
    <3> DEFINE places == {ij \in (DOMAIN q) \X (DOMAIN q) : ij[1] < ij[2]}
    <3>1. <<x, y>> \in PairsInFront(q) <=> \E ij \in places : <<x, y>> = <<q[ij[1]], q[ij[2]]>>
      BY DEF PairsInFront
    <3>2. ASSUME <<x, y>> \in PairsInFront(q) PROVE InFront(q, x, y)
      <4>1. PICK ij \in places : <<x, y>> = <<q[ij[1]], q[ij[2]]>>
        BY <3>1, <3>2
      <4>2. /\ ij[1] \in DOMAIN q /\ ij[2] \in DOMAIN q /\ ij[1] < ij[2]
            /\ q[ij[1]] = x /\ q[ij[2]] = y
        BY <4>1
      <4> QED BY <4>2 DEF InFront
    <3>3. ASSUME InFront(q, x, y) PROVE <<x, y>> \in PairsInFront(q)
      <4>1. PICK i \in DOMAIN q, j \in DOMAIN q : i < j /\ q[i] = x /\ q[j] = y
        BY <3>3 DEF InFront
      <4>2. <<i, j>> \in places
        BY <4>1
      <4> QED BY <3>1, <4>1, <4>2
    <3> QED BY <3>2, <3>3
  <2> QED BY <2>1 DEF Ahead
<1>2. \A pair \in lines : \E x, y : pair = <<x, y>>
  BY DEF PairsInFront
<1>3. AheadView = {<<order[pair[1]].id, order[pair[2]].id>> : pair \in lines}
  BY DEF AheadView
<1> HIDE DEF lines
<1>4. ASSUME NEW s \in Side, NEW p \in Price, NEW x, NEW y, Ahead(book, s, p, x, y)
      PROVE  /\ order[x].id \in Ids /\ orderMap[order[x].id] = x
             /\ order[y].id \in Ids /\ orderMap[order[y].id] = y
  <2>1. x \in Linked(book[s], p) /\ y \in Linked(book[s], p)
    BY <1>4, Shapes, AheadLinked DEF BookOK
  <2>2. Rests(x) /\ Rests(y)
    BY <2>1, RestsQueued DEF LinkedIn
  <2> QED BY <2>2 DEF UInv, Rests, Ids
<1>5. ASSUME NEW i \in Ids PROVE order[orderMap[i]].id = i
  BY IndexRests DEF Ids
<1>6. ASSUME NEW pair \in AheadView
      PROVE  pair \in Ids \X Ids /\ Before(pair[1], pair[2])
  <2>1. PICK old \in lines : pair = <<order[old[1]].id, order[old[2]].id>>
    BY <1>3
  <2>2. PICK x, y : old = <<x, y>>
    BY <1>2
  <2>3. \E s \in Side, p \in Price : Ahead(book, s, p, x, y)
    BY <1>1, <2>2
  <2>4. pair = <<order[x].id, order[y].id>>
    BY <2>1, <2>2
  <2> QED BY <1>4, <2>3, <2>4 DEF Before
<1>7. ASSUME NEW i \in Ids, NEW j \in Ids, Before(i, j) PROVE <<i, j>> \in AheadView
  <2>1. <<orderMap[i], orderMap[j]>> \in lines
    BY <1>1, <1>7 DEF Before
  <2>2. <<order[orderMap[i]].id, order[orderMap[j]].id>> \in AheadView
    BY <1>3, <2>1
  <2> QED BY <1>5, <2>2
<1> QED BY <1>6, <1>7

\* An id is at the price where its order is linked.
LEMMA ViewOfPlaces ==
  ASSUME IInv, NEW i \in Ids, NEW s \in Side, NEW p \in Price
  PROVE  /\ Terms(orderMap[i]) \in [side : Side, price : Price, quantity : 0 .. QtyMod - 1]
         /\ orderMap[i] \in Linked(book[s], p) <=>
              Terms(orderMap[i]).side = s /\ Terms(orderMap[i]).price = p
<1>1. /\ order[orderMap[i]] \in Order
      /\ orderMap[i] \in Linked(book[order[orderMap[i]].side], order[orderMap[i]].price)
      /\ OnlyAt(book, orderMap[i], order[orderMap[i]].side, order[orderMap[i]].price)
  BY IndexFacts DEF Ids
<1> QED BY <1>1 DEF Terms, OnlyAt, Order

-----------------------------------------------------------------------------
(* The refinement, action by action.                                       *)

BothInv == IInv /\ UInv /\ IInv' /\ UInv'

TermsAfter(o) ==
  [side |-> order'[o].side, price |-> order'[o].price, quantity |-> order'[o].quantity]

BeforeAfter(i, j) ==
  \E s \in Side, p \in Price : Ahead(book', s, p, orderMap'[i], orderMap'[j])

\* The view before a step and after it.
LEMMA Views ==
  ASSUME BothInv
  PROVE  /\ RestingIds = Ids
         /\ RestingView = [i \in Ids |-> Terms(orderMap[i])]
         /\ RestingView' = [i \in DOMAIN orderMap' |-> TermsAfter(orderMap'[i])]
         /\ AheadView = {pair \in Ids \X Ids : Before(pair[1], pair[2])}
         /\ AheadView' = {pair \in (DOMAIN orderMap') \X (DOMAIN orderMap') :
                            BeforeAfter(pair[1], pair[2])}
<1>1. /\ RestingIds = Ids
      /\ RestingView = [i \in Ids |-> Terms(orderMap[i])]
      /\ AheadView = {pair \in Ids \X Ids : Before(pair[1], pair[2])}
  BY ViewOfOrders, ViewOfLines DEF BothInv
<1>2. (IInv /\ UInv => /\ RestingView = [i \in Ids |-> Terms(orderMap[i])]
                       /\ AheadView = {pair \in Ids \X Ids : Before(pair[1], pair[2])})'
  BY ViewOfOrders, ViewOfLines, PTL
<1>3. /\ RestingView' = [i \in Ids' |-> Terms(orderMap[i])']
      /\ AheadView' = {pair \in Ids' \X Ids' : Before(pair[1], pair[2])'}
  BY <1>2 DEF BothInv
<1>4. /\ Ids' = DOMAIN orderMap'
      /\ \A i : Terms(orderMap[i])' = TermsAfter(orderMap'[i])
      /\ \A i, j : Before(i, j)' <=> BeforeAfter(i, j)
  BY DEF Ids, Terms, TermsAfter, Before, BeforeAfter
<1> QED BY <1>1, <1>3, <1>4

\* An order has one id.
LEMMA IdsDiffer ==
  ASSUME IInv, NEW i \in Ids, NEW j \in Ids, orderMap[i] = orderMap[j]
  PROVE  i = j
BY IndexRests DEF Ids

\* What clients see stays, if the index, the lines and the terms do.
LEMMA ViewKept ==
  ASSUME BothInv, orderMap' = orderMap, LinesKept(book', book),
         \A i \in Ids : TermsAfter(orderMap[i]) = Terms(orderMap[i])
  PROVE  RestingView' = RestingView /\ AheadView' = AheadView
<1>1. \A i, j : BeforeAfter(i, j) <=> Before(i, j)
  BY DEF BeforeAfter, Before, LinesKept
<1> QED BY <1>1, Views DEF Ids

\* An order leaves the book and the index: its id leaves the view.
LEMMA ViewLess ==
  ASSUME BothInv, NEW i \in Ids, orderMap' = Erase(orderMap, i),
         LinesLess(book', book, orderMap[i]),
         \A j \in Ids : j # i => TermsAfter(orderMap[j]) = Terms(orderMap[j])
  PROVE  RestingView' = PTB!Without(i) /\ AheadView' = PTB!AheadWithout(i)
<1>1. /\ DOMAIN orderMap' = Ids \ {i}
      /\ \A j \in Ids \ {i} : orderMap'[j] = orderMap[j]
  BY DEF Erase, Ids
<1>2. DOMAIN RestingView = Ids /\ \A j \in Ids : RestingView[j] = Terms(orderMap[j])
  BY Views
<1>3. RestingView' = PTB!Without(i)
  <2>1. PTB!Without(i) = [j \in Ids \ {i} |-> RestingView[j]]
    BY <1>2 DEF PTB!Without, PTB!Ids
  <2>2. RestingView' = [j \in Ids \ {i} |-> TermsAfter(orderMap'[j])]
    BY <1>1, Views
  <2>3. \A j \in Ids \ {i} : TermsAfter(orderMap'[j]) = RestingView[j]
    BY <1>1, <1>2
  <2> QED BY <2>1, <2>2, <2>3
<1>4. ASSUME NEW j \in Ids \ {i}, NEW k \in Ids \ {i}
      PROVE  BeforeAfter(j, k) <=> Before(j, k)
  <2>1. orderMap[j] # orderMap[i] /\ orderMap[k] # orderMap[i]
    BY IdsDiffer DEF BothInv
  <2> QED BY <1>1, <2>1 DEF BeforeAfter, Before, LinesLess
<1>5. AheadView' = PTB!AheadWithout(i)
  <2>1. AheadView' = {pair \in (Ids \ {i}) \X (Ids \ {i}) : BeforeAfter(pair[1], pair[2])}
    BY <1>1, Views
  <2>2. AheadView = {pair \in Ids \X Ids : Before(pair[1], pair[2])}
    BY Views
  <2>3. PTB!AheadWithout(i) = {pair \in AheadView : pair[1] # i /\ pair[2] # i}
    BY DEF PTB!AheadWithout
  <2>4. ASSUME NEW pair PROVE pair \in AheadView' <=> pair \in PTB!AheadWithout(i)
    BY <1>4, <2>1, <2>2, <2>3
  <2>5. AheadView' \subseteq PTB!AheadWithout(i) /\ PTB!AheadWithout(i) \subseteq AheadView'
    BY <2>4
  <2> QED BY <2>5
<1> QED BY <1>3, <1>5

\* A new order is in flight; nothing that rests has changed.
LEMMA SubmitRefines ==
  ASSUME BothInv, ~ReuseIds, NEW i \in OrderId, NEW p \in Price, NEW q \in Quantity,
         NEW s \in Side, NEW m \in BOOLEAN, Submit(i, p, q, s, m)
  PROVE  PTB!Submit(i, p, q, s, m)
<1> DEFINE new == [id |-> i, price |-> p, quantity |-> q, side |-> s, isMarket |-> m]
<1>1. taker = null /\ orderMap' = orderMap /\ book' = book /\ trade' = NoTrade
  BY DEF Submit
<1>2. taker' # null /\ order'[taker'] = new
  BY SubmitEffect DEF BothInv
<1>3. IncomingView = {} /\ IncomingView' = {new}
  BY <1>1, <1>2 DEF IncomingView
<1>4. new = [id |-> i, side |-> s, price |-> p, quantity |-> q, isMarket |-> m]
  OBVIOUS
<1> HIDE DEF new
<1>5. i \notin PTB!Ids
  <2>1. DOMAIN RestingView = Ids
    BY Views
  <2> QED BY <2>1, SubmitUnique DEF BothInv, PTB!Ids, Ids
<1>6. RestingView' = RestingView /\ AheadView' = AheadView
  <2>1. LinesKept(book', book)
    BY <1>1 DEF LinesKept
  <2>2. ASSUME NEW j \in Ids PROVE TermsAfter(orderMap[j]) = Terms(orderMap[j])
    <3>1. orderMap[j] \in 1 .. Len(order) /\ orderMap[j] \notin Free
      BY IndexFacts DEF BothInv, Ids
    <3>2. order'[orderMap[j]] = order[orderMap[j]]
      BY <3>1, SubmitEffect DEF BothInv
    <3> QED BY <3>2 DEF TermsAfter, Terms
  <2> QED BY <1>1, <2>1, <2>2, ViewKept
<1> QED BY <1>1, <1>3, <1>4, <1>5, <1>6 DEF PTB!Submit, PTB!NoTrade, NoTrade

LEMMA CancelRefines ==
  ASSUME BothInv, NEW i \in OrderId, CancelOrder(i)
  PROVE  PTB!Cancel(i)
<1>1. /\ taker = null /\ taker' = null /\ i \in Ids /\ trade' = NoTrade
      /\ orderMap' = Erase(orderMap, i)
  BY DEF CancelOrder, Ids
<1>2. IncomingView = {} /\ IncomingView' = {}
  BY <1>1 DEF IncomingView
<1>3. i \in PTB!Ids
  BY <1>1, Views DEF PTB!Ids
<1>4. ASSUME NEW j \in Ids, j # i PROVE TermsAfter(orderMap[j]) = Terms(orderMap[j])
  <2>1. orderMap[j] \in 1 .. Len(order) /\ orderMap[j] # orderMap[i]
    BY <1>1, <1>4, IndexFacts, IdsDiffer DEF BothInv, Ids
  <2>2. order'[orderMap[j]] = order[orderMap[j]]
    BY <2>1, CancelEffect DEF BothInv
  <2> QED BY <2>2 DEF TermsAfter, Terms
<1>5. LinesLess(book', book, orderMap[i])
  BY CancelEffect DEF BothInv
<1>6. RestingView' = PTB!Without(i) /\ AheadView' = PTB!AheadWithout(i)
  BY <1>1, <1>4, <1>5, ViewLess
<1> QED BY <1>1, <1>2, <1>3, <1>6 DEF PTB!Cancel, PTB!NoTrade, NoTrade

\* Those behind whom an order joins the line of a price are the orders there.
LEMMA BehindFacts ==
  ASSUME BothInv, NEW others, others \subseteq Ids, NEW k, NEW s \in Side, NEW p \in Price
  PROVE  PTB!Behind(k, others, s, p) =
           {<<j, k>> : j \in {j \in others : orderMap[j] \in Linked(book[s], p)}}
<1>1. \A j \in others : PTB!SamePlace(j, s, p) <=> orderMap[j] \in Linked(book[s], p)
  <2>1. \A j \in others : RestingView[j] = Terms(orderMap[j])
    BY Views
  <2> QED BY <2>1, ViewOfPlaces DEF BothInv, PTB!SamePlace
<1>2. {j \in others : PTB!SamePlace(j, s, p)} =
        {j \in others : orderMap[j] \in Linked(book[s], p)}
  BY <1>1
<1> QED BY <1>2 DEF PTB!Behind

\* The index after a renaming.
LEMMA ReindexedFacts ==
  ASSUME NEW i \in Ids, NEW new, orderMap' = Reindexed(i, new)
  PROVE  /\ DOMAIN orderMap' = (Ids \ {i}) \cup {new}
         /\ orderMap'[new] = orderMap[i]
         /\ \A k \in Ids \ {i} : k # new => orderMap'[k] = orderMap[k]
BY DEF Reindexed, Put, Erase, Ids

\* The terms after a replacement.
Revised(i, new, p, q) ==
  [k \in (Ids \ {i}) \cup {new} |->
     IF k = new THEN [side |-> RestingView[i].side, price |-> p, quantity |-> q]
     ELSE RestingView[k]]

LEMMA ReplaceTerms ==
  ASSUME BothInv, NEW i \in Ids, NEW new, NEW p, NEW q,
         new = i \/ new \notin Ids, orderMap' = Reindexed(i, new),
         Renamed(orderMap[i], new, p, q),
         \A o \in 1 .. Len(order) : o # orderMap[i] => order'[o] = order[o]
  PROVE  RestingView' = Revised(i, new, p, q)
<1>1. /\ DOMAIN orderMap' = (Ids \ {i}) \cup {new}
      /\ orderMap'[new] = orderMap[i]
      /\ \A k \in Ids \ {i} : k # new => orderMap'[k] = orderMap[k]
  BY DEF Reindexed, Put, Erase, Ids
<1>2. DOMAIN RestingView = Ids /\ \A j \in Ids : RestingView[j] = Terms(orderMap[j])
  BY Views
<1>3. RestingView' = [k \in (Ids \ {i}) \cup {new} |-> TermsAfter(orderMap'[k])]
  BY <1>1, Views
<1>4. TermsAfter(orderMap'[new]) =
        [side |-> RestingView[i].side, price |-> p, quantity |-> q]
  BY <1>1, <1>2 DEF Renamed, TermsAfter, Terms
<1>5. ASSUME NEW k \in Ids \ {i}, k # new PROVE TermsAfter(orderMap'[k]) = RestingView[k]
  <2>1. orderMap[k] \in 1 .. Len(order) /\ orderMap[k] # orderMap[i]
    BY IndexFacts, IdsDiffer DEF BothInv, Ids
  <2> QED BY <1>1, <1>2, <1>5, <2>1 DEF TermsAfter, Terms
<1>6. \A k \in (Ids \ {i}) \cup {new} :
         TermsAfter(orderMap'[k]) =
           IF k = new THEN [side |-> RestingView[i].side, price |-> p, quantity |-> q]
           ELSE RestingView[k]
  BY <1>4, <1>5
<1> QED BY <1>3, <1>6 DEF Revised

\* In the same place under the new id.
LEMMA ReduceLines ==
  ASSUME BothInv, NEW i \in Ids, NEW new,
         new = i \/ new \notin Ids, orderMap' = Reindexed(i, new), LinesKept(book', book)
  PROVE  AheadView' = {<<IF pair[1] = i THEN new ELSE pair[1],
                         IF pair[2] = i THEN new ELSE pair[2]>> : pair \in AheadView}
<1> DEFINE rename(k) == IF k = i THEN new ELSE k
           renamed == {<<rename(pair[1]), rename(pair[2])>> : pair \in AheadView}
<1>1. /\ DOMAIN orderMap' = (Ids \ {i}) \cup {new}
      /\ orderMap'[new] = orderMap[i]
      /\ \A k \in Ids \ {i} : k # new => orderMap'[k] = orderMap[k]
  BY ReindexedFacts
<1>2. \A k \in Ids : rename(k) \in DOMAIN orderMap' /\ orderMap'[rename(k)] = orderMap[k]
  BY <1>1
<1>3. \A k \in DOMAIN orderMap' : \E j \in Ids : k = rename(j)
  BY <1>1
<1> HIDE DEF rename
<1>4. \A j, k \in Ids : BeforeAfter(rename(j), rename(k)) <=> Before(j, k)
  BY <1>2 DEF BeforeAfter, Before, LinesKept
<1>5. /\ AheadView = {pair \in Ids \X Ids : Before(pair[1], pair[2])}
      /\ AheadView' = {pair \in (DOMAIN orderMap') \X (DOMAIN orderMap') :
                         BeforeAfter(pair[1], pair[2])}
  BY Views
<1>6. ASSUME NEW pair \in AheadView' PROVE pair \in renamed
  <2>1. /\ pair = <<pair[1], pair[2]>>
        /\ pair[1] \in DOMAIN orderMap' /\ pair[2] \in DOMAIN orderMap'
        /\ BeforeAfter(pair[1], pair[2])
    BY <1>5
  <2>2. PICK j \in Ids, k \in Ids : pair[1] = rename(j) /\ pair[2] = rename(k)
    BY <1>3, <2>1
  <2>3. Before(j, k)
    BY <1>4, <2>1, <2>2
  <2>4. <<j, k>> \in AheadView
    BY <1>5, <2>3
  <2>5. pair = <<rename(<<j, k>>[1]), rename(<<j, k>>[2])>>
    BY <2>1, <2>2
  <2> QED BY <2>4, <2>5
<1>7. ASSUME NEW pair \in AheadView PROVE <<rename(pair[1]), rename(pair[2])>> \in AheadView'
  <2>1. pair[1] \in Ids /\ pair[2] \in Ids /\ Before(pair[1], pair[2])
    BY <1>5
  <2> QED BY <1>2, <1>4, <1>5, <2>1
<1>8. AheadView' = renamed
  BY <1>6, <1>7
<1> QED BY <1>8 DEF rename

\* At the end of the line of the new price, under the new id.
LEMMA ReplaceLines ==
  ASSUME BothInv, NEW i \in Ids, NEW new, NEW s \in Side, NEW p \in Price,
         new = i \/ new \notin Ids, orderMap' = Reindexed(i, new),
         \A t \in Side, r \in Price : \A x, y :
            Ahead(book', t, r, x, y) <=>
              \/ Ahead(book, t, r, x, y) /\ x # orderMap[i] /\ y # orderMap[i]
              \/ /\ t = s /\ r = p /\ y = orderMap[i]
                 /\ x \in Linked(book[s], p) \ {orderMap[i]}
  PROVE  AheadView' = PTB!AheadWithout(i) \cup PTB!Behind(new, PTB!Ids \ {i}, s, p)
<1> DEFINE joins == {<<j, new>> : j \in {j \in Ids \ {i} : orderMap[j] \in Linked(book[s], p)}}
<1>1. /\ DOMAIN orderMap' = (Ids \ {i}) \cup {new}
      /\ orderMap'[new] = orderMap[i]
      /\ \A k \in Ids \ {i} : k # new => orderMap'[k] = orderMap[k]
  BY ReindexedFacts
<1>2. PTB!Behind(new, PTB!Ids \ {i}, s, p) = joins
  <2>1. PTB!Ids = Ids
    BY Views DEF PTB!Ids
  <2>2. Ids \ {i} \subseteq Ids
    OBVIOUS
  <2> QED BY <2>1, <2>2, BehindFacts
<1>3. \A k \in Ids \ {i} : k # new /\ orderMap'[k] = orderMap[k] /\ orderMap[k] # orderMap[i]
  BY <1>1, IdsDiffer DEF BothInv
<1>4. /\ AheadView = {pair \in Ids \X Ids : Before(pair[1], pair[2])}
      /\ AheadView' = {pair \in (DOMAIN orderMap') \X (DOMAIN orderMap') :
                         BeforeAfter(pair[1], pair[2])}
  BY Views
<1>5. ASSUME NEW j \in Ids \ {i}, NEW k \in Ids \ {i}
      PROVE  BeforeAfter(j, k) <=> Before(j, k)
  BY <1>3 DEF BeforeAfter, Before
<1>6. ASSUME NEW j \in Ids \ {i}
      PROVE  /\ BeforeAfter(j, new) <=> orderMap[j] \in Linked(book[s], p)
             /\ ~BeforeAfter(new, j)
  BY <1>1, <1>3 DEF BeforeAfter
<1>7. ~BeforeAfter(new, new)
  BY <1>1 DEF BeforeAfter
<1>8. PTB!AheadWithout(i) = {pair \in AheadView : pair[1] # i /\ pair[2] # i}
  BY DEF PTB!AheadWithout
<1>9. ASSUME NEW j \in DOMAIN orderMap', NEW k \in DOMAIN orderMap', BeforeAfter(j, k)
      PROVE  <<j, k>> \in PTB!AheadWithout(i) \cup joins
  <2>1. j \in Ids \ {i}
    BY <1>1, <1>6, <1>7, <1>9
  <2>2. CASE k = new
    BY <1>6, <1>9, <2>1, <2>2
  <2>3. CASE k # new
    <3>1. k \in Ids \ {i} /\ Before(j, k)
      BY <1>1, <1>5, <1>9, <2>1, <2>3
    <3> QED BY <1>4, <1>8, <2>1, <3>1
  <2> QED BY <2>2, <2>3
<1>10. AheadView' \subseteq PTB!AheadWithout(i) \cup joins
  BY <1>4, <1>9
<1>11. PTB!AheadWithout(i) \subseteq AheadView'
  <2>1. ASSUME NEW pair \in PTB!AheadWithout(i) PROVE pair \in AheadView'
    <3>1. /\ pair \in Ids \X Ids /\ pair[1] # i /\ pair[2] # i
          /\ Before(pair[1], pair[2])
      BY <1>4, <1>8
    <3>2. pair[1] \in Ids \ {i} /\ pair[2] \in Ids \ {i}
      BY <3>1
    <3>3. BeforeAfter(pair[1], pair[2])
      BY <1>5, <3>1, <3>2
    <3> QED BY <1>1, <1>4, <3>1, <3>2, <3>3
  <2> QED BY <2>1
<1>12. joins \subseteq AheadView'
  BY <1>1, <1>4, <1>6
<1> QED BY <1>2, <1>10, <1>11, <1>12

\* What the two cases of modifyOrder have in common.
LEMMA ModifyFacts ==
  ASSUME BothInv, ~ReuseIds, NEW i \in OrderId, NEW new \in OrderId, NEW p \in Price,
         NEW q \in Quantity, ReduceOrder(i, new, p, q) \/ ReplaceOrder(i, new, p, q)
  PROVE  /\ i \in Ids /\ (new = i \/ new \notin Ids) /\ orderMap' = Reindexed(i, new)
         /\ IncomingView = {} /\ IncomingView' = {} /\ trade' = NoTrade
         /\ DOMAIN RestingView = Ids /\ RestingView[i] = Terms(orderMap[i])
         /\ Renamed(orderMap[i], new, p, q)
         /\ Len(order') = Len(order)
         /\ \A o \in 1 .. Len(order) : o # orderMap[i] => order'[o] = order[o]
<1>1. /\ i \in DOMAIN orderMap /\ taker = null /\ taker' = null /\ MayName(new, {i})
      /\ orderMap' = Reindexed(i, new) /\ freeList' = freeList /\ trade' = NoTrade
  BY DEF ReduceOrder, ReplaceOrder
<1>2. IncomingView = {} /\ IncomingView' = {}
  BY <1>1 DEF IncomingView
<1>3. DOMAIN RestingView = Ids /\ RestingView[i] = Terms(orderMap[i])
  BY <1>1, Views DEF Ids
<1>4. /\ Renamed(orderMap[i], new, p, q)
      /\ Len(order') = Len(order)
      /\ \A o \in 1 .. Len(order) : o # orderMap[i] => order'[o] = order[o]
  <2>1. CASE ReduceOrder(i, new, p, q)
    <3>1. p = order[orderMap[i]].price
      BY <2>1 DEF ReduceOrder
    <3> QED BY <2>1, <3>1, ReduceEffect DEF BothInv
  <2>2. CASE ReplaceOrder(i, new, p, q)
    BY <2>2, ReplaceEffect DEF BothInv
  <2> QED BY <2>1, <2>2
<1>5. new = i \/ new \notin Ids
  <2>1. order'[orderMap[i]].id = new
    BY <1>4 DEF Renamed
  <2>2. IInv /\ UInv
    BY DEF BothInv
  <2> QED BY <1>1, <1>4, <2>1, <2>2, RenameUnique DEF Ids
<1> QED BY <1>1, <1>2, <1>3, <1>4, <1>5 DEF Ids

\* A reduction in place is the abstract replacement that keeps its place.
LEMMA ReduceRefines ==
  ASSUME BothInv, ~ReuseIds, NEW i \in OrderId, NEW new \in OrderId, NEW p \in Price,
         NEW q \in Quantity, ReduceOrder(i, new, p, q)
  PROVE  PTB!Replace(i, new, p, q)
<1>1. /\ i \in Ids /\ (new = i \/ new \notin Ids) /\ orderMap' = Reindexed(i, new)
      /\ IncomingView = {} /\ IncomingView' = {} /\ trade' = NoTrade
      /\ DOMAIN RestingView = Ids /\ RestingView[i] = Terms(orderMap[i])
      /\ Renamed(orderMap[i], new, p, q)
      /\ \A o \in 1 .. Len(order) : o # orderMap[i] => order'[o] = order[o]
  BY ModifyFacts
<1>2. p = RestingView[i].price /\ q < RestingView[i].quantity
  BY <1>1 DEF ReduceOrder, Terms
<1>3. RestingView' = Revised(i, new, p, q)
  BY <1>1, ReplaceTerms
<1>4. AheadView' = {<<IF pair[1] = i THEN new ELSE pair[1],
                      IF pair[2] = i THEN new ELSE pair[2]>> : pair \in AheadView}
  <2>1. LinesKept(book', book)
    BY ReduceEffect DEF BothInv
  <2> QED BY <1>1, <2>1, ReduceLines
<1>5. PTB!Ids = Ids
  BY <1>1 DEF PTB!Ids
<1> QED BY <1>1, <1>2, <1>3, <1>4, <1>5
     DEF Revised, PTB!Replace, PTB!NoTrade, NoTrade

\* Any other replacement is the abstract one that goes to the end of the line.
LEMMA ReplaceRefines ==
  ASSUME BothInv, ~ReuseIds, NEW i \in OrderId, NEW new \in OrderId, NEW p \in Price,
         NEW q \in Quantity, ReplaceOrder(i, new, p, q)
  PROVE  PTB!Replace(i, new, p, q)
<1>1. /\ i \in Ids /\ (new = i \/ new \notin Ids) /\ orderMap' = Reindexed(i, new)
      /\ IncomingView = {} /\ IncomingView' = {} /\ trade' = NoTrade
      /\ DOMAIN RestingView = Ids /\ RestingView[i] = Terms(orderMap[i])
      /\ Renamed(orderMap[i], new, p, q)
      /\ \A o \in 1 .. Len(order) : o # orderMap[i] => order'[o] = order[o]
  BY ModifyFacts
<1>2. ~(p = RestingView[i].price /\ q < RestingView[i].quantity)
  BY <1>1 DEF ReplaceOrder, Terms
<1>3. RestingView' = Revised(i, new, p, q)
  BY <1>1, ReplaceTerms
<1>4. AheadView' = PTB!AheadWithout(i) \cup
                     PTB!Behind(new, PTB!Ids \ {i}, RestingView[i].side, p)
  <2>1. PICK s \in Side : s = order[orderMap[i]].side
    BY <1>1, IndexFacts DEF BothInv, Ids, Order
  <2>2. \A t \in Side, r \in Price : \A x, y :
            Ahead(book', t, r, x, y) <=>
              \/ Ahead(book, t, r, x, y) /\ x # orderMap[i] /\ y # orderMap[i]
              \/ /\ t = s /\ r = p /\ y = orderMap[i]
                 /\ x \in Linked(book[s], p) \ {orderMap[i]}
    BY <2>1, ReplaceEffect DEF BothInv
  <2>3. RestingView[i].side = s
    BY <1>1, <2>1 DEF Terms
  <2>4. AheadView' = PTB!AheadWithout(i) \cup PTB!Behind(new, PTB!Ids \ {i}, s, p)
    BY <1>1, <2>2, ReplaceLines
  <2> QED BY <2>3, <2>4
<1>5. PTB!Ids = Ids
  BY <1>1 DEF PTB!Ids
<1> QED BY <1>1, <1>2, <1>3, <1>4, <1>5
     DEF Revised, PTB!Replace, PTB!NoTrade, NoTrade

\* The order at the head of the best opposite price is the next to trade.
LEMMA MakerIsNext ==
  ASSUME BothInv, Marketable
  PROVE  /\ order[Maker].id \in Ids /\ orderMap[order[Maker].id] = Maker
         /\ PTB!IsNext(order[Maker].id, order[taker])
<1> DEFINE M == Maker
           S == MakerSide
           P == MakerPrice
           O == order[taker]
           i == order[M].id
<1>1. taker # null /\ (O.isMarket \/ ~Better(S, O.price, P)) /\ S = Opposite(O.side)
  BY DEF Marketable, MakerSide
<1>2. /\ S \in Side /\ P \in Price /\ P \in DOMAIN book[S] /\ M \in Linked(book[S], P)
  BY MakerFacts DEF BothInv
<1>3. M = Head(book[S][P].queue) /\ DOMAIN book[S] \subseteq Price
      /\ \A r \in DOMAIN book[S] : ~Better(S, r, P)
  <2>1. DOMAIN book[S] \subseteq Price
    BY <1>2, Shapes DEF BothInv, BookOK, SideOK
  <2>2. \A r \in DOMAIN book[S] : ~Better(S, r, P)
    BY <1>2, <2>1, BestExists DEF MakerPrice
  <2> QED BY <2>1, <2>2 DEF Maker
<1>4. O \in Order
  BY <1>1, TakerFacts DEF BothInv
<1> HIDE DEF M, S, P, O
<1>5. Rests(M) /\ order[M].side = S /\ order[M].price = P
  BY <1>2, LinkedFacts DEF BothInv, Rests
<1>6. i \in Ids /\ orderMap[i] = M
  BY <1>5 DEF BothInv, UInv, Rests, Ids
<1> HIDE DEF i
<1>7. /\ DOMAIN RestingView = Ids
      /\ \A j \in Ids : RestingView[j] = Terms(orderMap[j])
      /\ RestingView[i].side = S /\ RestingView[i].price = P
  BY <1>5, <1>6, Views DEF Terms
<1>8. RestingView[i].side = PTB!Other(O.side)
  BY <1>1, <1>7 DEF PTB!Other, Opposite
<1>9. Price \subseteq Int
  BY ConstantsAssumption
<1>10. PTB!Accepts(O, RestingView[i].price)
  <2>1. O.side \in Side /\ O.price \in Int /\ P \in Int
    BY <1>2, <1>4, <1>9 DEF Order
  <2> QED BY <1>1, <1>7, <2>1 DEF PTB!Accepts, Better, Opposite, Side
<1>11. ASSUME NEW j \in Ids, RestingView[j].side = PTB!Other(O.side)
       PROVE  ~PTB!Preferred(RestingView[j].side, RestingView[j].price, RestingView[i].price)
  <2>1. RestingView[j].side = S /\ RestingView[j] = Terms(orderMap[j])
    BY <1>7, <1>8, <1>11
  <2>2. PICK r \in Price : r = RestingView[j].price
    BY <1>2, <2>1, ViewOfPlaces DEF BothInv
  <2>3. orderMap[j] \in Linked(book[S], r)
    BY <1>2, <2>1, <2>2, ViewOfPlaces DEF BothInv
  <2>4. ~Better(S, r, P)
    BY <1>3, <2>3 DEF Linked
  <2>5. r \in Int /\ P \in Int
    BY <1>2, <1>9
  <2> QED BY <1>2, <1>7, <2>1, <2>2, <2>4, <2>5 DEF PTB!Preferred, Better, Side
<1>12. ASSUME NEW j \in Ids, <<j, i>> \in AheadView PROVE FALSE
  <2>1. Before(j, i)
    BY <1>12, Views
  <2>2. PICK s \in Side, p \in Price : Ahead(book, s, p, orderMap[j], M)
    BY <1>6, <2>1 DEF Before
  <2>3. M \in Linked(book[s], p)
    BY <2>2, Shapes, AheadLinked DEF BothInv, BookOK
  <2>4. s = S /\ p = P
    BY <1>2, <2>3, LinkedFacts DEF BothInv
  <2>5. /\ Queue(book[S], P) \in Seq(1 .. Len(order)) /\ IsInjective(Queue(book[S], P))
        /\ Queue(book[S], P) # <<>> /\ M = Head(Queue(book[S], P))
    BY <1>2, <1>3, Shapes, QueueFacts DEF BothInv, BookOK, SideOK, Queue
  <2>6. ~InFront(Queue(book[S], P), orderMap[j], M)
    BY <2>5, HeadFirst
  <2> QED BY <2>2, <2>4, <2>6 DEF Ahead
<1>13. PTB!IsNext(i, O)
  BY <1>7, <1>8, <1>10, <1>11, <1>12 DEF PTB!IsNext, PTB!Ids
<1> QED BY <1>6, <1>13 DEF i, M, O

\* A trade that exhausts the maker takes it off the clients' book.
LEMMA FillMakerRefines ==
  ASSUME BothInv, FillMaker
  PROVE  PTB!Fill(order[taker], order[Maker].id)
<1> DEFINE M == Maker
           O == order[taker]
           i == order[M].id
           left == order[M].quantity
<1>1. /\ Marketable /\ taker # null /\ taker' = taker /\ left <= O.quantity
      /\ O.quantity > 0 /\ orderMap' = Erase(orderMap, i)
      /\ trade' = [buyOrderId  |-> order[IF MakerSide = "BUY" THEN M ELSE taker].id,
                   sellOrderId |-> order[IF MakerSide = "SELL" THEN M ELSE taker].id,
                   price |-> MakerPrice, quantity |-> left]
      /\ MakerSide = Opposite(O.side)
  BY DEF FillMaker, Marketable, RecordTrade, MakerSide
<1>2. i \in Ids /\ orderMap[i] = M /\ PTB!IsNext(i, O)
  BY <1>1, MakerIsNext
<1>3. /\ order[M] \in Order /\ order[M].price = MakerPrice /\ M # taker
      /\ O \in Order
  BY <1>1, MakerFacts, LinkedFacts, TakerFacts DEF BothInv
<1>4. /\ order'[taker] = [O EXCEPT !.quantity = @ - left]
      /\ \A o \in 1 .. Len(order) : o # M /\ o # taker => order'[o] = order[o]
      /\ LinesLess(book', book, M)
  BY <1>1, FillMakerEffect DEF BothInv
<1> HIDE DEF M
<1>5. RestingView[i] = Terms(M) /\ RestingView[i].quantity = left
      /\ RestingView[i].price = MakerPrice
  BY <1>2, <1>3, Views DEF Terms
<1>6. ASSUME NEW j \in Ids, j # i PROVE TermsAfter(orderMap[j]) = Terms(orderMap[j])
  <2>1. orderMap[j] \in 1 .. Len(order) /\ orderMap[j] # M /\ orderMap[j] # taker
    BY <1>2, <1>6, IndexFacts, IdsDiffer DEF BothInv, Ids
  <2>2. order'[orderMap[j]] = order[orderMap[j]]
    BY <1>4, <2>1
  <2> QED BY <2>2 DEF TermsAfter, Terms
<1>7. RestingView' = PTB!Without(i) /\ AheadView' = PTB!AheadWithout(i)
  BY <1>1, <1>2, <1>4, <1>6, ViewLess
<1>8. IncomingView' = {[O EXCEPT !.quantity = @ - left]}
  BY <1>1, <1>4 DEF IncomingView
<1>9. trade' = [buyOrderId  |-> IF O.side = "BUY" THEN O.id ELSE i,
                sellOrderId |-> IF O.side = "SELL" THEN O.id ELSE i,
                price |-> RestingView[i].price, quantity |-> left]
  <2>1. O.side \in Side
    BY <1>3 DEF Order
  <2> QED BY <1>1, <1>5, <2>1 DEF Opposite, Side
<1>10. left \in Int /\ O.quantity \in Int
  BY <1>3, ConstantsAssumption DEF Order
<1>11. (IF left < O.quantity THEN left ELSE O.quantity) = left
  BY <1>1, <1>10
<1> HIDE DEF O, i, left
<1>12. PTB!Fill(O, i)
  BY <1>1, <1>2, <1>5, <1>7, <1>8, <1>9, <1>11 DEF PTB!Fill
<1> QED BY <1>12 DEF O, i, M

\* A trade that leaves the maker a remainder takes its quantity off.
LEMMA FillTakerRefines ==
  ASSUME BothInv, FillTaker
  PROVE  PTB!Fill(order[taker], order[Maker].id)
<1> DEFINE M == Maker
           O == order[taker]
           i == order[M].id
           left == order[M].quantity
           qty == O.quantity
<1>1. /\ Marketable /\ taker # null /\ taker' = taker /\ left > qty
      /\ qty > 0 /\ orderMap' = orderMap
      /\ trade' = [buyOrderId  |-> order[IF MakerSide = "BUY" THEN M ELSE taker].id,
                   sellOrderId |-> order[IF MakerSide = "SELL" THEN M ELSE taker].id,
                   price |-> MakerPrice, quantity |-> qty]
      /\ MakerSide = Opposite(O.side)
  BY DEF FillTaker, Marketable, RecordTrade, MakerSide
<1>2. i \in Ids /\ orderMap[i] = M /\ PTB!IsNext(i, O)
  BY <1>1, MakerIsNext
<1>3. /\ order[M] \in Order /\ order[M].price = MakerPrice /\ M # taker
      /\ O \in Order
  BY <1>1, MakerFacts, LinkedFacts, TakerFacts DEF BothInv
<1>4. left \in Int /\ qty \in Int
  BY <1>3, ConstantsAssumption DEF Order
<1>5. /\ order'[taker] = [O EXCEPT !.quantity = 0]
      /\ order'[M] = [order[M] EXCEPT !.quantity = @ - qty]
      /\ \A o \in 1 .. Len(order) : o # M /\ o # taker => order'[o] = order[o]
      /\ LinesKept(book', book)
  BY <1>1, FillTakerEffect DEF BothInv
<1> HIDE DEF M
<1>6. /\ RestingView[i] = Terms(M) /\ RestingView[i].quantity = left
      /\ RestingView[i].price = MakerPrice
  BY <1>2, <1>3, Views DEF Terms
<1>7. ASSUME NEW j \in Ids, j # i PROVE TermsAfter(orderMap[j]) = Terms(orderMap[j])
  <2>1. orderMap[j] \in 1 .. Len(order) /\ orderMap[j] # M /\ orderMap[j] # taker
    BY <1>2, <1>7, IndexFacts, IdsDiffer DEF BothInv, Ids
  <2>2. order'[orderMap[j]] = order[orderMap[j]]
    BY <1>5, <2>1
  <2> QED BY <2>2 DEF TermsAfter, Terms
<1>8. TermsAfter(M) = [Terms(M) EXCEPT !.quantity = @ - qty]
  <2>1. /\ order'[M].side = order[M].side /\ order'[M].price = order[M].price
        /\ order'[M].quantity = left - qty
    BY <1>3, <1>5 DEF Order
  <2> QED BY <2>1 DEF TermsAfter, Terms
<1>9. RestingView' = [RestingView EXCEPT ![i].quantity = @ - qty]
  <2> DEFINE less == [RestingView[i] EXCEPT !.quantity = @ - qty]
  <2>1. /\ RestingView = [j \in Ids |-> Terms(orderMap[j])]
        /\ RestingView' = [j \in Ids |-> TermsAfter(orderMap[j])]
    BY <1>1, Views DEF Ids
  <2>2. less = TermsAfter(orderMap[i])
    BY <1>2, <1>6, <1>8
  <2> HIDE DEF less
  <2>3. RestingView' = [RestingView EXCEPT ![i] = less]
    BY <1>2, <1>7, <2>1, <2>2
  <2> QED BY <2>3 DEF less
<1>10. AheadView' = AheadView
  <2>1. \A j, k : BeforeAfter(j, k) <=> Before(j, k)
    BY <1>1, <1>5 DEF BeforeAfter, Before, LinesKept
  <2> QED BY <1>1, <2>1, Views DEF Ids
<1>11. IncomingView' = {[O EXCEPT !.quantity = @ - qty]}
  <2>1. [O EXCEPT !.quantity = @ - qty] = [O EXCEPT !.quantity = 0]
    <3>1. O.quantity - qty = 0
      BY <1>4
    <3> QED BY <3>1
  <2> QED BY <1>1, <1>5, <2>1 DEF IncomingView
<1>12. trade' = [buyOrderId  |-> IF O.side = "BUY" THEN O.id ELSE i,
                 sellOrderId |-> IF O.side = "SELL" THEN O.id ELSE i,
                 price |-> RestingView[i].price, quantity |-> qty]
  <2>1. O.side \in Side
    BY <1>3 DEF Order
  <2> QED BY <1>1, <1>6, <2>1 DEF Opposite, Side
<1>13. (IF left < qty THEN left ELSE qty) = qty /\ qty # left
  BY <1>1, <1>4
<1>14. qty = O.quantity
  OBVIOUS
<1> HIDE DEF O, i, left, qty
<1>15. PTB!Fill(O, i)
  BY <1>1, <1>2, <1>6, <1>9, <1>10, <1>11, <1>12, <1>13, <1>14 DEF PTB!Fill
<1> QED BY <1>15 DEF O, i, M

\* A sweep stops only when no resting order is next for what is left.
LEMMA NoneIsNext ==
  ASSUME BothInv, taker # null, order[taker].quantity > 0, ~Marketable, NEW i \in Ids
  PROVE  ~PTB!IsNext(i, order[taker])
<1> DEFINE O == order[taker]
           S == MakerSide
<1>1. O \in Order /\ S = Opposite(O.side)
  BY TakerFacts DEF BothInv, MakerSide
<1>2. S \in Side /\ S = PTB!Other(O.side) /\ Price \subseteq Int
  BY <1>1, ConstantsAssumption DEF Order, Opposite, Side, PTB!Other
<1>3. DOMAIN book[S] = {} \/ (~O.isMarket /\ Better(S, O.price, MakerPrice))
  BY DEF Marketable
<1> HIDE DEF O, S
<1> SUFFICES ASSUME PTB!IsNext(i, O) PROVE FALSE
  BY DEF O
<1>4. RestingView[i] = Terms(orderMap[i])
  BY Views
<1>5. RestingView[i].side = S /\ PTB!Accepts(O, RestingView[i].price)
  BY <1>2 DEF PTB!IsNext
<1>6. PICK r \in Price : r = RestingView[i].price
  BY <1>4, IndexFacts DEF BothInv, Ids, Terms, Order
<1>7. orderMap[i] \in Linked(book[S], r)
  BY <1>2, <1>4, <1>5, <1>6, ViewOfPlaces DEF BothInv
<1>8. r \in DOMAIN book[S]
  BY <1>7 DEF Linked
<1>9. DOMAIN book[S] \subseteq Price
  BY <1>2, Shapes DEF BothInv, BookOK, SideOK
<1>10. MakerPrice \in Price /\ ~Better(S, r, MakerPrice)
  BY <1>2, <1>8, <1>9, BestExists DEF MakerPrice, S
<1>11. ~O.isMarket /\ Better(S, O.price, MakerPrice)
  BY <1>3, <1>8
<1>12. O.price \in Int /\ r \in Int /\ MakerPrice \in Int /\ O.side \in Side
  BY <1>1, <1>2, <1>10 DEF Order
<1> QED BY <1>1, <1>5, <1>6, <1>10, <1>11, <1>12 DEF PTB!Accepts, Better, Opposite, Side

\* What is left of a limit order enters the view, behind all at its price.
LEMMA RestViews ==
  ASSUME BothInv, taker # null, Rest
  PROVE  LET o == order[taker]
         IN /\ RestingView' = [j \in PTB!Ids \cup {o.id} |->
                                 IF j = o.id THEN [side |-> o.side, price |-> o.price,
                                                   quantity |-> o.quantity]
                                 ELSE RestingView[j]]
            /\ AheadView' = AheadView \cup PTB!Behind(o.id, PTB!Ids, o.side, o.price)
<1> DEFINE O == order[taker]
           new == O.id
           joins == {<<j, new>> : j \in {j \in Ids : orderMap[j] \in Linked(book[O.side], O.price)}}
           rec == [side |-> O.side, price |-> O.price, quantity |-> O.quantity]
<1>1. /\ orderMap' = Put(orderMap, new, taker) /\ order' = order
  BY DEF Rest
<1>2. /\ O \in Order /\ ~LinkedIn(book, taker) /\ new \notin Ids
  BY TakerFacts DEF BothInv, UInv, Ids
<1>3. LinesMore(book', book, O.side, O.price, taker)
  BY RestEffect DEF BothInv
<1>4. rec = TermsAfter(taker)
  BY <1>1 DEF TermsAfter
<1>5. O.side \in Side /\ O.price \in Price
  BY <1>2 DEF Order
<1> HIDE DEF O, new, rec
<1>6. /\ DOMAIN orderMap' = Ids \cup {new} /\ orderMap'[new] = taker
      /\ \A j \in Ids : j # new /\ orderMap'[j] = orderMap[j] /\ orderMap[j] # taker
  <2>1. \A j \in Ids : orderMap[j] # taker
    BY IndexFacts DEF BothInv, Ids
  <2> QED BY <1>1, <1>2, <2>1 DEF Put, Ids
<1>7. PTB!Ids = Ids /\ \A j \in Ids : RestingView[j] = Terms(orderMap[j])
  BY Views DEF PTB!Ids
<1>8. RestingView' = [j \in Ids \cup {new} |-> IF j = new THEN rec ELSE RestingView[j]]
  <2>1. RestingView' = [j \in Ids \cup {new} |-> TermsAfter(orderMap'[j])]
    BY <1>6, Views
  <2>2. ASSUME NEW j \in Ids \cup {new}
        PROVE  TermsAfter(orderMap'[j]) = IF j = new THEN rec ELSE RestingView[j]
    <3>1. CASE j = new
      BY <1>4, <1>6, <3>1
    <3>2. CASE j # new
      <4>1. j \in Ids /\ orderMap'[j] = orderMap[j]
        BY <1>6, <3>2
      <4>2. TermsAfter(orderMap[j]) = Terms(orderMap[j])
        BY <1>1 DEF TermsAfter, Terms
      <4> QED BY <1>7, <3>2, <4>1, <4>2
    <3> QED BY <3>1, <3>2
  <2> QED BY <2>1, <2>2
<1>9. PTB!Behind(new, Ids, O.side, O.price) = joins
  BY <1>5, BehindFacts
<1>10. /\ AheadView = {pair \in Ids \X Ids : Before(pair[1], pair[2])}
       /\ AheadView' = {pair \in (Ids \cup {new}) \X (Ids \cup {new}) :
                          BeforeAfter(pair[1], pair[2])}
  BY <1>6, Views
<1>11. ASSUME NEW s \in Side, NEW p \in Price, NEW x
       PROVE  ~Ahead(book, s, p, x, taker) /\ ~Ahead(book, s, p, taker, x)
  <2>1. taker \notin Linked(book[s], p)
    BY <1>2 DEF LinkedIn
  <2>2. Len(order) \in Nat /\ \A t \in Side : SideOK(book[t], Len(order))
    BY Shapes DEF BothInv, BookOK
  <2> QED BY <2>1, <2>2, AheadLinked
<1>12. /\ \A j, k \in Ids : BeforeAfter(j, k) <=> Before(j, k)
       /\ \A j \in Ids : BeforeAfter(j, new) <=> orderMap[j] \in Linked(book[O.side], O.price)
       /\ \A j \in Ids : ~BeforeAfter(new, j)
       /\ ~BeforeAfter(new, new)
  <2>1. ASSUME NEW j \in Ids, NEW k \in Ids PROVE BeforeAfter(j, k) <=> Before(j, k)
    BY <1>3, <1>6 DEF BeforeAfter, Before, LinesMore
  <2>2. ASSUME NEW j \in Ids
        PROVE  /\ BeforeAfter(j, new) <=> orderMap[j] \in Linked(book[O.side], O.price)
               /\ ~BeforeAfter(new, j)
    BY <1>3, <1>5, <1>6, <1>11 DEF BeforeAfter, LinesMore
  <2>3. ~BeforeAfter(new, new)
    <3>1. taker \notin Linked(book[O.side], O.price)
      BY <1>2, <1>5 DEF LinkedIn
    <3> QED BY <1>3, <1>6, <1>11, <3>1 DEF BeforeAfter, LinesMore
  <2> QED BY <2>1, <2>2, <2>3
<1>13. AheadView' = AheadView \cup joins
  <2>1. ASSUME NEW pair \in AheadView' PROVE pair \in AheadView \cup joins
    <3>1. /\ pair = <<pair[1], pair[2]>> /\ BeforeAfter(pair[1], pair[2])
          /\ pair[1] \in Ids \cup {new} /\ pair[2] \in Ids \cup {new}
      BY <1>10
    <3>2. pair[1] \in Ids
      BY <1>12, <3>1
    <3>3. CASE pair[2] = new
      BY <1>12, <3>1, <3>2, <3>3
    <3>4. CASE pair[2] # new
      <4>1. pair[2] \in Ids /\ Before(pair[1], pair[2])
        BY <1>12, <3>1, <3>2, <3>4
      <4>2. <<pair[1], pair[2]>> \in AheadView
        BY <1>10, <3>2, <4>1
      <4> QED BY <3>1, <4>2
    <3> QED BY <3>3, <3>4
  <2>2. ASSUME NEW pair \in AheadView PROVE pair \in AheadView'
    <3>1. /\ pair = <<pair[1], pair[2]>> /\ Before(pair[1], pair[2])
          /\ pair[1] \in Ids /\ pair[2] \in Ids
      BY <1>10
    <3>2. <<pair[1], pair[2]>> \in AheadView'
      BY <1>10, <1>12, <3>1
    <3> QED BY <3>1, <3>2
  <2>3. joins \subseteq AheadView'
    BY <1>10, <1>12
  <2> QED BY <2>1, <2>2, <2>3
<1> QED BY <1>7, <1>8, <1>9, <1>13 DEF O, new, rec

\* The end of processOrder is the end of the abstract execution.
LEMMA FinishRefines ==
  ASSUME BothInv, Finish
  PROVE  PTB!Done(order[taker])
<1> DEFINE O == order[taker]
<1>1. taker # null /\ taker' = null /\ trade' = NoTrade /\ ~Marketable
  BY DEF Finish
<1>2. O \in Order /\ O.quantity \in Nat
  BY <1>1, TakerFacts, ConstantsAssumption DEF BothInv, Order
<1>3. IncomingView' = {}
  BY <1>1 DEF IncomingView
<1>4. PTB!Ids = Ids
  BY Views DEF PTB!Ids
<1>5. O.quantity = 0 \/ \A i \in Ids : ~PTB!IsNext(i, O)
  BY <1>1, <1>2, NoneIsNext
<1>6. CASE O.quantity > 0 /\ ~O.isMarket
  <2>1. Rest
    BY <1>6 DEF Finish
  <2>2. /\ RestingView' = [j \in PTB!Ids \cup {O.id} |->
                             IF j = O.id THEN [side |-> O.side, price |-> O.price,
                                               quantity |-> O.quantity]
                             ELSE RestingView[j]]
        /\ AheadView' = AheadView \cup PTB!Behind(O.id, PTB!Ids, O.side, O.price)
    BY <1>1, <2>1, RestViews
  <2>3. ~(O.quantity = 0 \/ O.isMarket)
    BY <1>2, <1>6
  <2> HIDE DEF O
  <2>4. PTB!Done(O)
    BY <1>1, <1>3, <1>4, <1>5, <2>2, <2>3 DEF PTB!Done, PTB!NoTrade, NoTrade
  <2> QED BY <2>4 DEF O
<1>7. CASE ~(O.quantity > 0 /\ ~O.isMarket)
  <2>1. Discard /\ orderMap' = orderMap /\ book' = book
    BY <1>7 DEF Finish, Discard
  <2>2. LinesKept(book', book)
    BY <2>1 DEF LinesKept
  <2>3. ASSUME NEW j \in Ids PROVE TermsAfter(orderMap[j]) = Terms(orderMap[j])
    <3>1. orderMap[j] \in 1 .. Len(order) /\ orderMap[j] # taker
      BY IndexFacts DEF BothInv, Ids
    <3>2. order'[orderMap[j]] = order[orderMap[j]]
      BY <1>1, <2>1, <3>1, DiscardEffect DEF BothInv
    <3> QED BY <3>2 DEF TermsAfter, Terms
  <2>4. RestingView' = RestingView /\ AheadView' = AheadView
    BY <2>1, <2>2, <2>3, ViewKept
  <2>5. O.quantity = 0 \/ O.isMarket
    BY <1>2, <1>7
  <2> HIDE DEF O
  <2>6. PTB!Done(O)
    BY <1>1, <1>3, <1>4, <1>5, <2>4, <2>5 DEF PTB!Done, PTB!NoTrade, NoTrade
  <2> QED BY <2>6 DEF O
<1> QED BY <1>6, <1>7

\* Every step of the engine is a step of the price-time book, or none.
LEMMA StepRefines ==
  BothInv /\ ~ReuseIds /\ [Next]_vars => [PTB!Next]_(PTB!vars)
<1> SUFFICES ASSUME BothInv, ~ReuseIds, [Next]_vars PROVE [PTB!Next]_(PTB!vars)
  OBVIOUS
<1>1. ASSUME NEW i \in OrderId, NEW p \in Price, NEW q \in Quantity, NEW s \in Side,
             NEW m \in BOOLEAN, Submit(i, p, q, s, m)
      PROVE  PTB!Next
  <2>1. PTB!Submit(i, p, q, s, m)
    BY <1>1, SubmitRefines
  <2> QED BY <2>1 DEF PTB!Next, PTB!Side, Side
<1>2. CASE FillMaker \/ FillTaker
  <2>1. PTB!Fill(order[taker], order[Maker].id)
    BY <1>2, FillMakerRefines, FillTakerRefines
  <2>2. Marketable /\ taker # null
    BY <1>2 DEF FillMaker, FillTaker, Marketable
  <2>3. order[taker] \in IncomingView
    BY <2>2 DEF IncomingView
  <2>4. order[Maker].id \in PTB!Ids
    BY <2>2, MakerIsNext, Views DEF PTB!Ids
  <2>5. PTB!Execute
    BY <2>1, <2>3, <2>4 DEF PTB!Execute
  <2> QED BY <2>5 DEF PTB!Next
<1>3. CASE Finish
  <2>1. PTB!Done(order[taker])
    BY <1>3, FinishRefines
  <2>2. order[taker] \in IncomingView
    BY <1>3 DEF Finish, IncomingView
  <2>3. PTB!Execute
    BY <2>1, <2>2 DEF PTB!Execute
  <2> QED BY <2>3 DEF PTB!Next
<1>4. ASSUME NEW i \in OrderId, CancelOrder(i) PROVE PTB!Next
  BY <1>4, CancelRefines DEF PTB!Next
<1>5. ASSUME NEW i \in OrderId, NEW new \in OrderId, NEW p \in Price, NEW q \in Quantity,
             ReduceOrder(i, new, p, q) \/ ReplaceOrder(i, new, p, q)
      PROVE  PTB!Next
  <2>1. PTB!Replace(i, new, p, q)
    BY <1>5, ReduceRefines, ReplaceRefines
  <2> QED BY <2>1 DEF PTB!Next
<1>6. CASE UNCHANGED vars
  <2>1. RestingView' = RestingView /\ AheadView' = AheadView /\ IncomingView' = IncomingView
    BY <1>6 DEF vars, RestingView, AheadView, IncomingView, RestingIds, Queued, Terms,
                AddressOf
  <2> QED BY <1>6, <2>1 DEF vars, PTB!vars
<1> QED BY <1>1, <1>2, <1>3, <1>4, <1>5, <1>6 DEF Next

\* The book starts empty.
LEMMA InitRefines == Init => PTB!Init
<1> SUFFICES ASSUME Init PROVE PTB!Init
  OBVIOUS
<1>1. \A s \in Side : book[s] = <<>>
  BY DEF Init
<1>2. Queued(book) = {}
  BY <1>1 DEF Queued
<1>3. RestingIds = {}
  BY <1>2 DEF RestingIds
<1>4. RestingView = <<>>
  BY <1>3 DEF RestingView
<1>5. AheadView = {}
  <2>1. \A s \in Side, p \in Price : Queue(book[s], p) = <<>>
    BY <1>1 DEF Queue
  <2>2. PairsInFront(<<>>) = {}
    BY DEF PairsInFront
  <2> QED BY <2>1, <2>2 DEF AheadView
<1>6. IncomingView = {} /\ trade = NoTrade
  BY DEF Init, IncomingView
<1> QED BY <1>4, <1>5, <1>6 DEF PTB!Init, PTB!NoTrade, NoTrade

\* For clients who give each live order an id of its own, the engine is a
\* price-time book: whatever the prices, quantities and number of orders, each
\* of its steps is one that the abstract book allows (property
\* ImplementsPriceTimeBook).
THEOREM EngineIsPriceTimeBook == ~ReuseIds => (Spec => ImplementsPriceTimeBook)
<1> SUFFICES ASSUME ~ReuseIds PROVE Spec => ImplementsPriceTimeBook
  OBVIOUS
<1>1. IInv /\ UInv /\ (IInv /\ UInv)' /\ [Next]_vars => [PTB!Next]_(PTB!vars)
  BY StepRefines DEF BothInv
<1>2. Spec => [](IInv /\ UInv)
  BY UniqueInvariance
<1>3. Spec => [][PTB!Next]_(PTB!vars)
  BY <1>1, <1>2, PTL DEF Spec
<1> QED BY <1>3, InitRefines DEF Spec, ImplementsPriceTimeBook
==============================================================================
