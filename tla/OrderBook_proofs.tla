-------------------------- MODULE OrderBook_proofs --------------------------
(***************************************************************************)
(* Safety of the matching engine for every number of orders, every set of  *)
(* ids and prices and every arithmetic width: type correctness, no order   *)
(* leaked or in two places, levels that are never empty and filed under    *)
(* their orders' price, an id index that never dangles, published prices   *)
(* that are the best there are, a book that only replacements cross, and   *)
(* volumes that are the sums of what rests.                                *)
(***************************************************************************)
EXTENDS OrderBook, Queues_proofs

-----------------------------------------------------------------------------
(* One side of the book, as the orders linked at each price.               *)

Linked(side, p) == IF p \in DOMAIN side THEN Range(side[p].queue) ELSE {}

SideOK(side, n) ==
  \A p \in DOMAIN side :
    /\ p \in Price
    /\ side[p] \in PriceLevel(n)
    /\ side[p].queue # <<>>
    /\ IsInjective(side[p].queue)

\* Prices are bounded, so among those of a nonempty side one is best.
LEMMA BestPriceExists ==
  ASSUME NEW s \in Side, NEW side, DOMAIN side \subseteq Price, DOMAIN side # {}
  PROVE  \E r \in DOMAIN side : \A q \in DOMAIN side : ~Better(s, q, r)
<1> USE ConstantsAssumption
<1> DEFINE key(p) == IF s = "BUY" THEN MaxPrice - p ELSE MaxPrice + p
           T == {key(p) : p \in DOMAIN side}
<1>1. T \subseteq Nat /\ T # {}
  <2>1. ASSUME NEW p \in DOMAIN side PROVE key(p) \in Nat
    <3>1. p \in -MaxPrice .. MaxPrice
      OBVIOUS
    <3> QED BY <3>1
  <2> HIDE DEF key
  <2> QED BY <2>1
<1>2. \E x \in T : \A y \in T : <<y, x>> \notin OpToRel(<, Nat)
  <2> HIDE DEF T
  <2> QED BY <1>1, WFMin, NatLessThanWellFounded
<1>3. PICK x \in T : \A y \in T : ~(y < x)
  <2> HIDE DEF T
  <2>1. PICK x \in T : \A y \in T : <<y, x>> \notin OpToRel(<, Nat)
    BY <1>2
  <2>2. ASSUME NEW y \in T, y < x PROVE FALSE
    BY <1>1, <2>1, <2>2 DEF OpToRel
  <2> QED BY <2>2
<1>4. PICK p \in DOMAIN side : x = key(p)
  OBVIOUS
<1>5. ASSUME NEW q \in DOMAIN side PROVE ~Better(s, q, p)
  <2>1. ~(key(q) < key(p))
    <3> HIDE DEF key
    <3> QED BY <1>3, <1>4
  <2>2. p \in Int /\ q \in Int /\ MaxPrice \in Int
    <3>1. p \in -MaxPrice .. MaxPrice /\ q \in -MaxPrice .. MaxPrice
      OBVIOUS
    <3> QED BY <3>1
  <2>3. CASE s = "BUY"
    BY <2>1, <2>2, <2>3 DEF Better
  <2>4. CASE s # "BUY"
    BY <2>1, <2>2, <2>4 DEF Better
  <2> QED BY <2>3, <2>4
<1> QED BY <1>5

\* begin() of a map that has a node is a node of it, and its best.
LEMMA BestExists ==
  ASSUME NEW s \in Side, NEW side, DOMAIN side \subseteq Price, DOMAIN side # {}
  PROVE  /\ Best(side, s) \in DOMAIN side
         /\ \A p \in DOMAIN side : ~Better(s, p, Best(side, s))
BY BestPriceExists DEF Best

\* appendOrder links one order, at one price, and leaves the rest alone.
LEMMA AppendOrderLinks ==
  ASSUME NEW side, NEW n \in Nat, SideOK(side, n),
         NEW p \in Price, NEW o \in 1 .. n, NEW qty \in 0 .. QtyMod - 1,
         o \notin Linked(side, p)
  PROVE  LET new == AppendOrder(side, p, o, qty)
         IN /\ SideOK(new, n)
            /\ Linked(new, p) = Linked(side, p) \cup {o}
            /\ \A r : r # p => Linked(new, r) = Linked(side, r)
<1> DEFINE level == IF p \in DOMAIN side THEN side[p] ELSE EmptyLevel
           add == [queue |-> Append(level.queue, o),
                   totalVolume |-> (level.totalVolume + qty) % QtyMod]
           new == AppendOrder(side, p, o, qty)
<1>1. /\ level.queue \in Seq(1 .. n) /\ level.totalVolume \in 0 .. QtyMod - 1
      /\ IsInjective(level.queue) /\ Range(level.queue) = Linked(side, p)
  <2>1. CASE p \in DOMAIN side
    BY <2>1 DEF SideOK, PriceLevel, Linked
  <2>2. CASE p \notin DOMAIN side
    <3>1. level.queue = <<>> /\ level.totalVolume = 0
      BY <2>2 DEF EmptyLevel
    <3>2. <<>> \in Seq(1 .. n) /\ IsInjective(<<>>) /\ Range(<<>>) = {}
      BY DEF IsInjective, Range
    <3>3. 0 \in 0 .. QtyMod - 1
      BY ConstantsAssumption
    <3> HIDE DEF level
    <3> QED BY <2>2, <3>1, <3>2, <3>3 DEF Linked
  <2> QED BY <2>1, <2>2
<1>2. new = Put(side, p, add)
  BY DEF AppendOrder
<1> HIDE DEF level, new
<1>3. /\ add \in PriceLevel(n)
      /\ add.queue # <<>> /\ IsInjective(add.queue)
      /\ Range(add.queue) = Linked(side, p) \cup {o}
  <2>1. /\ Append(level.queue, o) \in Seq(1 .. n)
        /\ Append(level.queue, o) # <<>>
        /\ Range(Append(level.queue, o)) = Linked(side, p) \cup {o}
        /\ IsInjective(Append(level.queue, o))
    <3>1. PICK q \in Seq(1 .. n) : q = level.queue
      BY <1>1
    <3> QED BY <1>1, <3>1, AppendRange
  <2>2. (level.totalVolume + qty) % QtyMod \in 0 .. QtyMod - 1
    BY <1>1, ConstantsAssumption
  <2> QED BY <2>1, <2>2 DEF PriceLevel
<1> HIDE DEF add
<1>4. /\ DOMAIN new = DOMAIN side \cup {p}
      /\ new[p] = add
      /\ \A r \in DOMAIN side : r # p => new[r] = side[r]
  BY <1>2 DEF Put
<1>5. SideOK(new, n)
  BY <1>3, <1>4 DEF SideOK
<1>6. Linked(new, p) = Linked(side, p) \cup {o}
  BY <1>3, <1>4 DEF Linked
<1>7. ASSUME NEW r, r # p PROVE Linked(new, r) = Linked(side, r)
  BY <1>4, <1>7 DEF Linked
<1> QED BY <1>5, <1>6, <1>7 DEF new

\* removeOrder, with the erasure of an empty level, unlinks one order.
LEMMA RemoveOrderUnlinks ==
  ASSUME NEW side, NEW n \in Nat, SideOK(side, n),
         NEW p \in DOMAIN side, NEW o \in Linked(side, p), NEW qty \in 0 .. QtyMod - 1
  PROVE  LET new == RemoveOrder(side, p, o, qty)
         IN /\ SideOK(new, n)
            /\ Linked(new, p) = Linked(side, p) \ {o}
            /\ \A r : r # p => Linked(new, r) = Linked(side, r)
<1> DEFINE queue == Unlinked(side[p].queue, o)
           rest == [queue |-> queue,
                    totalVolume |-> (side[p].totalVolume - qty) % QtyMod]
           new == RemoveOrder(side, p, o, qty)
<1>1. /\ side[p].queue \in Seq(1 .. n) /\ side[p].totalVolume \in 0 .. QtyMod - 1
      /\ IsInjective(side[p].queue) /\ Range(side[p].queue) = Linked(side, p)
  BY DEF SideOK, PriceLevel, Linked
<1>2. /\ queue \in Seq(1 .. n) /\ IsInjective(queue)
      /\ Range(queue) = Linked(side, p) \ {o}
  BY <1>1, UnlinkedRange
<1>3. new = IF queue = <<>> THEN Erase(side, p) ELSE Put(side, p, rest)
  BY DEF RemoveOrder
<1> HIDE DEF queue, new
<1>4. rest \in PriceLevel(n) /\ rest.queue = queue
  <2>1. (side[p].totalVolume - qty) % QtyMod \in 0 .. QtyMod - 1
    BY SMTT(20), <1>1, ConstantsAssumption
  <2> QED BY <1>2, <2>1 DEF PriceLevel
<1> HIDE DEF rest
<1>5. CASE queue = <<>>
  <2>1. Linked(side, p) \ {o} = {}
    BY <1>2, <1>5 DEF Range
  <2>2. /\ DOMAIN new = DOMAIN side \ {p}
        /\ \A r \in DOMAIN side : r # p => new[r] = side[r]
    BY <1>3, <1>5 DEF Erase
  <2>3. SideOK(new, n)
    BY <2>2 DEF SideOK
  <2>4. Linked(new, p) = Linked(side, p) \ {o}
    BY <2>1, <2>2 DEF Linked
  <2>5. ASSUME NEW r, r # p PROVE Linked(new, r) = Linked(side, r)
    BY <2>2, <2>5 DEF Linked
  <2> QED BY <2>3, <2>4, <2>5 DEF new
<1>6. CASE queue # <<>>
  <2>1. /\ DOMAIN new = DOMAIN side
        /\ new[p] = rest
        /\ \A r \in DOMAIN side : r # p => new[r] = side[r]
    BY <1>3, <1>6 DEF Put
  <2>2. SideOK(new, n)
    BY <1>2, <1>4, <1>6, <2>1 DEF SideOK
  <2>3. Linked(new, p) = Linked(side, p) \ {o}
    BY <1>2, <1>4, <2>1 DEF Linked
  <2>4. ASSUME NEW r, r # p PROVE Linked(new, r) = Linked(side, r)
    BY <2>1, <2>4 DEF Linked
  <2> QED BY <2>2, <2>3, <2>4 DEF new
<1> QED BY <1>5, <1>6

\* A change of volume links and unlinks nothing.
LEMMA ReduceVolumeLinks ==
  ASSUME NEW side, NEW n \in Nat, SideOK(side, n),
         NEW p \in DOMAIN side, NEW qty \in 0 .. QtyMod - 1
  PROVE  LET new == ReduceVolume(side, p, qty)
         IN /\ SideOK(new, n)
            /\ DOMAIN new = DOMAIN side
            /\ \A r : Linked(new, r) = Linked(side, r)
<1> DEFINE new == ReduceVolume(side, p, qty)
           volume == (side[p].totalVolume - qty) % QtyMod
<1>1. side[p] \in PriceLevel(n)
  BY DEF SideOK
<1>2. volume \in 0 .. QtyMod - 1
  BY <1>1, ConstantsAssumption DEF PriceLevel
<1>3. new = [side EXCEPT ![p] = [@ EXCEPT !.totalVolume = volume]]
  BY DEF ReduceVolume
<1> HIDE DEF new, volume
<1>4. /\ DOMAIN new = DOMAIN side
      /\ \A r \in DOMAIN side : r # p => new[r] = side[r]
      /\ new[p] = [side[p] EXCEPT !.totalVolume = volume]
  BY <1>3
<1>5. new[p] \in PriceLevel(n) /\ new[p].queue = side[p].queue
  BY <1>1, <1>2, <1>4 DEF PriceLevel
<1>6. SideOK(new, n)
  BY <1>4, <1>5 DEF SideOK
<1>7. ASSUME NEW r PROVE Linked(new, r) = Linked(side, r)
  BY <1>4, <1>5 DEF Linked
<1> QED BY <1>4, <1>6, <1>7 DEF new

-----------------------------------------------------------------------------
(* The inductive invariant.  It says what the properties say, in terms of  *)
(* the sets of linked orders, and adds that an order somebody holds is a   *)
(* complete record, which the next action of its holder relies on.         *)

BookOK(b, n) == b \in [Side -> {b[s] : s \in Side}] /\ \A s \in Side : SideOK(b[s], n)

LinkedIn(b, o) == \E s \in Side, p \in Price : o \in Linked(b[s], p)

Typed ==
  /\ order \in Seq(Order \cup {Blank})
  /\ freeList \in Seq(1 .. Len(order)) /\ IsInjective(freeList)
  /\ taker \in 0 .. Len(order)

Sides == BookOK(book, Len(order))

Filed ==
  \A s \in Side, p \in Price : \A o \in Linked(book[s], p) :
     order[o].side = s /\ order[o].price = p /\ ~order[o].isMarket

Placed ==
  \A o \in 1 .. Len(order) :
     /\ o \in Free => o # taker /\ ~LinkedIn(book, o)
     /\ o = taker => ~LinkedIn(book, o)
     /\ o \in Free \/ o = taker \/ LinkedIn(book, o)

Held == \A o \in 1 .. Len(order) : o \notin Free => order[o] \in Order

Indexed ==
  \A i \in DOMAIN orderMap :
     /\ i \in OrderId
     /\ LinkedIn(book, orderMap[i])
     /\ order[orderMap[i]].id = i

IInv == Typed /\ Sides /\ Filed /\ Placed /\ Held /\ Indexed

\* A function on 1..n is a sequence.
LEMMA SeqOfFunction ==
  ASSUME NEW S, NEW n \in Nat, NEW f \in [1 .. n -> S]
  PROVE  f \in Seq(S) /\ Len(f) = n
OBVIOUS

\* Whatever is linked is an allocated order.
LEMMA LinkedAddress ==
  ASSUME NEW b, NEW n \in Nat, \A s \in Side : SideOK(b[s], n), NEW o, LinkedIn(b, o)
  PROVE  o \in 1 .. n
<1>1. PICK s \in Side, p \in Price : o \in Linked(b[s], p)
  BY DEF LinkedIn
<1>2. p \in DOMAIN b[s] /\ o \in Range(b[s][p].queue) /\ b[s][p].queue \in Seq(1 .. n)
  BY <1>1 DEF Linked, SideOK, PriceLevel
<1> QED BY <1>2, RangeOfSeq

\* What the inductive invariant says is what the properties say.
LEMMA IInvImplies ==
  IInv => TypeOK /\ PoolExact /\ LevelsFiled /\ IndexSound
<1> SUFFICES ASSUME IInv PROVE TypeOK /\ PoolExact /\ LevelsFiled /\ IndexSound
  OBVIOUS
<1> USE DEF IInv, Typed, Sides, BookOK
<1>1. Len(order) \in Nat
  BY LenProperties
<1>2. ASSUME NEW s \in Side, NEW p \in DOMAIN book[s]
      PROVE  /\ p \in Price /\ book[s][p] \in PriceLevel(Len(order))
             /\ book[s][p].queue # <<>> /\ IsInjective(book[s][p].queue)
             /\ Linked(book[s], p) = Range(book[s][p].queue)
  BY DEF SideOK, Linked
<1>3. ASSUME NEW o PROVE o \in Queued(book) <=> LinkedIn(book, o)
  <2>1. ASSUME LinkedIn(book, o) PROVE o \in Queued(book)
    <3>1. o \in 1 .. Len(order)
      BY <1>1, <2>1, LinkedAddress
    <3> QED BY <2>1, <3>1 DEF LinkedIn, Linked, Queued
  <2>2. ASSUME o \in Queued(book) PROVE LinkedIn(book, o)
    BY <1>2, <2>2 DEF LinkedIn, Queued
  <2> QED BY <2>1, <2>2
<1>4. TypeOK
  <2>1. ASSUME NEW i \in DOMAIN orderMap
        PROVE  i \in OrderId /\ orderMap[i] \in 1 .. Len(order)
    BY <1>1, LinkedAddress DEF Indexed
  <2> QED BY <1>2, <2>1 DEF TypeOK
<1>5. PoolExact
  BY <1>2, <1>3 DEF PoolExact, Placed
<1>6. LevelsFiled
  BY <1>2 DEF LevelsFiled, Filed
<1>7. IndexSound
  BY <1>3 DEF IndexSound, Indexed
<1> QED BY <1>4, <1>5, <1>6, <1>7

\* The pool starts with every order free.
LEMMA InitIInv == Init => IInv
<1> SUFFICES ASSUME Init PROVE IInv
  OBVIOUS
<1> USE ConstantsAssumption DEF Init
<1>1. order \in Seq(Order \cup {Blank}) /\ Len(order) = PoolSize
  <2>1. order \in [1 .. PoolSize -> Order \cup {Blank}]
    OBVIOUS
  <2> QED BY <2>1, SeqOfFunction
<1>2. freeList \in [1 .. PoolSize -> 1 .. PoolSize]
  OBVIOUS
<1>3. freeList \in Seq(1 .. PoolSize) /\ Len(freeList) = PoolSize
  BY <1>2, SeqOfFunction
<1>4. Free = 1 .. PoolSize /\ IsInjective(freeList)
  BY DEF Free, Range, IsInjective
<1>5. Typed
  BY <1>1, <1>3, <1>4 DEF Typed, null
<1>6. \A s \in Side : DOMAIN book[s] = {}
  OBVIOUS
<1>7. Sides
  BY <1>6 DEF Sides, BookOK, SideOK
<1>8. \A o : ~LinkedIn(book, o)
  BY <1>6 DEF LinkedIn, Linked
<1>9. Filed
  BY <1>6 DEF Filed, Linked
<1>10. Placed /\ Held
  BY <1>1, <1>4, <1>8 DEF Placed, Held, null
<1>11. Indexed
  BY DEF Indexed
<1> QED BY <1>5, <1>7, <1>9, <1>10, <1>11 DEF IInv

-----------------------------------------------------------------------------
(* The three ways the book changes.                                        *)

\* A side is replaced by another well-formed one.
LEMMA BookExcept ==
  ASSUME NEW b, NEW n \in Nat, BookOK(b, n), NEW s \in Side, NEW new, SideOK(new, n)
  PROVE  LET c == [b EXCEPT ![s] = new]
         IN /\ BookOK(c, n)
            /\ c[s] = new
            /\ \A t \in Side : t # s => c[t] = b[t]
<1> DEFINE c == [b EXCEPT ![s] = new]
<1>1. /\ DOMAIN c = Side
      /\ c[s] = new
      /\ \A t \in Side : t # s => c[t] = b[t]
  BY DEF BookOK
<1>2. c = [t \in Side |-> c[t]]
  BY DEF BookOK
<1> HIDE DEF c
<1>3. c \in [Side -> {c[t] : t \in Side}]
  BY <1>2
<1>4. \A t \in Side : SideOK(c[t], n)
  BY <1>1 DEF BookOK
<1> QED BY <1>1, <1>3, <1>4 DEF c, BookOK

OnlyAt(b, o, s, p) ==
  \A t \in Side, r \in Price : o \in Linked(b[t], r) => t = s /\ r = p

SideWithout(new, old, p, o) ==
  /\ Linked(new, p) = Linked(old, p) \ {o}
  /\ \A r : r # p => Linked(new, r) = Linked(old, r)

BookWithout(new, old, o) ==
  \A t \in Side, r \in Price : Linked(new[t], r) = Linked(old[t], r) \ {o}

\* Unlinking an order from the one place where it is linked.
LEMMA BookUnlink ==
  ASSUME NEW b, NEW n \in Nat, BookOK(b, n), NEW s \in Side, NEW p \in Price, NEW o,
         OnlyAt(b, o, s, p),
         NEW new, SideOK(new, n), SideWithout(new, b[s], p, o)
  PROVE  /\ BookOK([b EXCEPT ![s] = new], n)
         /\ BookWithout([b EXCEPT ![s] = new], b, o)
<1> DEFINE c == [b EXCEPT ![s] = new]
<1>1. /\ BookOK(c, n) /\ c[s] = new
      /\ \A t \in Side : t # s => c[t] = b[t]
  BY BookExcept
<1> HIDE DEF c
<1>2. ASSUME NEW t \in Side, NEW r \in Price
      PROVE  Linked(c[t], r) = Linked(b[t], r) \ {o}
  BY <1>1 DEF OnlyAt, SideWithout
<1> QED BY <1>1, <1>2 DEF c, BookWithout

BookWith(new, old, s, p, o) ==
  \A t \in Side, r \in Price :
     Linked(new[t], r) = IF t = s /\ r = p THEN Linked(old[t], r) \cup {o}
                         ELSE Linked(old[t], r)

\* Linking an order that is linked nowhere.
LEMMA BookLink ==
  ASSUME NEW b, NEW n \in Nat, BookOK(b, n), NEW s \in Side, NEW p \in Price,
         NEW o \in 1 .. n, NEW qty \in 0 .. QtyMod - 1, ~LinkedIn(b, o)
  PROVE  LET new == AppendOrder(b[s], p, o, qty)
         IN /\ BookOK([b EXCEPT ![s] = new], n)
            /\ BookWith([b EXCEPT ![s] = new], b, s, p, o)
<1> DEFINE new == AppendOrder(b[s], p, o, qty)
           c == [b EXCEPT ![s] = new]
<1>1. SideOK(b[s], n) /\ o \notin Linked(b[s], p)
  BY DEF LinkedIn, BookOK
<1>2. /\ SideOK(new, n)
      /\ Linked(new, p) = Linked(b[s], p) \cup {o}
      /\ \A r : r # p => Linked(new, r) = Linked(b[s], r)
  BY <1>1, AppendOrderLinks
<1> HIDE DEF new
<1>3. /\ BookOK(c, n) /\ c[s] = new
      /\ \A t \in Side : t # s => c[t] = b[t]
  BY <1>2, BookExcept
<1> HIDE DEF c
<1>4. BookWith(c, b, s, p, o)
  BY <1>2, <1>3 DEF BookWith
<1> QED BY <1>3, <1>4 DEF c, new

\* A level's volume changes.
LEMMA BookVolume ==
  ASSUME NEW b, NEW n \in Nat, BookOK(b, n), NEW s \in Side, NEW p \in DOMAIN b[s],
         NEW qty \in 0 .. QtyMod - 1
  PROVE  LET c == [b EXCEPT ![s] = ReduceVolume(@, p, qty)]
         IN /\ BookOK(c, n)
            /\ \A t \in Side, r \in Price : Linked(c[t], r) = Linked(b[t], r)
<1> DEFINE new == ReduceVolume(b[s], p, qty)
           c == [b EXCEPT ![s] = new]
<1>1. /\ SideOK(new, n)
      /\ \A r : Linked(new, r) = Linked(b[s], r)
  BY ReduceVolumeLinks DEF BookOK
<1> HIDE DEF new
<1>2. /\ BookOK(c, n) /\ c[s] = new
      /\ \A t \in Side : t # s => c[t] = b[t]
  BY <1>1, BookExcept
<1>3. c = [b EXCEPT ![s] = ReduceVolume(@, p, qty)]
  BY DEF new
<1> HIDE DEF c
<1>4. ASSUME NEW t \in Side, NEW r \in Price PROVE Linked(c[t], r) = Linked(b[t], r)
  BY <1>1, <1>2
<1> QED BY <1>2, <1>3, <1>4

-----------------------------------------------------------------------------
(* What an action may rely on about the orders it touches.                 *)

\* A linked order is a complete record, linked in this one place.
LEMMA LinkedFacts ==
  ASSUME IInv, NEW s \in Side, NEW p \in Price, NEW o \in Linked(book[s], p)
  PROVE  /\ o \in 1 .. Len(order) /\ o \notin Free /\ o # taker /\ o # null
         /\ LinkedIn(book, o)
         /\ order[o] \in Order /\ order[o].side = s /\ order[o].price = p
         /\ \A t \in Side, r \in Price : o \in Linked(book[t], r) => t = s /\ r = p
<1>1. LinkedIn(book, o)
  BY DEF LinkedIn
<1>2. Len(order) \in Nat
  BY LenProperties DEF IInv, Typed
<1>3. o \in 1 .. Len(order)
  BY <1>1, <1>2, LinkedAddress DEF IInv, Sides, BookOK
<1>4. o \notin Free /\ o # taker
  BY <1>1, <1>3 DEF IInv, Placed
<1>5. order[o] \in Order
  BY <1>3, <1>4 DEF IInv, Held
<1>6. order[o].side = s /\ order[o].price = p
  BY DEF IInv, Filed
<1>7. ASSUME NEW t \in Side, NEW r \in Price, o \in Linked(book[t], r)
      PROVE  t = s /\ r = p
  BY <1>6, <1>7 DEF IInv, Filed
<1> QED BY <1>1, <1>3, <1>4, <1>5, <1>6, <1>7 DEF null

\* So is the order in flight, which is linked nowhere.
LEMMA TakerFacts ==
  ASSUME IInv, taker # null
  PROVE  /\ taker \in 1 .. Len(order) /\ taker \notin Free
         /\ order[taker] \in Order
         /\ ~LinkedIn(book, taker)
<1>1. Len(order) \in Nat
  BY LenProperties DEF IInv, Typed
<1>2. taker \in 1 .. Len(order)
  BY <1>1 DEF IInv, Typed, null
<1>3. taker \notin Free /\ ~LinkedIn(book, taker)
  BY <1>2 DEF IInv, Placed
<1> QED BY <1>2, <1>3 DEF IInv, Held

\* The order a sweep trades with next is linked at the best opposite price.
LEMMA MakerFacts ==
  ASSUME IInv, Marketable
  PROVE  /\ MakerSide \in Side
         /\ MakerPrice \in Price /\ MakerPrice \in DOMAIN book[MakerSide]
         /\ Maker \in Linked(book[MakerSide], MakerPrice)
<1>1. taker # null /\ DOMAIN book[MakerSide] # {}
  BY DEF Marketable
<1>2. MakerSide \in Side
  BY <1>1, TakerFacts DEF MakerSide, Opposite, Side, Order
<1>3. SideOK(book[MakerSide], Len(order))
  BY <1>2 DEF IInv, Sides, BookOK
<1>4. DOMAIN book[MakerSide] \subseteq Price
  BY <1>3 DEF SideOK
<1>5. MakerPrice \in DOMAIN book[MakerSide]
  BY <1>1, <1>2, <1>4, BestExists DEF MakerPrice
<1>6. PICK q : /\ q = book[MakerSide][MakerPrice].queue
               /\ q \in Seq(1 .. Len(order)) /\ q # <<>>
  BY <1>3, <1>5 DEF SideOK, PriceLevel
<1>7. Head(q) \in Range(q)
  <2>1. Len(q) \in Nat \ {0} /\ DOMAIN q = 1 .. Len(q)
    BY <1>6, EmptySeq, LenProperties
  <2>2. Head(q) = q[1]
    BY <1>6, <2>1
  <2> QED BY <2>1, <2>2 DEF Range
<1>8. Maker \in Linked(book[MakerSide], MakerPrice)
  BY <1>5, <1>6, <1>7 DEF Maker, Linked
<1> QED BY <1>2, <1>4, <1>5, <1>8

-----------------------------------------------------------------------------
(* One lemma per action.                                                   *)

\* An order taken from the pool is one that nobody holds.
LEMMA SubmitStep ==
  ASSUME IInv, NEW i \in OrderId, NEW p \in Price, NEW q \in Quantity,
         NEW s \in Side, NEW m \in BOOLEAN, Submit(i, p, q, s, m)
  PROVE  IInv'
<1> DEFINE new == [id |-> i, price |-> p, quantity |-> q, side |-> s, isMarket |-> m]
           n == Len(order)
<1>1. new \in Order
  BY ConstantsAssumption DEF Order
<1>2. /\ taker = null /\ Acquire(new)
      /\ orderMap' = orderMap /\ book' = book
  BY DEF Submit
<1> HIDE DEF new
<1>3. /\ n \in Nat /\ DOMAIN order = 1 .. n
      /\ order \in Seq(Order \cup {Blank})
      /\ freeList \in Seq(1 .. n) /\ IsInjective(freeList)
      /\ BookOK(book, n)
  BY LenProperties DEF IInv, Typed, Sides
<1>4. CASE freeList = <<>>
  <2>1. /\ order' = Append(order, new) /\ taker' = n + 1 /\ freeList' = freeList
    BY <1>2, <1>4 DEF Acquire
  <2>2. /\ order' \in Seq(Order \cup {Blank}) /\ Len(order') = n + 1
        /\ order'[n + 1] = new
        /\ \A o \in 1 .. n : order'[o] = order[o]
    <3> DEFINE X == Order \cup {Blank}
    <3>1. new \in X
      BY <1>1
    <3> HIDE DEF X
    <3>2. order \in Seq(X)
      BY <1>3 DEF X
    <3> QED BY <2>1, <3>1, <3>2, AppendProperties DEF X
  <2>3. Free = {} /\ Free' = {}
    BY <1>4, <2>1 DEF Free, Range
  <2>4. \A o : LinkedIn(book, o) => o \in 1 .. n
    BY <1>3, LinkedAddress DEF BookOK
  <2>5. Typed'
    BY <1>3, <1>4, <2>1, <2>2 DEF Typed
  <2>6. Sides'
    <3>1. ASSUME NEW t \in Side PROVE SideOK(book[t], n + 1)
      <4>1. ASSUME NEW r \in DOMAIN book[t] PROVE book[t][r] \in PriceLevel(n + 1)
        <5>1. book[t][r] \in PriceLevel(n)
          BY <1>3 DEF BookOK, SideOK
        <5>2. book[t][r].queue \in Seq(1 .. n + 1)
          BY <1>3, <5>1, SeqMonotonic, 1 .. n \subseteq 1 .. n + 1 DEF PriceLevel
        <5> QED BY <5>1, <5>2 DEF PriceLevel
      <4> QED BY <1>3, <4>1 DEF BookOK, SideOK
    <3> QED BY <1>2, <1>3, <2>2, <3>1 DEF Sides, BookOK
  <2>7. Filed'
    BY <1>2, <2>2, <2>4 DEF IInv, Filed, LinkedIn
  <2>8. Placed'
    <3>1. ASSUME NEW o \in 1 .. n + 1
          PROVE  /\ o = n + 1 => ~LinkedIn(book, o)
                 /\ o = n + 1 \/ LinkedIn(book, o)
      <4>1. CASE o = n + 1
        BY <1>3, <2>4, <4>1
      <4>2. CASE o # n + 1
        <5>1. o \in 1 .. n /\ o # taker
          BY <1>2, <1>3, <4>2 DEF null
        <5> QED BY <2>3, <4>2, <5>1 DEF IInv, Placed
      <4> QED BY <4>1, <4>2
    <3> QED BY <1>2, <2>1, <2>2, <2>3, <3>1 DEF Placed
  <2>9. Held'
    <3>1. ASSUME NEW o \in 1 .. n + 1 PROVE order'[o] \in Order
      <4>1. CASE o = n + 1
        BY <1>1, <2>2, <4>1
      <4>2. CASE o # n + 1
        <5>1. o \in 1 .. n
          BY <1>3, <4>2
        <5> QED BY <2>2, <2>3, <5>1 DEF IInv, Held
      <4> QED BY <4>1, <4>2
    <3> QED BY <2>2, <3>1 DEF Held
  <2>10. Indexed'
    BY <1>2, <2>2, <2>4 DEF IInv, Indexed
  <2> QED BY <2>5, <2>6, <2>7, <2>8, <2>9, <2>10 DEF IInv
<1>5. CASE freeList # <<>>
  <2> DEFINE a == Last(freeList)
  <2>1. /\ order' = [order EXCEPT ![a] = new] /\ taker' = a /\ freeList' = Front(freeList)
    BY <1>2, <1>5 DEF Acquire
  <2>2. /\ a \in 1 .. n /\ a \in Free
        /\ freeList' \in Seq(1 .. n) /\ IsInjective(freeList')
        /\ Free' = Free \ {a}
    BY <1>3, <1>5, <2>1, FrontRange DEF Free
  <2> HIDE DEF a
  <2>3. /\ order' \in Seq(Order \cup {Blank}) /\ Len(order') = n
        /\ order'[a] = new
        /\ \A o \in 1 .. n : o # a => order'[o] = order[o]
    <3> DEFINE X == Order \cup {Blank}
    <3>1. new \in X
      BY <1>1
    <3> HIDE DEF X
    <3>2. order \in Seq(X)
      BY <1>3 DEF X
    <3> QED BY <2>1, <2>2, <3>1, <3>2, ExceptSeq DEF X
  <2>4. \A o : LinkedIn(book, o) => o \in 1 .. n /\ o # a
    BY <1>3, <2>2, LinkedAddress DEF BookOK, IInv, Placed
  <2>5. Typed'
    BY <1>3, <2>1, <2>2, <2>3 DEF Typed
  <2>6. Sides'
    BY <1>2, <1>3, <2>3 DEF Sides
  <2>7. Filed'
    <3>1. ASSUME NEW t \in Side, NEW r \in Price, NEW o \in Linked(book[t], r)
          PROVE  order'[o] = order[o]
      BY <2>3, <2>4 DEF LinkedIn
    <3> QED BY <1>2, <3>1 DEF IInv, Filed
  <2>8. Placed'
    <3>1. ASSUME NEW o \in 1 .. n
          PROVE  /\ o \in Free' => o # a /\ ~LinkedIn(book, o)
                 /\ o = a => ~LinkedIn(book, o)
                 /\ o \in Free' \/ o = a \/ LinkedIn(book, o)
      <4>1. o # taker
        BY <1>2, <1>3 DEF null
      <4> QED BY <2>2, <2>4, <4>1 DEF IInv, Placed
    <3> QED BY <1>2, <2>1, <2>3, <3>1 DEF Placed
  <2>9. Held'
    BY <1>1, <2>2, <2>3 DEF IInv, Held
  <2>10. Indexed'
    BY <1>2, <2>3, <2>4 DEF IInv, Indexed
  <2> QED BY <2>5, <2>6, <2>7, <2>8, <2>9, <2>10 DEF IInv
<1> QED BY <1>4, <1>5

\* Releasing an order that is held: the pool gains it, and nobody loses one.
LEMMA ReleaseFree ==
  ASSUME IInv, NEW o \in 1 .. Len(order), o \notin Free, freeList' = Append(freeList, o)
  PROVE  /\ freeList' \in Seq(1 .. Len(order)) /\ IsInjective(freeList')
         /\ Free' = Free \cup {o}
BY AppendRange DEF IInv, Typed, Free

\* A trade that exhausts the maker.
LEMMA FillMakerStep ==
  ASSUME IInv, FillMaker
  PROVE  IInv'
<1> DEFINE n == Len(order)
           M == Maker
           S == MakerSide
           P == MakerPrice
           qty == order[M].quantity
<1>1. /\ Marketable /\ taker # null
      /\ order[M].quantity <= order[taker].quantity
      /\ order' = [order EXCEPT ![taker].quantity = @ - qty, ![M] = Blank]
      /\ orderMap' = Erase(orderMap, order[M].id)
      /\ book' = [book EXCEPT ![S] = RemoveOrder(ReduceVolume(@, P, qty), P, M, 0)]
      /\ freeList' = Append(freeList, M)
      /\ taker' = taker
  BY DEF FillMaker, Marketable
<1>2. /\ S \in Side /\ P \in Price /\ P \in DOMAIN book[S] /\ M \in Linked(book[S], P)
  BY <1>1, MakerFacts
<1> HIDE DEF M, S, P, qty
<1>3. /\ M \in 1 .. n /\ M \notin Free /\ M # taker /\ order[M] \in Order
      /\ \A t \in Side, r \in Price : M \in Linked(book[t], r) => t = S /\ r = P
  BY <1>2, LinkedFacts
<1>4. taker \in 1 .. n /\ taker \notin Free /\ order[taker] \in Order /\ ~LinkedIn(book, taker)
  BY <1>1, TakerFacts
<1>5. /\ n \in Nat /\ order \in [1 .. n -> Order \cup {Blank}] /\ BookOK(book, n)
  BY LenProperties DEF IInv, Typed, Sides
<1>6. qty \in 0 .. QtyMod - 1 /\ 0 \in 0 .. QtyMod - 1
  BY <1>3, ConstantsAssumption DEF Order, qty
<1>7. /\ order' \in Seq(Order \cup {Blank}) /\ Len(order') = n
      /\ order'[M] = Blank
      /\ order'[taker] \in Order
      /\ \A o \in 1 .. n : o # M /\ o # taker => order'[o] = order[o]
  <2> DEFINE left == order[taker].quantity - qty
             rest == [order[taker] EXCEPT !.quantity = left]
  <2>1. left \in 0 .. QtyMod - 1
    <3>1. order[taker].quantity \in 0 .. QtyMod - 1 /\ QtyMod \in Nat
      BY <1>4, ConstantsAssumption DEF Order
    <3>2. qty <= order[taker].quantity
      BY <1>1 DEF qty
    <3> QED BY <1>6, <3>1, <3>2
  <2>2. rest \in Order
    BY <1>4, <2>1 DEF Order
  <2>3. order' = [[order EXCEPT ![taker] = rest] EXCEPT ![M] = Blank]
    BY <1>1
  <2> HIDE DEF rest
  <2>4. /\ order' \in [1 .. n -> Order \cup {Blank}]
        /\ order'[M] = Blank
        /\ order'[taker] = rest
        /\ \A o \in 1 .. n : o # M /\ o # taker => order'[o] = order[o]
    BY <1>3, <1>4, <1>5, <2>2, <2>3
  <2> QED BY <1>5, <2>2, <2>4, SeqOfFunction
<1>8. /\ freeList' \in Seq(1 .. n) /\ IsInjective(freeList')
      /\ Free' = Free \cup {M}
  BY <1>1, <1>3, ReleaseFree
<1>9. /\ BookOK(book', n)
      /\ \A t \in Side, r \in Price : Linked(book'[t], r) = Linked(book[t], r) \ {M}
  <2> DEFINE v == ReduceVolume(book[S], P, qty)
             w == RemoveOrder(v, P, M, 0)
             c == [book EXCEPT ![S] = w]
  <2>1. SideOK(book[S], n)
    BY <1>2, <1>5 DEF BookOK
  <2>2. /\ SideOK(v, n) /\ P \in DOMAIN v
        /\ \A r : Linked(v, r) = Linked(book[S], r)
    BY <1>2, <1>5, <1>6, <2>1, ReduceVolumeLinks
  <2> HIDE DEF v
  <2>3. /\ SideOK(w, n)
        /\ Linked(w, P) = Linked(v, P) \ {M}
        /\ \A r : r # P => Linked(w, r) = Linked(v, r)
    <3>1. M \in Linked(v, P)
      BY <1>2, <2>2
    <3> QED BY <1>5, <1>6, <2>2, <3>1, RemoveOrderUnlinks
  <2> HIDE DEF w
  <2>4. SideWithout(w, book[S], P, M) /\ OnlyAt(book, M, S, P)
    BY <1>3, <2>2, <2>3 DEF SideWithout, OnlyAt
  <2>5. BookOK(c, n) /\ BookWithout(c, book, M)
    BY <1>2, <1>5, <2>3, <2>4, BookUnlink
  <2>6. book' = c
    BY <1>1 DEF v, w
  <2> HIDE DEF c
  <2> QED BY <2>5, <2>6 DEF BookWithout
<1>10. \A o : LinkedIn(book', o) <=> LinkedIn(book, o) /\ o # M
  BY <1>9 DEF LinkedIn
<1>11. Typed'
  BY <1>1, <1>7, <1>8 DEF IInv, Typed
<1>12. Sides'
  BY <1>7, <1>9 DEF Sides
<1>13. Filed'
  <2>1. ASSUME NEW t \in Side, NEW r \in Price, NEW o \in Linked(book'[t], r)
        PROVE  o \in Linked(book[t], r) /\ order'[o] = order[o]
    <3>1. o \in Linked(book[t], r) /\ o # M
      BY <1>9
    <3> QED BY <1>7, <3>1, LinkedFacts
  <2> QED BY <2>1 DEF IInv, Filed
<1>14. Placed'
  BY <1>1, <1>3, <1>4, <1>7, <1>8, <1>10 DEF IInv, Placed
<1>15. Held'
  BY <1>7, <1>8 DEF IInv, Held
<1>16. Indexed'
  <2>1. ASSUME NEW i \in DOMAIN orderMap'
        PROVE  /\ i \in DOMAIN orderMap /\ i # order[M].id
               /\ orderMap'[i] = orderMap[i]
    BY <1>1 DEF Erase
  <2>2. ASSUME NEW i \in DOMAIN orderMap'
        PROVE  /\ i \in OrderId /\ LinkedIn(book', orderMap'[i])
               /\ order'[orderMap'[i]].id = i
    <3>1. /\ i \in OrderId /\ LinkedIn(book, orderMap[i])
          /\ order[orderMap[i]].id = i /\ i # order[M].id
      BY <2>1 DEF IInv, Indexed
    <3>2. orderMap[i] # M /\ orderMap[i] # taker /\ orderMap[i] \in 1 .. n
      BY <1>4, <1>5, <3>1, LinkedAddress DEF BookOK
    <3> QED BY <1>7, <1>10, <2>1, <3>1, <3>2
  <2> QED BY <2>2 DEF Indexed
<1> QED BY <1>11, <1>12, <1>13, <1>14, <1>15, <1>16 DEF IInv

\* A trade that leaves the maker a remainder.
LEMMA FillTakerStep ==
  ASSUME IInv, FillTaker
  PROVE  IInv'
<1> DEFINE n == Len(order)
           M == Maker
           S == MakerSide
           P == MakerPrice
           qty == order[taker].quantity
<1>1. /\ Marketable /\ taker # null
      /\ order[M].quantity > order[taker].quantity
      /\ order' = [order EXCEPT ![taker].quantity = 0, ![M].quantity = @ - qty]
      /\ book' = [book EXCEPT ![S] = ReduceVolume(@, P, qty)]
      /\ orderMap' = orderMap /\ freeList' = freeList /\ taker' = taker
  BY DEF FillTaker, Marketable
<1>2. /\ S \in Side /\ P \in Price /\ P \in DOMAIN book[S] /\ M \in Linked(book[S], P)
  BY <1>1, MakerFacts
<1> HIDE DEF M, S, P, qty
<1>3. M \in 1 .. n /\ M # taker /\ order[M] \in Order
  BY <1>2, LinkedFacts
<1>4. taker \in 1 .. n /\ order[taker] \in Order /\ ~LinkedIn(book, taker)
  BY <1>1, TakerFacts
<1>5. /\ n \in Nat /\ order \in [1 .. n -> Order \cup {Blank}] /\ BookOK(book, n)
  BY LenProperties DEF IInv, Typed, Sides
<1>6. qty \in 0 .. QtyMod - 1 /\ 0 \in 0 .. QtyMod - 1
  BY <1>4, ConstantsAssumption DEF Order, qty
<1>7. /\ order' \in Seq(Order \cup {Blank}) /\ Len(order') = n
      /\ order'[M] \in Order /\ order'[taker] \in Order
      /\ order'[M].side = order[M].side /\ order'[M].price = order[M].price
      /\ order'[M].id = order[M].id /\ order'[M].isMarket = order[M].isMarket
      /\ \A o \in 1 .. n : o # M /\ o # taker => order'[o] = order[o]
  <2> DEFINE done == [order[taker] EXCEPT !.quantity = 0]
             rest == [order[M] EXCEPT !.quantity = order[M].quantity - qty]
  <2>1. order[M].quantity - qty \in 0 .. QtyMod - 1
    <3>1. order[M].quantity \in 0 .. QtyMod - 1 /\ QtyMod \in Nat
      BY <1>3, ConstantsAssumption DEF Order
    <3>2. order[M].quantity > qty
      BY <1>1 DEF qty
    <3> QED BY <1>6, <3>1, <3>2
  <2>2. /\ done \in Order /\ rest \in Order
        /\ rest.side = order[M].side /\ rest.price = order[M].price
        /\ rest.id = order[M].id /\ rest.isMarket = order[M].isMarket
    BY <1>3, <1>4, <1>6, <2>1 DEF Order
  <2>3. order' = [[order EXCEPT ![taker] = done] EXCEPT ![M] = rest]
    BY <1>1, <1>3
  <2> HIDE DEF done, rest
  <2>4. /\ order' \in [1 .. n -> Order \cup {Blank}]
        /\ order'[M] = rest /\ order'[taker] = done
        /\ \A o \in 1 .. n : o # M /\ o # taker => order'[o] = order[o]
    BY <1>3, <1>4, <1>5, <2>2, <2>3
  <2> QED BY <1>5, <2>2, <2>4, SeqOfFunction
<1>8. /\ BookOK(book', n)
      /\ \A t \in Side, r \in Price : Linked(book'[t], r) = Linked(book[t], r)
  <2> DEFINE c == [book EXCEPT ![S] = ReduceVolume(@, P, qty)]
  <2>1. /\ BookOK(c, n)
        /\ \A t \in Side, r \in Price : Linked(c[t], r) = Linked(book[t], r)
    BY <1>2, <1>5, <1>6, BookVolume
  <2> QED BY <1>1, <2>1
<1>9. \A o : LinkedIn(book', o) <=> LinkedIn(book, o)
  BY <1>8 DEF LinkedIn
<1>10. Typed'
  BY <1>1, <1>7 DEF IInv, Typed
<1>11. Sides'
  BY <1>7, <1>8 DEF Sides
<1>12. Filed'
  <2>1. ASSUME NEW t \in Side, NEW r \in Price, NEW o \in Linked(book'[t], r)
        PROVE  /\ o \in Linked(book[t], r) /\ order'[o].side = order[o].side
               /\ order'[o].price = order[o].price /\ order'[o].isMarket = order[o].isMarket
    <3>1. o \in Linked(book[t], r)
      BY <1>8
    <3>2. o \in 1 .. n /\ o # taker
      BY <3>1, LinkedFacts
    <3> QED BY <1>7, <3>1, <3>2
  <2> QED BY <2>1 DEF IInv, Filed
<1>13. Placed'
  BY <1>1, <1>7, <1>9 DEF IInv, Placed, Free
<1>14. Held'
  BY <1>1, <1>7 DEF IInv, Held, Free
<1>15. Indexed'
  <2>1. ASSUME NEW i \in DOMAIN orderMap
        PROVE  i \in OrderId /\ LinkedIn(book', orderMap[i]) /\ order'[orderMap[i]].id = i
    <3>1. i \in OrderId /\ LinkedIn(book, orderMap[i]) /\ order[orderMap[i]].id = i
      BY DEF IInv, Indexed
    <3>2. orderMap[i] # taker /\ orderMap[i] \in 1 .. n
      BY <1>4, <1>5, <3>1, LinkedAddress DEF BookOK
    <3> QED BY <1>7, <1>9, <3>1, <3>2
  <2> QED BY <1>1, <2>1 DEF Indexed
<1> QED BY <1>10, <1>11, <1>12, <1>13, <1>14, <1>15 DEF IInv

\* The end of processOrder: the taker comes to rest, or is released.
LEMMA FinishStep ==
  ASSUME IInv, Finish
  PROVE  IInv'
<1> DEFINE n == Len(order)
           O == order[taker]
<1>1. taker # null /\ taker' = null
  BY DEF Finish
<1>2. taker \in 1 .. n /\ taker \notin Free /\ O \in Order /\ ~LinkedIn(book, taker)
  BY <1>1, TakerFacts
<1>3. /\ n \in Nat /\ order \in [1 .. n -> Order \cup {Blank}] /\ BookOK(book, n)
  BY LenProperties DEF IInv, Typed, Sides
<1>4. taker' \in 0 .. n
  BY <1>1, <1>3 DEF null
<1>5. \A o \in 1 .. n : o # taker'
  BY <1>1 DEF null
<1>6. CASE O.quantity > 0 /\ ~O.isMarket
  <2>1. /\ orderMap' = Put(orderMap, O.id, taker)
        /\ book' = [book EXCEPT ![O.side] = AppendOrder(@, O.price, taker, O.quantity)]
        /\ order' = order /\ freeList' = freeList
    BY <1>6 DEF Finish, Rest
  <2>2. /\ O.id \in OrderId /\ O.price \in Price /\ O.side \in Side
        /\ O.quantity \in 0 .. QtyMod - 1
    BY <1>2 DEF Order
  <2>3. /\ BookOK(book', n)
        /\ \A t \in Side, r \in Price :
              Linked(book'[t], r) = IF t = O.side /\ r = O.price
                                    THEN Linked(book[t], r) \cup {taker}
                                    ELSE Linked(book[t], r)
    <3> DEFINE c == [book EXCEPT ![O.side] = AppendOrder(book[O.side], O.price, taker, O.quantity)]
    <3> HIDE DEF n, O
    <3>1. BookOK(c, n) /\ BookWith(c, book, O.side, O.price, taker)
      BY <1>2, <1>3, <2>2, BookLink
    <3> QED BY <2>1, <3>1 DEF BookWith, O
  <2>4. \A o : LinkedIn(book', o) <=> LinkedIn(book, o) \/ o = taker
    BY ZenonT(40), <2>2, <2>3 DEF LinkedIn
  <2>5. Typed'
    BY <1>4, <2>1 DEF IInv, Typed
  <2>6. Sides'
    BY <2>1, <2>3 DEF Sides
  <2>7. Filed'
    <3>1. ASSUME NEW t \in Side, NEW r \in Price, NEW o \in Linked(book'[t], r)
          PROVE  order[o].side = t /\ order[o].price = r /\ ~order[o].isMarket
      <4>1. CASE o \in Linked(book[t], r)
        BY <4>1 DEF IInv, Filed
      <4>2. CASE o \notin Linked(book[t], r)
        <5>1. o = taker /\ t = O.side /\ r = O.price
          BY <2>3, <4>2
        <5> QED BY <1>6, <5>1
      <4> QED BY <4>1, <4>2
    <3> QED BY <2>1, <3>1 DEF Filed
  <2>8. Placed'
    BY <1>2, <1>5, <2>1, <2>4 DEF IInv, Placed, Free
  <2>9. Held'
    BY <2>1 DEF IInv, Held, Free
  <2>10. Indexed'
    <3>1. ASSUME NEW i \in DOMAIN orderMap'
          PROVE  i \in OrderId /\ LinkedIn(book', orderMap'[i]) /\ order[orderMap'[i]].id = i
      <4>1. CASE i = O.id
        BY <2>1, <2>2, <2>4, <4>1 DEF Put
      <4>2. CASE i # O.id
        <5>1. i \in DOMAIN orderMap /\ orderMap'[i] = orderMap[i]
          BY <2>1, <4>2 DEF Put
        <5> QED BY <2>4, <5>1 DEF IInv, Indexed
      <4> QED BY <4>1, <4>2
    <3> QED BY <2>1, <3>1 DEF Indexed
  <2> QED BY <2>5, <2>6, <2>7, <2>8, <2>9, <2>10 DEF IInv
<1>7. CASE ~(O.quantity > 0 /\ ~O.isMarket)
  <2>1. /\ order' = [order EXCEPT ![taker] = Blank]
        /\ freeList' = Append(freeList, taker)
        /\ orderMap' = orderMap /\ book' = book
    BY <1>7 DEF Finish, Discard
  <2>2. /\ order' \in Seq(Order \cup {Blank}) /\ Len(order') = n
        /\ \A o \in 1 .. n : o # taker => order'[o] = order[o]
    <3>1. /\ order' \in [1 .. n -> Order \cup {Blank}]
          /\ \A o \in 1 .. n : o # taker => order'[o] = order[o]
      BY <1>2, <1>3, <2>1
    <3> QED BY <1>3, <3>1, SeqOfFunction
  <2>3. /\ freeList' \in Seq(1 .. n) /\ IsInjective(freeList')
        /\ Free' = Free \cup {taker}
    BY <1>2, <2>1, ReleaseFree
  <2>4. \A o : LinkedIn(book, o) => o \in 1 .. n /\ o # taker
    BY <1>2, <1>3, LinkedAddress DEF BookOK
  <2>5. Typed'
    BY <1>4, <2>2, <2>3 DEF Typed
  <2>6. Sides'
    BY <1>3, <2>1, <2>2 DEF Sides
  <2>7. Filed'
    <3>1. ASSUME NEW t \in Side, NEW r \in Price, NEW o \in Linked(book[t], r)
          PROVE  order'[o] = order[o]
      BY <2>2, <2>4 DEF LinkedIn
    <3> QED BY <2>1, <3>1 DEF IInv, Filed
  <2>8. Placed'
    BY <1>2, <1>5, <2>1, <2>2, <2>3 DEF IInv, Placed
  <2>9. Held'
    BY <2>2, <2>3 DEF IInv, Held
  <2>10. Indexed'
    BY <2>1, <2>2, <2>4 DEF IInv, Indexed
  <2> QED BY <2>5, <2>6, <2>7, <2>8, <2>9, <2>10 DEF IInv
<1> QED BY <1>6, <1>7

\* What an entry of the index leads cancelOrder and modifyOrder to.
LEMMA IndexFacts ==
  ASSUME IInv, NEW i \in DOMAIN orderMap
  PROVE  LET o == orderMap[i]
         IN /\ o \in 1 .. Len(order) /\ o \notin Free /\ o # taker
            /\ order[o] \in Order /\ order[o].id = i /\ ~order[o].isMarket
            /\ o \in Linked(book[order[o].side], order[o].price)
            /\ OnlyAt(book, o, order[o].side, order[o].price)
<1>1. LinkedIn(book, orderMap[i]) /\ order[orderMap[i]].id = i
  BY DEF IInv, Indexed
<1>2. PICK s \in Side, p \in Price : orderMap[i] \in Linked(book[s], p)
  BY <1>1 DEF LinkedIn
<1>3. ~order[orderMap[i]].isMarket
  BY <1>2 DEF IInv, Filed
<1> QED BY <1>1, <1>2, <1>3, LinkedFacts DEF OnlyAt

\* A cancel unlinks and releases the order its id leads to.
LEMMA CancelStep ==
  ASSUME IInv, NEW i \in OrderId, CancelOrder(i)
  PROVE  IInv'
<1> DEFINE n == Len(order)
           O == orderMap[i]
           S == order[O].side
           P == order[O].price
           w == RemoveOrder(book[S], P, O, order[O].quantity)
           c == [book EXCEPT ![S] = w]
<1>1. /\ i \in DOMAIN orderMap /\ taker' = taker
      /\ orderMap' = Erase(orderMap, i)
      /\ book' = c
      /\ order' = [order EXCEPT ![O] = Blank]
      /\ freeList' = Append(freeList, O)
  BY DEF CancelOrder
<1>2. /\ O \in 1 .. n /\ O \notin Free /\ O # taker
      /\ order[O] \in Order /\ order[O].id = i
      /\ O \in Linked(book[S], P) /\ OnlyAt(book, O, S, P)
  BY <1>1, IndexFacts
<1>3. /\ n \in Nat /\ order \in [1 .. n -> Order \cup {Blank}] /\ BookOK(book, n)
  BY LenProperties DEF IInv, Typed, Sides
<1>4. BookOK(book', n) /\ BookWithout(book', book, O)
  <2>1. /\ S \in Side /\ P \in Price /\ order[O].quantity \in 0 .. QtyMod - 1
    BY <1>2 DEF Order
  <2>2. SideOK(book[S], n) /\ P \in DOMAIN book[S]
    BY <1>2, <1>3, <2>1 DEF BookOK, Linked
  <2> HIDE DEF O, S, P
  <2>3. SideOK(w, n) /\ SideWithout(w, book[S], P, O)
    BY <1>2, <1>3, <2>1, <2>2, RemoveOrderUnlinks DEF SideWithout
  <2> HIDE DEF w
  <2>4. BookOK(c, n) /\ BookWithout(c, book, O)
    BY <1>2, <1>3, <2>1, <2>3, BookUnlink
  <2> QED BY <1>1, <2>4
<1> HIDE DEF O, S, P, w, c
<1>5. /\ order' \in Seq(Order \cup {Blank}) /\ Len(order') = n
      /\ \A o \in 1 .. n : o # O => order'[o] = order[o]
  <2>1. /\ order' \in [1 .. n -> Order \cup {Blank}]
        /\ \A o \in 1 .. n : o # O => order'[o] = order[o]
    BY <1>1, <1>2, <1>3
  <2> QED BY <1>3, <2>1, SeqOfFunction
<1>6. /\ freeList' \in Seq(1 .. n) /\ IsInjective(freeList')
      /\ Free' = Free \cup {O}
  BY <1>1, <1>2, ReleaseFree
<1>7. \A o : LinkedIn(book', o) <=> LinkedIn(book, o) /\ o # O
  BY <1>4 DEF LinkedIn, BookWithout
<1>8. Typed'
  BY <1>1, <1>5, <1>6 DEF IInv, Typed
<1>9. Sides'
  BY <1>4, <1>5 DEF Sides
<1>10. Filed'
  <2>1. ASSUME NEW t \in Side, NEW r \in Price, NEW o \in Linked(book'[t], r)
        PROVE  o \in Linked(book[t], r) /\ order'[o] = order[o]
    <3>1. o \in Linked(book[t], r) /\ o # O
      BY <1>4 DEF BookWithout
    <3> QED BY <1>5, <3>1, LinkedFacts
  <2> QED BY <2>1 DEF IInv, Filed
<1>11. Placed'
  BY <1>1, <1>2, <1>5, <1>6, <1>7 DEF IInv, Placed
<1>12. Held'
  BY <1>5, <1>6 DEF IInv, Held
<1>13. Indexed'
  <2>1. ASSUME NEW j \in DOMAIN orderMap'
        PROVE  /\ j \in OrderId /\ LinkedIn(book', orderMap'[j])
               /\ order'[orderMap'[j]].id = j
    <3>1. j \in DOMAIN orderMap /\ j # i /\ orderMap'[j] = orderMap[j]
      BY <1>1 DEF Erase
    <3>2. /\ j \in OrderId /\ LinkedIn(book, orderMap[j])
          /\ order[orderMap[j]].id = j
      BY <3>1 DEF IInv, Indexed
    <3>3. orderMap[j] # O /\ orderMap[j] \in 1 .. n
      BY <1>2, <1>3, <3>1, <3>2, LinkedAddress DEF BookOK
    <3> QED BY <1>5, <1>7, <3>1, <3>2, <3>3
  <2> QED BY <2>1 DEF Indexed
<1> QED BY <1>8, <1>9, <1>10, <1>11, <1>12, <1>13 DEF IInv

\* Renaming one linked order keeps the index sound.
LEMMA RenameIndexed ==
  ASSUME IInv, NEW i \in DOMAIN orderMap, NEW new \in OrderId,
         orderMap' = Put(Erase(orderMap, i), new, orderMap[i]),
         LinkedIn(book', orderMap[i]),
         order'[orderMap[i]].id = new,
         \A o : LinkedIn(book, o) => LinkedIn(book', o),
         \A o \in 1 .. Len(order) : o # orderMap[i] => order'[o] = order[o]
  PROVE  Indexed'
<1>1. ASSUME NEW j \in DOMAIN orderMap'
      PROVE  /\ j \in OrderId /\ LinkedIn(book', orderMap'[j])
             /\ order'[orderMap'[j]].id = j
  <2>1. CASE j = new
    BY <2>1 DEF Put
  <2>2. CASE j # new
    <3>1. j \in DOMAIN orderMap /\ j # i /\ orderMap'[j] = orderMap[j]
      BY <2>2 DEF Put, Erase
    <3>2. /\ j \in OrderId /\ LinkedIn(book, orderMap[j])
          /\ order[orderMap[j]].id = j /\ order[orderMap[i]].id = i
      BY <3>1 DEF IInv, Indexed
    <3>3. orderMap[j] # orderMap[i] /\ orderMap[j] \in 1 .. Len(order)
      BY <3>1, <3>2, IndexFacts
    <3> QED BY <3>1, <3>2, <3>3
  <2> QED BY <2>1, <2>2
<1> QED BY <1>1 DEF Indexed

\* An order made smaller stays where it is.
LEMMA ReduceStep ==
  ASSUME IInv, NEW i \in OrderId, NEW new \in OrderId, NEW p \in Price, NEW q \in Quantity,
         ReduceOrder(i, new, p, q)
  PROVE  IInv'
<1> DEFINE n == Len(order)
           O == orderMap[i]
           S == order[O].side
           cut == order[O].quantity - q
           c == [book EXCEPT ![S] = ReduceVolume(@, p, cut)]
<1>1. /\ i \in DOMAIN orderMap /\ taker' = taker /\ freeList' = freeList
      /\ p = order[O].price /\ q < order[O].quantity
      /\ orderMap' = Put(Erase(orderMap, i), new, O)
      /\ book' = c
      /\ order' = [order EXCEPT ![O].quantity = q, ![O].id = new]
  BY DEF ReduceOrder, Reindexed
<1>2. /\ O \in 1 .. n /\ order[O] \in Order
      /\ O \in Linked(book[S], p)
  BY <1>1, IndexFacts
<1>3. /\ n \in Nat /\ order \in [1 .. n -> Order \cup {Blank}] /\ BookOK(book, n)
  BY LenProperties DEF IInv, Typed, Sides
<1>4. S \in Side /\ q \in 0 .. QtyMod - 1 /\ cut \in 0 .. QtyMod - 1
  <2>1. /\ S \in Side /\ q \in 0 .. QtyMod - 1 /\ QtyMod \in Nat
        /\ order[O].quantity \in 0 .. QtyMod - 1 /\ q < order[O].quantity
    BY <1>1, <1>2, ConstantsAssumption DEF Order
  <2> QED BY <2>1
<1> HIDE DEF O
<1>5. /\ BookOK(book', n)
      /\ \A t \in Side, r \in Price : Linked(book'[t], r) = Linked(book[t], r)
  <2>1. p \in DOMAIN book[S]
    BY <1>2 DEF Linked
  <2> HIDE DEF S, cut
  <2>2. /\ BookOK(c, n)
        /\ \A t \in Side, r \in Price : Linked(c[t], r) = Linked(book[t], r)
    BY <1>3, <1>4, <2>1, BookVolume
  <2> QED BY <1>1, <2>2
<1>6. /\ order' \in Seq(Order \cup {Blank}) /\ Len(order') = n
      /\ order'[O] \in Order /\ order'[O].id = new
      /\ order'[O].side = order[O].side /\ order'[O].price = order[O].price
      /\ order'[O].isMarket = order[O].isMarket
      /\ \A o \in 1 .. n : o # O => order'[o] = order[o]
  <2> DEFINE rec == [order[O] EXCEPT !.quantity = q, !.id = new]
  <2>1. /\ rec \in Order /\ rec.id = new /\ rec.side = order[O].side
        /\ rec.price = order[O].price /\ rec.isMarket = order[O].isMarket
    BY <1>2, <1>4 DEF Order
  <2>2. order' = [order EXCEPT ![O] = rec]
    BY <1>1, <1>2, <1>3
  <2> HIDE DEF rec
  <2>3. /\ order' \in [1 .. n -> Order \cup {Blank}] /\ order'[O] = rec
        /\ \A o \in 1 .. n : o # O => order'[o] = order[o]
    BY <1>2, <1>3, <2>1, <2>2
  <2> QED BY <1>3, <2>1, <2>3, SeqOfFunction
<1>7. \A o : LinkedIn(book', o) <=> LinkedIn(book, o)
  BY <1>5 DEF LinkedIn
<1>8. Typed'
  BY <1>1, <1>6 DEF IInv, Typed
<1>9. Sides'
  BY <1>5, <1>6 DEF Sides
<1>10. Filed'
  <2>1. ASSUME NEW t \in Side, NEW r \in Price, NEW o \in Linked(book'[t], r)
        PROVE  /\ o \in Linked(book[t], r) /\ order'[o].side = order[o].side
               /\ order'[o].price = order[o].price /\ order'[o].isMarket = order[o].isMarket
    <3>1. o \in Linked(book[t], r)
      BY <1>5
    <3>2. o \in 1 .. n
      BY <3>1, LinkedFacts
    <3> QED BY <1>6, <3>1, <3>2
  <2> QED BY <2>1 DEF IInv, Filed
<1>11. Placed'
  BY <1>1, <1>6, <1>7 DEF IInv, Placed, Free
<1>12. Held'
  BY <1>1, <1>6 DEF IInv, Held, Free
<1>13. Indexed'
  <2>1. LinkedIn(book, O)
    BY <1>1 DEF IInv, Indexed, O
  <2>2. LinkedIn(book', O)
    BY <1>7, <2>1
  <2> QED BY <1>1, <1>6, <1>7, <2>2, RenameIndexed DEF O
<1> QED BY <1>8, <1>9, <1>10, <1>11, <1>12, <1>13 DEF IInv

\* A replaced order leaves its level for the back of the one it is moved to.
LEMMA ReplaceStep ==
  ASSUME IInv, NEW i \in OrderId, NEW new \in OrderId, NEW p \in Price, NEW q \in Quantity,
         ReplaceOrder(i, new, p, q)
  PROVE  IInv'
<1> DEFINE n == Len(order)
           O == orderMap[i]
           S == order[O].side
           P == order[O].price
           w == RemoveOrder(book[S], P, O, order[O].quantity)
           x == AppendOrder(w, p, O, q)
           c == [book EXCEPT ![S] = x]
<1>1. /\ i \in DOMAIN orderMap /\ taker' = taker /\ freeList' = freeList
      /\ orderMap' = Put(Erase(orderMap, i), new, O)
      /\ book' = c
      /\ order' = [order EXCEPT ![O].quantity = q, ![O].id = new, ![O].price = p]
  BY DEF ReplaceOrder, Reindexed
<1>2. /\ O \in 1 .. n /\ order[O] \in Order /\ ~order[O].isMarket
      /\ O \in Linked(book[S], P) /\ OnlyAt(book, O, S, P)
  BY <1>1, IndexFacts
<1>3. /\ n \in Nat /\ order \in [1 .. n -> Order \cup {Blank}] /\ BookOK(book, n)
  BY LenProperties DEF IInv, Typed, Sides
<1>4. /\ S \in Side /\ P \in Price /\ q \in 0 .. QtyMod - 1
      /\ order[O].quantity \in 0 .. QtyMod - 1
  BY <1>2, ConstantsAssumption DEF Order
<1>5. /\ BookOK(book', n)
      /\ \A t \in Side, r \in Price :
            Linked(book'[t], r) = IF t = S /\ r = p THEN (Linked(book[t], r) \ {O}) \cup {O}
                                  ELSE Linked(book[t], r) \ {O}
  <2>1. SideOK(book[S], n) /\ P \in DOMAIN book[S]
    BY <1>2, <1>3, <1>4 DEF BookOK, Linked
  <2> HIDE DEF O, S, P
  <2>2. SideOK(w, n) /\ SideWithout(w, book[S], P, O)
    BY <1>2, <1>3, <1>4, <2>1, RemoveOrderUnlinks DEF SideWithout
  <2> HIDE DEF w
  <2>3. \A r \in Price : Linked(w, r) = Linked(book[S], r) \ {O}
    BY <1>2, <1>4, <2>2 DEF SideWithout, OnlyAt
  <2>4. O \notin Linked(w, p)
    BY <2>3
  <2>5. /\ SideOK(x, n)
        /\ Linked(x, p) = Linked(w, p) \cup {O}
        /\ \A r : r # p => Linked(x, r) = Linked(w, r)
    BY <1>2, <1>3, <1>4, <2>2, <2>4, AppendOrderLinks
  <2> HIDE DEF x
  <2>6. /\ BookOK(c, n) /\ c[S] = x
        /\ \A t \in Side : t # S => c[t] = book[t]
    BY <1>3, <1>4, <2>5, BookExcept
  <2> HIDE DEF c
  <2>7. ASSUME NEW t \in Side, NEW r \in Price
        PROVE  Linked(c[t], r) = IF t = S /\ r = p THEN (Linked(book[t], r) \ {O}) \cup {O}
                                 ELSE Linked(book[t], r) \ {O}
    <3>1. CASE t = S
      BY <2>3, <2>5, <2>6, <3>1
    <3>2. CASE t # S
      BY <1>2, <2>6, <3>2 DEF OnlyAt
    <3> QED BY <3>1, <3>2
  <2> QED BY <1>1, <2>6, <2>7
<1> HIDE DEF O, w, x, c
<1>6. /\ order' \in Seq(Order \cup {Blank}) /\ Len(order') = n
      /\ order'[O] \in Order /\ order'[O].id = new /\ order'[O].price = p
      /\ order'[O].side = S /\ ~order'[O].isMarket
      /\ \A o \in 1 .. n : o # O => order'[o] = order[o]
  <2> DEFINE rec == [order[O] EXCEPT !.quantity = q, !.id = new, !.price = p]
  <2>1. /\ rec \in Order /\ rec.id = new /\ rec.price = p
        /\ rec.side = S /\ ~rec.isMarket
    BY <1>2, <1>4 DEF Order
  <2>2. order' = [order EXCEPT ![O] = rec]
    BY <1>1, <1>2, <1>3
  <2> HIDE DEF rec
  <2>3. /\ order' \in [1 .. n -> Order \cup {Blank}] /\ order'[O] = rec
        /\ \A o \in 1 .. n : o # O => order'[o] = order[o]
    BY <1>2, <1>3, <2>1, <2>2
  <2> QED BY <1>3, <2>1, <2>3, SeqOfFunction
<1> HIDE DEF S, P
<1>7. \A o : LinkedIn(book', o) <=> LinkedIn(book, o)
  <2>1. LinkedIn(book, O)
    BY <1>2, <1>4 DEF LinkedIn
  <2>2. LinkedIn(book', O)
    <3>1. O \in Linked(book'[S], p)
      BY <1>4, <1>5
    <3> QED BY <1>4, <3>1 DEF LinkedIn
  <2>3. ASSUME NEW o, o # O PROVE LinkedIn(book', o) <=> LinkedIn(book, o)
    <3>1. \A t \in Side, r \in Price : o \in Linked(book'[t], r) <=> o \in Linked(book[t], r)
      BY ZenonT(40), <1>5, <2>3
    <3> QED BY <3>1 DEF LinkedIn
  <2> QED BY <2>1, <2>2, <2>3
<1>8. Typed'
  BY <1>1, <1>6 DEF IInv, Typed
<1>9. Sides'
  BY <1>5, <1>6 DEF Sides
<1>10. Filed'
  <2>1. ASSUME NEW t \in Side, NEW r \in Price, NEW o \in Linked(book'[t], r)
        PROVE  order'[o].side = t /\ order'[o].price = r /\ ~order'[o].isMarket
    <3>1. CASE o = O
      <4>1. t = S /\ r = p
        BY <1>5, <3>1
      <4> QED BY <1>6, <3>1, <4>1
    <3>2. CASE o # O
      <4>1. o \in Linked(book[t], r)
        BY ZenonT(40), <1>5, <3>2
      <4>2. o \in 1 .. n
        BY <4>1, LinkedFacts
      <4> QED BY <1>6, <3>2, <4>1, <4>2 DEF IInv, Filed
    <3> QED BY <3>1, <3>2
  <2> QED BY <2>1 DEF Filed
<1>11. Placed'
  BY <1>1, <1>6, <1>7 DEF IInv, Placed, Free
<1>12. Held'
  BY <1>1, <1>6 DEF IInv, Held, Free
<1>13. Indexed'
  <2>1. LinkedIn(book, O)
    BY <1>1 DEF IInv, Indexed, O
  <2>2. LinkedIn(book', O)
    BY <1>7, <2>1
  <2> QED BY <1>1, <1>6, <1>7, <2>2, RenameIndexed DEF O
<1> QED BY <1>8, <1>9, <1>10, <1>11, <1>12, <1>13 DEF IInv

-----------------------------------------------------------------------------
\* The invariant is inductive.
LEMMA NextIInv == IInv /\ [Next]_vars => IInv'
<1> SUFFICES ASSUME IInv, [Next]_vars PROVE IInv'
  OBVIOUS
<1>1. ASSUME NEW i \in OrderId, NEW p \in Price, NEW q \in Quantity, NEW s \in Side,
             NEW m \in BOOLEAN, Submit(i, p, q, s, m)
      PROVE  IInv'
  BY <1>1, SubmitStep
<1>2. CASE FillMaker
  BY <1>2, FillMakerStep
<1>3. CASE FillTaker
  BY <1>3, FillTakerStep
<1>4. CASE Finish
  BY <1>4, FinishStep
<1>5. ASSUME NEW i \in OrderId, CancelOrder(i) PROVE IInv'
  BY <1>5, CancelStep
<1>6. ASSUME NEW i \in OrderId, NEW new \in OrderId, NEW p \in Price, NEW q \in Quantity,
             ReduceOrder(i, new, p, q)
      PROVE  IInv'
  BY <1>6, ReduceStep
<1>7. ASSUME NEW i \in OrderId, NEW new \in OrderId, NEW p \in Price, NEW q \in Quantity,
             ReplaceOrder(i, new, p, q)
      PROVE  IInv'
  BY <1>7, ReplaceStep
<1>8. CASE UNCHANGED vars
  BY <1>8 DEF vars, IInv, Typed, Sides, Filed, Placed, Held, Indexed, Free
<1> QED BY <1>1, <1>2, <1>3, <1>4, <1>5, <1>6, <1>7, <1>8 DEF Next

\* Every reachable state satisfies the inductive invariant.
THEOREM Invariance == Spec => []IInv
BY InitIInv, NextIInv, PTL DEF Spec

\* The variables of the engine keep their types (property TypeOK).
THEOREM TypeCorrect == Spec => []TypeOK
BY Invariance, IInvImplies, PTL

\* The pool and the book account for every order exactly once: whatever the
\* ids clients use, none leaks, none is released twice, and none is handed
\* out while a level links to it (property PoolExact).
THEOREM NoLeakNoDoubleUse == Spec => []PoolExact
BY Invariance, IInvImplies, PTL

\* No level is ever left without an order, and an order is linked under the
\* price it names (property LevelsFiled).
THEOREM LevelsStayFiled == Spec => []LevelsFiled
BY Invariance, IInvImplies, PTL

\* The index never leads to a released order, nor to an order of another id,
\* even when clients reuse the ids of orders that rest (property IndexSound).
THEOREM IndexStaysSound == Spec => []IndexSound
BY Invariance, IInvImplies, PTL

-----------------------------------------------------------------------------
(* What a pass of the loops of processOrder consumes.                      *)

Progress ==
  \/ order'[taker].quantity < order[taker].quantity
  \/ /\ order'[taker].quantity = order[taker].quantity
     /\ Queued(book') \subseteq Queued(book) /\ Queued(book') # Queued(book)

\* A maker that is filled takes its quantity off the taker, or leaves the book.
LEMMA FillMakerProgresses == ASSUME IInv, FillMaker PROVE Progress
<1> DEFINE M == Maker
           a == order[taker].quantity
           b == order[M].quantity
<1>1. /\ Marketable /\ taker # null /\ taker' = taker /\ b <= a
      /\ order' = [order EXCEPT ![taker].quantity = @ - b, ![M] = Blank]
      /\ freeList' = Append(freeList, M)
  BY DEF FillMaker, Marketable
<1>2. \E s \in Side, p \in Price : M \in Linked(book[s], p)
  BY <1>1, MakerFacts
<1>3. /\ M \in 1 .. Len(order) /\ M \notin Free /\ M # taker /\ order[M] \in Order
      /\ taker \in 1 .. Len(order) /\ order[taker] \in Order
  BY <1>1, <1>2, LinkedFacts, TakerFacts
<1>4. a \in Int /\ b \in Nat
  BY <1>3, ConstantsAssumption DEF Order
<1> HIDE DEF M, b
<1>5. DOMAIN order = 1 .. Len(order) /\ Len(order) \in Nat
  BY LenProperties DEF IInv, Typed
<1>6. order'[taker].quantity = a - b /\ DOMAIN order' = DOMAIN order
  <2> DEFINE rest == [order[taker] EXCEPT !.quantity = a - b]
  <2>1. rest.quantity = a - b
    BY <1>3 DEF Order
  <2>2. order' = [[order EXCEPT ![taker] = rest] EXCEPT ![M] = Blank]
    BY <1>1
  <2> HIDE DEF rest
  <2> QED BY <1>3, <1>5, <2>1, <2>2
<1>7. CASE b > 0
  BY <1>4, <1>6, <1>7 DEF Progress
<1>8. CASE b = 0
  <2>1. PoolExact
    BY IInvImplies
  <2>2. PoolExact'
    <3>1. IInv'
      BY FillMakerStep
    <3> QED BY <3>1, IInvImplies, PTL
  <2>3. Len(order') = Len(order)
    <3>1. order' \in Seq(Order \cup {Blank})
      BY FillMakerStep DEF IInv, Typed
    <3>2. Len(order') \in Nat /\ DOMAIN order' = 1 .. Len(order')
      BY <3>1, LenProperties
    <3> QED BY <1>5, <1>6, <3>2
  <2>4. Free' = Free \cup {M}
    BY <1>1, <1>3, ReleaseFree
  <2>5. M \in Queued(book)
    BY <1>1, <1>3, <2>1 DEF PoolExact
  <2>6. Queued(book') = Queued(book)'
    BY <2>3 DEF Queued
  <2>7. M \notin Queued(book')
    BY <1>3, <2>2, <2>3, <2>4, <2>6 DEF PoolExact
  <2>8. ASSUME NEW o \in Queued(book') PROVE o \in Queued(book)
    <3>1. o \in 1 .. Len(order)
      BY DEF Queued
    <3>2. o \notin Free' /\ o # taker
      BY <1>1, <2>2, <2>3, <2>6, <3>1 DEF PoolExact
    <3> QED BY <2>1, <2>4, <3>1, <3>2 DEF PoolExact
  <2> QED BY <1>4, <1>6, <1>8, <2>5, <2>7, <2>8 DEF Progress
<1> QED BY <1>4, <1>7, <1>8

\* A taker that is filled had something left.
LEMMA FillTakerProgresses == ASSUME IInv, FillTaker PROVE Progress
<1> DEFINE M == Maker
           rest == order[M].quantity - order[taker].quantity
<1>1. /\ Marketable /\ taker # null /\ order[taker].quantity > 0
      /\ order' = [order EXCEPT ![taker].quantity = 0,
                                ![M].quantity = @ - order[taker].quantity]
  BY DEF FillTaker, Marketable
<1>2. \E s \in Side, p \in Price : M \in Linked(book[s], p)
  BY <1>1, MakerFacts
<1>3. /\ M # taker /\ taker \in 1 .. Len(order) /\ order[taker] \in Order
  BY <1>1, <1>2, LinkedFacts, TakerFacts
<1> HIDE DEF M
<1>4. DOMAIN order = 1 .. Len(order)
  BY LenProperties DEF IInv, Typed
<1>5. order'[taker].quantity = 0
  <2> DEFINE left == [order[taker] EXCEPT !.quantity = 0]
             kept == [order[M] EXCEPT !.quantity = rest]
  <2>1. left.quantity = 0
    BY <1>3 DEF Order
  <2>2. order' = [[order EXCEPT ![taker] = left] EXCEPT ![M] = kept]
    BY <1>1, <1>3
  <2> HIDE DEF left, kept
  <2> QED BY <1>3, <1>4, <2>1, <2>2
<1> QED BY <1>1, <1>5 DEF Progress

SweepProgress == taker # null /\ taker' = taker => Progress

\* No other action takes a step within a call of processOrder.
LEMMA StepProgresses == IInv /\ [Next]_vars => [SweepProgress]_vars
<1>1. ASSUME IInv, Next, taker # null, taker' = taker PROVE Progress
  <2>1. ASSUME NEW i, NEW new, NEW p, NEW q, NEW s, NEW m,
               \/ Submit(i, p, q, s, m) \/ CancelOrder(i)
               \/ ReduceOrder(i, new, p, q) \/ ReplaceOrder(i, new, p, q)
        PROVE  FALSE
    BY <1>1, <2>1 DEF Submit, CancelOrder, ReduceOrder, ReplaceOrder
  <2>2. ~Finish
    BY <1>1 DEF Finish
  <2> QED BY <1>1, <2>1, <2>2, FillMakerProgresses, FillTakerProgresses
       DEF Next
<1> QED BY <1>1 DEF SweepProgress

\* No pass of the loops of processOrder leaves both the taker and the book as
\* they were, so that a call of it ends (property SweepProgresses).
THEOREM EveryPassProgresses == Spec => SweepProgresses
<1>1. Spec => [][SweepProgress]_vars
  BY StepProgresses, Invariance, PTL DEF Spec
<1> QED BY <1>1 DEF SweepProgresses, SweepProgress, Progress

-----------------------------------------------------------------------------
(* The published prices, and the book that is not crossed.                 *)


\* While a sweep is under way its snapshot of the top of the book is what was
\* last published.
QuoteInv ==
  /\ taker = null => bbo = TopOfBook(book)
  /\ taker # null => bbo = before

LEMMA QuoteInductive == QuoteInv /\ [Next]_vars => QuoteInv'
<1> SUFFICES ASSUME QuoteInv, [Next]_vars PROVE QuoteInv'
  OBVIOUS
<1> USE DEF QuoteInv
<1>1. ASSUME NEW i \in OrderId, NEW p \in Price, NEW q \in Quantity, NEW s \in Side,
             NEW m \in BOOLEAN, Submit(i, p, q, s, m)
      PROVE  QuoteInv'
  <2>1. before' = bbo /\ bbo' = bbo /\ book' = book
    BY <1>1 DEF Submit
  <2>2. bbo = TopOfBook(book)
    BY <1>1 DEF Submit
  <2> QED BY <2>1, <2>2
<1>2. CASE FillMaker
  BY <1>2 DEF FillMaker, Marketable
<1>3. CASE FillTaker
  BY <1>3 DEF FillTaker, Marketable
<1>4. CASE Finish
  <2>1. /\ taker # null /\ taker' = null
        /\ bbo' = IF TopOfBook(book') # before THEN TopOfBook(book') ELSE bbo
    BY <1>4 DEF Finish, PublishIf
  <2> QED BY <2>1
<1>5. ASSUME NEW i \in OrderId, CancelOrder(i) PROVE QuoteInv'
  BY <1>5 DEF CancelOrder, PublishIf
<1>6. ASSUME NEW i \in OrderId, NEW new \in OrderId, NEW p \in Price, NEW q \in Quantity,
             ReduceOrder(i, new, p, q) \/ ReplaceOrder(i, new, p, q)
      PROVE  QuoteInv'
  <2>1. /\ taker = null /\ taker' = taker
        /\ bbo' = IF TopOfBook(book') # TopOfBook(book) THEN TopOfBook(book') ELSE bbo
    BY <1>6 DEF ReduceOrder, ReplaceOrder, PublishIf
  <2> QED BY <2>1
<1>7. CASE UNCHANGED vars
  BY <1>7 DEF vars
<1> QED BY <1>1, <1>2, <1>3, <1>4, <1>5, <1>6, <1>7 DEF Next

\* Between two messages, what subscribers were last told are the best prices
\* of the book, whichever operation moved them (property BboCurrent).
THEOREM QuotesStayCurrent == Spec => []BboCurrent
<1>1. Init => QuoteInv
  <2> SUFFICES ASSUME Init PROVE QuoteInv
    OBVIOUS
  <2>1. DOMAIN book["BUY"] = {} /\ DOMAIN book["SELL"] = {}
    BY DEF Init, Side
  <2>2. TopOfBook(book) = NoTop
    BY <2>1 DEF TopOfBook, BestPrice, NoTop
  <2> QED BY <2>2 DEF Init, QuoteInv
<1>2. QuoteInv => BboCurrent
  BY DEF QuoteInv, BboCurrent
<1> QED BY <1>1, <1>2, QuoteInductive, PTL DEF Spec

-----------------------------------------------------------------------------
(* The prices of a side after each operation on it.                        *)

\* appendOrder may bring one price.
LEMMA AppendPrices ==
  ASSUME NEW side, NEW p, NEW o, NEW qty
  PROVE  DOMAIN AppendOrder(side, p, o, qty) = DOMAIN side \cup {p}
BY DEF AppendOrder, Put

\* A loss of volume changes no price.
LEMMA ReducePrices ==
  ASSUME NEW side, NEW p, NEW qty
  PROVE  DOMAIN ReduceVolume(side, p, qty) = DOMAIN side
BY DEF ReduceVolume

\* removeOrder may take one price.
LEMMA RemovePrices ==
  ASSUME NEW side, NEW p, NEW o, NEW qty, p \in DOMAIN side
  PROVE  DOMAIN RemoveOrder(side, p, o, qty) \subseteq DOMAIN side
BY DEF RemoveOrder, Put, Erase

\* A limit order that finds nothing to trade with does not cross what rests.
LEMMA RestsUncrossed ==
  ASSUME IInv, taker # null, ~Marketable,
         order[taker].quantity > 0, ~order[taker].isMarket,
         NEW r \in DOMAIN book[MakerSide]
  PROVE  Better(MakerSide, order[taker].price, r)
<1>1. /\ order[taker] \in Order
      /\ MakerSide \in Side
  BY TakerFacts DEF Order, MakerSide, Opposite, Side
<1>2. DOMAIN book[MakerSide] \subseteq Price
  BY <1>1 DEF IInv, Sides, BookOK, SideOK
<1>3. /\ MakerPrice \in DOMAIN book[MakerSide]
      /\ ~Better(MakerSide, r, MakerPrice)
  BY <1>1, <1>2, BestExists DEF MakerPrice
<1>4. Better(MakerSide, order[taker].price, MakerPrice)
  BY DEF Marketable
<1>5. order[taker].price \in Int /\ MakerPrice \in Int /\ r \in Int
  <2>1. Price \subseteq Int
    BY ConstantsAssumption
  <2> QED BY <1>1, <1>2, <1>3, <2>1 DEF Order
<1>6. MakerSide = "BUY" \/ MakerSide = "SELL"
  BY <1>1 DEF Side
<1> QED BY <1>3, <1>4, <1>5, <1>6 DEF Better

\* No side has a price it did not have before.
NoNewPrice(new, old) == \A s \in Side : DOMAIN new[s] \subseteq DOMAIN old[s]

LEMMA StaysUncrossed ==
  ASSUME NEW new, NEW old, NoNewPrice(new, old), Uncrossed(old)
  PROVE  Uncrossed(new)
BY DEF NoNewPrice, Uncrossed, Side

\* Only one side changes.
LEMMA SideExcept ==
  ASSUME IInv, NEW s \in Side, NEW new
  PROVE  LET c == [book EXCEPT ![s] = new]
         IN c[s] = new /\ \A t \in Side : t # s => c[t] = book[t]
BY DEF IInv, Sides, BookOK

LEMMA SideNoNewPrice ==
  ASSUME IInv, NEW s \in Side, NEW new, DOMAIN new \subseteq DOMAIN book[s]
  PROVE  NoNewPrice([book EXCEPT ![s] = new], book)
<1> DEFINE c == [book EXCEPT ![s] = new]
<1>1. c[s] = new /\ \A t \in Side : t # s => c[t] = book[t]
  BY SideExcept
<1> HIDE DEF c
<1>2. NoNewPrice(c, book)
  BY <1>1 DEF NoNewPrice
<1> QED BY <1>2 DEF c

\* A trade only ever takes prices away.
LEMMA TradeNoNewPrice ==
  ASSUME IInv, FillMaker \/ FillTaker
  PROVE  NoNewPrice(book', book)
<1>1. Marketable
  BY DEF FillMaker, FillTaker
<1>2. MakerSide \in Side /\ MakerPrice \in DOMAIN book[MakerSide]
  BY <1>1, MakerFacts
<1>3. CASE FillMaker
  <2> DEFINE qty == order[Maker].quantity
             less == ReduceVolume(book[MakerSide], MakerPrice, qty)
             new == RemoveOrder(less, MakerPrice, Maker, 0)
  <2>1. book' = [book EXCEPT ![MakerSide] = new]
    BY <1>3 DEF FillMaker
  <2>2. DOMAIN less = DOMAIN book[MakerSide]
    BY ReducePrices
  <2> HIDE DEF less
  <2>3. DOMAIN new \subseteq DOMAIN book[MakerSide]
    BY <1>2, <2>2, RemovePrices
  <2> HIDE DEF new
  <2> QED BY <1>2, <2>1, <2>3, SideNoNewPrice
<1>4. CASE FillTaker
  <2> DEFINE new == ReduceVolume(book[MakerSide], MakerPrice, order[taker].quantity)
  <2>1. book' = [book EXCEPT ![MakerSide] = new]
    BY <1>4 DEF FillTaker
  <2>2. DOMAIN new \subseteq DOMAIN book[MakerSide]
    BY ReducePrices
  <2> HIDE DEF new
  <2> QED BY <1>2, <2>1, <2>2, SideNoNewPrice
<1> QED BY <1>3, <1>4

\* So do a cancel
LEMMA CancelNoNewPrice ==
  ASSUME IInv, NEW i \in OrderId, CancelOrder(i)
  PROVE  NoNewPrice(book', book)
<1> DEFINE O == orderMap[i]
           S == order[O].side
           new == RemoveOrder(book[S], order[O].price, O, order[O].quantity)
<1>1. i \in DOMAIN orderMap /\ book' = [book EXCEPT ![S] = new]
  BY DEF CancelOrder
<1>2. S \in Side /\ order[O].price \in DOMAIN book[S]
  BY <1>1, IndexFacts DEF Linked, Order
<1>3. DOMAIN new \subseteq DOMAIN book[S]
  BY <1>2, RemovePrices
<1> HIDE DEF new
<1> QED BY <1>1, <1>2, <1>3, SideNoNewPrice

\* and a reduction in place.
LEMMA ReduceNoNewPrice ==
  ASSUME IInv, NEW i \in OrderId, NEW new \in OrderId, NEW p \in Price,
         NEW q \in Quantity, ReduceOrder(i, new, p, q)
  PROVE  NoNewPrice(book', book)
<1> DEFINE O == orderMap[i]
           S == order[O].side
           less == ReduceVolume(book[S], p, order[O].quantity - q)
<1>1. i \in DOMAIN orderMap /\ book' = [book EXCEPT ![S] = less]
  BY DEF ReduceOrder
<1>2. S \in Side
  BY <1>1, IndexFacts DEF Order
<1>3. DOMAIN less \subseteq DOMAIN book[S]
  BY ReducePrices
<1> HIDE DEF less
<1> QED BY <1>1, <1>2, <1>3, SideNoNewPrice

\* Sweeping takes all it can, so what comes to rest crosses nothing.
LEMMA FinishUncrossed ==
  ASSUME IInv, Finish, Uncrossed(book)
  PROVE  Uncrossed(book')
<1>1. taker # null /\ ~Marketable
  BY DEF Finish
<1>2. CASE order[taker].quantity > 0 /\ ~order[taker].isMarket
  <2> DEFINE s == order[taker].side
             p == order[taker].price
             new == AppendOrder(book[s], p, taker, order[taker].quantity)
             c == [book EXCEPT ![s] = new]
  <2>1. book' = c
    BY <1>2 DEF Finish, Rest
  <2>2. s \in Side
    BY <1>1, TakerFacts DEF Order
  <2>3. DOMAIN new = DOMAIN book[s] \cup {p}
    BY ZenonT(40), AppendPrices
  <2> HIDE DEF new
  <2>4. c[s] = new /\ \A t \in Side : t # s => c[t] = book[t]
    BY <2>2, SideExcept
  <2> HIDE DEF c
  <2>5. MakerSide = IF s = "BUY" THEN "SELL" ELSE "BUY"
    BY DEF MakerSide, Opposite
  <2>6. \A r \in DOMAIN book[MakerSide] : Better(MakerSide, p, r)
    BY <1>1, <1>2, RestsUncrossed
  <2> HIDE DEF s, p
  <2>7. CASE s = "BUY"
    <3>1. DOMAIN c["BUY"] = DOMAIN book["BUY"] \cup {p} /\ c["SELL"] = book["SELL"]
      BY <2>3, <2>4, <2>7 DEF Side
    <3>2. \A r \in DOMAIN book["SELL"] : p < r
      BY <2>5, <2>6, <2>7 DEF Better
    <3> QED BY <2>1, <3>1, <3>2 DEF Uncrossed
  <2>8. CASE s = "SELL"
    <3>1. DOMAIN c["SELL"] = DOMAIN book["SELL"] \cup {p} /\ c["BUY"] = book["BUY"]
      BY <2>3, <2>4, <2>8 DEF Side
    <3>2. \A r \in DOMAIN book["BUY"] : p > r
      BY <2>5, <2>6, <2>8 DEF Better
    <3>3. \A r \in DOMAIN book["BUY"] : r < p
      <4>1. p \in Int /\ \A r \in DOMAIN book["BUY"] : r \in Int
        <5>1. p \in Price
          BY <1>1, TakerFacts DEF Order, p
        <5>2. DOMAIN book["BUY"] \subseteq Price
          BY DEF IInv, Sides, BookOK, SideOK, Side
        <5>3. Price \subseteq Int
          BY ConstantsAssumption
        <5> QED BY <5>1, <5>2, <5>3
      <4> QED BY <3>2, <4>1
    <3> QED BY <2>1, <3>1, <3>3 DEF Uncrossed
  <2> QED BY <2>2, <2>7, <2>8 DEF Side
<1>3. CASE ~(order[taker].quantity > 0 /\ ~order[taker].isMarket)
  BY <1>3 DEF Finish, Discard
<1> QED BY <1>2, <1>3

\* A replacement may bring its price to its side.
LEMMA ReplacePrices ==
  ASSUME IInv, NEW i \in OrderId, NEW new \in OrderId, NEW p \in Price,
         NEW q \in Quantity, ReplaceOrder(i, new, p, q)
  PROVE  LET S == order[orderMap[i]].side
         IN /\ S \in Side /\ order[orderMap[i]].price \in DOMAIN book[S]
            /\ DOMAIN book'[S] \subseteq DOMAIN book[S] \cup {p}
            /\ \A t \in Side : t # S => book'[t] = book[t]
<1> DEFINE O == orderMap[i]
           S == order[O].side
           less == RemoveOrder(book[S], order[O].price, O, order[O].quantity)
           more == AppendOrder(less, p, O, q)
<1>1. i \in DOMAIN orderMap /\ book' = [book EXCEPT ![S] = more]
  BY DEF ReplaceOrder
<1>2. S \in Side /\ order[O].price \in DOMAIN book[S]
  BY <1>1, IndexFacts DEF Linked, Order
<1>3. DOMAIN less \subseteq DOMAIN book[S]
  BY <1>2, RemovePrices
<1> HIDE DEF less
<1>4. DOMAIN more = DOMAIN less \cup {p}
  BY AppendPrices
<1> HIDE DEF more
<1>5. book'[S] = more /\ \A t \in Side : t # S => book'[t] = book[t]
  BY <1>1, <1>2, SideExcept
<1> QED BY <1>2, <1>3, <1>4, <1>5

\* A replacement that keeps its price finds or recreates the same level.
LEMMA ReplaceNoNewPrice ==
  ASSUME IInv, NEW i \in OrderId, NEW new \in OrderId, NEW p \in Price,
         NEW q \in Quantity, ReplaceOrder(i, new, p, q),
         order[orderMap[i]].price = p
  PROVE  NoNewPrice(book', book)
<1> DEFINE S == order[orderMap[i]].side
<1>1. /\ DOMAIN book'[S] \subseteq DOMAIN book[S]
      /\ \A t \in Side : t # S => book'[t] = book[t]
  BY ReplacePrices
<1> HIDE DEF S
<1>2. ASSUME NEW t \in Side PROVE DOMAIN book'[t] \subseteq DOMAIN book[t]
  <2>1. CASE t = S
    BY <1>1, <2>1
  <2>2. CASE t # S
    BY <1>1, <2>2
  <2> QED BY <2>1, <2>2
<1> QED BY <1>2 DEF NoNewPrice

CrossedByReplace ==
  Uncrossed(book) /\ ~Uncrossed(book')
    => \E o \in Queued(book) : order'[o].price # order[o].price

LEMMA StepCrossesOnlyByReplace == IInv /\ [Next]_vars => CrossedByReplace
<1> SUFFICES ASSUME IInv, [Next]_vars, Uncrossed(book), ~Uncrossed(book')
             PROVE  \E o \in Queued(book) : order'[o].price # order[o].price
  BY DEF CrossedByReplace
<1>1. ASSUME NEW i \in OrderId, NEW p \in Price, NEW q \in Quantity, NEW s \in Side,
             NEW m \in BOOLEAN, Submit(i, p, q, s, m)
      PROVE  FALSE
  BY <1>1 DEF Submit
<1>2. CASE FillMaker \/ FillTaker
  BY <1>2, TradeNoNewPrice, StaysUncrossed
<1>3. CASE Finish
  BY <1>3, FinishUncrossed
<1>4. ASSUME NEW i \in OrderId, CancelOrder(i) PROVE FALSE
  BY <1>4, CancelNoNewPrice, StaysUncrossed
<1>5. ASSUME NEW i \in OrderId, NEW new \in OrderId, NEW p \in Price, NEW q \in Quantity,
             ReduceOrder(i, new, p, q)
      PROVE  FALSE
  BY <1>5, ReduceNoNewPrice, StaysUncrossed
<1>6. ASSUME NEW i \in OrderId, NEW new \in OrderId, NEW p \in Price, NEW q \in Quantity,
             ReplaceOrder(i, new, p, q)
      PROVE  \E o \in Queued(book) : order'[o].price # order[o].price
  <2> DEFINE O == orderMap[i]
  <2>1. /\ i \in DOMAIN orderMap
        /\ order' = [order EXCEPT ![O].quantity = q, ![O].id = new, ![O].price = p]
    BY <1>6 DEF ReplaceOrder
  <2>2. order[O].price # p
    BY <1>6, ReplaceNoNewPrice, StaysUncrossed
  <2>3. O \in 1 .. Len(order) /\ order[O] \in Order
    BY <2>1, IndexFacts
  <2>4. order'[O].price = p
    <3>1. order \in Seq(Order \cup {Blank})
      BY DEF IInv, Typed
    <3>2. O \in DOMAIN order
      BY <2>3, <3>1, LenProperties
    <3> HIDE DEF O
    <3> QED BY <2>1, <2>3, <3>2 DEF Order
  <2>5. O \in Queued(book)
    <3>1. IndexSound
      BY IInvImplies
    <3> QED BY <2>1, <3>1 DEF IndexSound
  <2> QED BY <2>2, <2>4, <2>5
<1>7. CASE UNCHANGED vars
  BY <1>7 DEF vars
<1> QED BY <1>1, <1>2, <1>3, <1>4, <1>5, <1>6, <1>7 DEF Next

\* processOrder, cancelOrder and the in-place reduction never leave a bid at or
\* above an ask: only a client's change of a resting order's price can
\* (property OnlyReplaceCrosses).
THEOREM CrossedOnlyByReplace == Spec => OnlyReplaceCrosses
<1>1. IInv /\ [Next]_vars => [CrossedByReplace]_vars
  BY StepCrossesOnlyByReplace
<1>2. Spec => [][CrossedByReplace]_vars
  BY <1>1, Invariance, PTL DEF Spec
<1> QED BY <1>2 DEF OnlyReplaceCrosses, CrossedByReplace

-----------------------------------------------------------------------------
(* The volume of a level, as the sum of its orders' quantities.            *)

Quantities(ord) == [o \in DOMAIN ord |-> ord[o].quantity]

VolumeOK(side, f) ==
  \A p \in DOMAIN side : side[p].totalVolume = Total(f, Linked(side, p)) % QtyMod

\* The sum that the property is about is one of these.
LEMMA VolumeIsTotal ==
  ASSUME NEW ord, NEW S, IsFiniteSet(S), S \subseteq DOMAIN ord
  PROVE  MapThenSumSet(LAMBDA o : ord[o].quantity, S) = Total(Quantities(ord), S)
<1> DEFINE Matches(it) ==
             it = [s \in SUBSET S |->
                     IF s = {} THEN 0 ELSE ord[Some(s)].quantity + it[s \ {Some(s)}]]
           sum == CHOOSE it : Matches(it)
<1>1. MapThenSumSet(LAMBDA o : ord[o].quantity, S) = sum[S]
  BY DEF MapThenSumSet, MapThenFoldSet, Some
<1>2. ASSUME NEW s \in SUBSET S, s # {}
      PROVE  Quantities(ord)[Some(s)] = ord[Some(s)].quantity
  <2>1. Some(s) \in s
    BY <1>2 DEF Some
  <2> QED BY <2>1 DEF Quantities
<1>3. ASSUME NEW it PROVE Sums(it, Quantities(ord), S) <=> Matches(it)
  <2>1. [s \in SUBSET S |->
            IF s = {} THEN 0 ELSE Quantities(ord)[Some(s)] + it[s \ {Some(s)}]]
        = [s \in SUBSET S |->
            IF s = {} THEN 0 ELSE ord[Some(s)].quantity + it[s \ {Some(s)}]]
    BY <1>2
  <2> QED BY <2>1 DEF Sums
<1>4. \E it : Matches(it)
  BY <1>3, SumsExist
<1> HIDE DEF Matches
<1>5. Matches(sum)
  BY <1>4
<1> HIDE DEF sum
<1>6. Sums(sum, Quantities(ord), S)
  BY <1>3, <1>5
<1> QED BY <1>1, <1>6, TotalIs

\* A level has finitely many orders.
LEMMA LinkedFinite ==
  ASSUME NEW side, NEW n \in Nat, SideOK(side, n), NEW p
  PROVE  IsFiniteSet(Linked(side, p)) /\ Linked(side, p) \subseteq 1 .. n
<1>1. Linked(side, p) \subseteq 1 .. n
  BY RangeOfSeq DEF SideOK, PriceLevel, Linked
<1>2. IsFiniteSet(1 .. n)
  BY FS_Interval
<1> QED BY <1>1, <1>2, FS_Subset

\* Volumes depend on the quantities of linked orders only.
LEMMA VolumeAgrees ==
  ASSUME NEW side, NEW n \in Nat, SideOK(side, n), NEW f, NEW g, VolumeOK(side, f),
         \A p \in DOMAIN side : \A o \in Linked(side, p) : f[o] = g[o]
  PROVE  VolumeOK(side, g)
<1>1. ASSUME NEW p \in DOMAIN side
      PROVE  Total(f, Linked(side, p)) = Total(g, Linked(side, p))
  BY LinkedFinite, TotalAgree
<1> QED BY <1>1 DEF VolumeOK

\* appendOrder adds the quantity of the new order.
LEMMA AppendVolume ==
  ASSUME NEW side, NEW n \in Nat, SideOK(side, n),
         NEW f \in [1 .. n -> 0 .. QtyMod - 1], VolumeOK(side, f),
         NEW p \in Price, NEW o \in 1 .. n, o \notin Linked(side, p)
  PROVE  VolumeOK(AppendOrder(side, p, o, f[o]), f)
<1> DEFINE level == IF p \in DOMAIN side THEN side[p] ELSE EmptyLevel
           volume == (level.totalVolume + f[o]) % QtyMod
           new == AppendOrder(side, p, o, f[o])
           was == Linked(side, p)
<1> USE ConstantsAssumption
<1>1. /\ DOMAIN new = DOMAIN side \cup {p} /\ new[p].totalVolume = volume
      /\ \A r \in DOMAIN side : r # p => new[r] = side[r]
  BY DEF AppendOrder, Put
<1>2. /\ SideOK(new, n) /\ Linked(new, p) = was \cup {o}
      /\ \A r : r # p => Linked(new, r) = Linked(side, r)
  <2>1. f[o] \in 0 .. QtyMod - 1
    OBVIOUS
  <2> QED BY <2>1, AppendOrderLinks
<1> HIDE DEF new
<1>3. IsFiniteSet(Linked(new, p)) /\ Linked(new, p) \subseteq 1 .. n
  BY <1>2, LinkedFinite
<1>4. \A x \in 1 .. n : f[x] \in Int
  OBVIOUS
<1>5. /\ Total(f, was) \in Int
      /\ Total(f, Linked(new, p)) = f[o] + Total(f, was)
  <2>1. Linked(new, p) \ {o} = was /\ o \in Linked(new, p)
    BY <1>2
  <2>2. \A x \in Linked(new, p) : f[x] \in Int
    BY <1>3, <1>4
  <2> HIDE DEF was
  <2> QED BY <1>3, <2>1, <2>2, TotalTake
<1>6. level.totalVolume = Total(f, was) % QtyMod
  <2>1. CASE p \in DOMAIN side
    BY <2>1 DEF VolumeOK
  <2>2. CASE p \notin DOMAIN side
    <3>1. was = {} /\ level.totalVolume = 0
      BY <2>2 DEF Linked, EmptyLevel
    <3>2. Total(f, was) = 0
      BY <3>1, TotalEmpty
    <3>3. 0 % QtyMod = 0
      OBVIOUS
    <3> QED BY <3>1, <3>2, <3>3
  <2> QED BY <2>1, <2>2
<1>7. volume = Total(f, Linked(new, p)) % QtyMod
  <2> HIDE DEF level, was
  <2>1. ((Total(f, was) % QtyMod) + f[o]) % QtyMod = (Total(f, was) + f[o]) % QtyMod
    BY <1>4, <1>5, ModSum
  <2>2. Total(f, was) + f[o] = f[o] + Total(f, was)
    BY <1>4, <1>5
  <2> QED BY <1>5, <1>6, <2>1, <2>2
<1> HIDE DEF volume, was
<1>8. ASSUME NEW r \in DOMAIN new
      PROVE  new[r].totalVolume = Total(f, Linked(new, r)) % QtyMod
  <2>1. CASE r = p
    BY <1>1, <1>7, <2>1
  <2>2. CASE r # p
    BY <1>1, <1>2, <2>2 DEF VolumeOK
  <2> QED BY <2>1, <2>2
<1> QED BY <1>8 DEF VolumeOK, new

\* removeOrder takes off the quantity of the order.
LEMMA RemoveVolume ==
  ASSUME NEW side, NEW n \in Nat, SideOK(side, n),
         NEW f \in [1 .. n -> 0 .. QtyMod - 1], VolumeOK(side, f),
         NEW p \in DOMAIN side, NEW o \in Linked(side, p)
  PROVE  VolumeOK(RemoveOrder(side, p, o, f[o]), f)
<1> DEFINE volume == (side[p].totalVolume - f[o]) % QtyMod
           new == RemoveOrder(side, p, o, f[o])
           was == Linked(side, p)
<1> USE ConstantsAssumption
<1>1. /\ p \in DOMAIN new => new[p].totalVolume = volume
      /\ \A r \in DOMAIN new : r # p => r \in DOMAIN side /\ new[r] = side[r]
  BY DEF RemoveOrder, Put, Erase
<1>2. IsFiniteSet(was) /\ was \subseteq 1 .. n
  BY LinkedFinite
<1>3. \A x \in was : f[x] \in Int /\ f[x] \in 0 .. QtyMod - 1
  BY <1>2
<1>4. /\ Linked(new, p) = was \ {o}
      /\ \A r : r # p => Linked(new, r) = Linked(side, r)
  BY <1>3, RemoveOrderUnlinks
<1> HIDE DEF new
<1>5. /\ Total(f, was) \in Int /\ Total(f, was \ {o}) \in Int
      /\ Total(f, was) = f[o] + Total(f, was \ {o})
  <2>1. \A x \in was : f[x] \in Int
    BY <1>3
  <2> QED BY <1>2, <2>1, TotalTake
<1>6. volume = Total(f, Linked(new, p)) % QtyMod
  <2>1. side[p].totalVolume = Total(f, was) % QtyMod
    BY DEF VolumeOK
  <2> HIDE DEF was
  <2>2. ((Total(f, was) % QtyMod) - f[o]) % QtyMod = (Total(f, was) - f[o]) % QtyMod
    BY <1>3, <1>5, ModDifference DEF was
  <2>3. f[o] \in Int
    BY <1>3 DEF was
  <2>4. Total(f, was) - f[o] = Total(f, was \ {o})
    BY <1>5, <2>3
  <2> QED BY <1>4, <2>1, <2>2, <2>4
<1> HIDE DEF volume, was
<1>7. ASSUME NEW r \in DOMAIN new
      PROVE  new[r].totalVolume = Total(f, Linked(new, r)) % QtyMod
  <2>1. CASE r = p
    BY <1>1, <1>6, <2>1
  <2>2. CASE r # p
    BY <1>1, <1>4, <2>2 DEF VolumeOK
  <2> QED BY <2>1, <2>2
<1> QED BY <1>7 DEF VolumeOK, new

\* A trade takes from the volume what it takes from the order.
LEMMA ReducedVolume ==
  ASSUME NEW side, NEW n \in Nat, SideOK(side, n),
         NEW f \in [1 .. n -> 0 .. QtyMod - 1], VolumeOK(side, f),
         NEW p \in DOMAIN side, NEW o \in Linked(side, p),
         \A r : r # p => o \notin Linked(side, r),
         NEW g \in [1 .. n -> 0 .. QtyMod - 1],
         \A x \in 1 .. n : x # o => g[x] = f[x],
         NEW qty \in 0 .. QtyMod - 1, g[o] = f[o] - qty
  PROVE  VolumeOK(ReduceVolume(side, p, qty), g)
<1> DEFINE volume == (side[p].totalVolume - qty) % QtyMod
           new == ReduceVolume(side, p, qty)
           was == Linked(side, p)
<1> USE ConstantsAssumption
<1>1. /\ DOMAIN new = DOMAIN side /\ new[p].totalVolume = volume
      /\ \A r \in DOMAIN side : r # p => new[r] = side[r]
  <2>1. side[p] \in PriceLevel(n)
    BY DEF SideOK
  <2>2. [side[p] EXCEPT !.totalVolume = volume].totalVolume = volume
    BY <2>1 DEF PriceLevel
  <2>3. new = [side EXCEPT ![p] = [side[p] EXCEPT !.totalVolume = volume]]
    BY DEF ReduceVolume
  <2> HIDE DEF new, volume
  <2> QED BY <2>2, <2>3
<1>2. \A r : Linked(new, r) = Linked(side, r)
  BY ReduceVolumeLinks
<1> HIDE DEF new
<1>3. \A r : IsFiniteSet(Linked(side, r)) /\ Linked(side, r) \subseteq 1 .. n
  BY LinkedFinite
<1>4. \A x \in 1 .. n : f[x] \in Int /\ g[x] \in Int
  OBVIOUS
<1>5. /\ Total(f, was) = f[o] + Total(f, was \ {o})
      /\ Total(g, was) = g[o] + Total(g, was \ {o})
      /\ Total(f, was) \in Int /\ Total(f, was \ {o}) \in Int
  <2>1. IsFiniteSet(was)
    BY <1>3
  <2>2. \A x \in was : f[x] \in Int
    BY <1>3, <1>4
  <2>3. \A x \in was : g[x] \in Int
    BY <1>3, <1>4
  <2>4. /\ Total(f, was) \in Int /\ Total(f, was \ {o}) \in Int
        /\ Total(f, was) = f[o] + Total(f, was \ {o})
    BY <2>1, <2>2, TotalTake
  <2>5. Total(g, was) = g[o] + Total(g, was \ {o})
    BY <2>1, <2>3, TotalTake
  <2> QED BY <2>4, <2>5
<1>6. Total(f, was \ {o}) = Total(g, was \ {o})
  <2>1. IsFiniteSet(was \ {o}) /\ was \subseteq 1 .. n
    BY <1>3, FS_RemoveElement
  <2> HIDE DEF was
  <2>2. \A x \in was \ {o} : f[x] = g[x]
    BY <2>1
  <2> QED BY <2>1, <2>2, TotalAgree
<1>7. volume = Total(g, was) % QtyMod
  <2>1. side[p].totalVolume = Total(f, was) % QtyMod
    BY DEF VolumeOK
  <2>2. f[o] \in Int /\ qty \in Int
    BY <1>3, <1>4
  <2> HIDE DEF was
  <2>3. ((Total(f, was) % QtyMod) - qty) % QtyMod = (Total(f, was) - qty) % QtyMod
    BY <1>5, <2>2, ModDifference
  <2>4. Total(f, was) - qty = Total(g, was)
    BY <1>5, <1>6, <2>2
  <2> QED BY <2>1, <2>3, <2>4
<1> HIDE DEF volume
<1>8. ASSUME NEW r \in DOMAIN new
      PROVE  new[r].totalVolume = Total(g, Linked(new, r)) % QtyMod
  <2>1. CASE r = p
    BY <1>1, <1>2, <1>7, <2>1
  <2>2. CASE r # p
    <3>1. \A x \in Linked(side, r) : f[x] = g[x]
      BY <1>3, <2>2
    <3>2. Total(f, Linked(side, r)) = Total(g, Linked(side, r))
      BY <1>3, <3>1, TotalAgree
    <3> QED BY <1>1, <1>2, <2>2, <3>2 DEF VolumeOK
  <2> QED BY <2>1, <2>2
<1> QED BY <1>8 DEF VolumeOK, new

-----------------------------------------------------------------------------
(* Every action keeps the volumes.                                         *)

Volumes == \A s \in Side : VolumeOK(book[s], Quantities(order))

\* What the quantities are.
LEMMA QuantitiesType ==
  ASSUME NEW ord \in Seq(Order \cup {Blank})
  PROVE  Quantities(ord) \in [1 .. Len(ord) -> 0 .. QtyMod - 1]
<1>1. DOMAIN ord = 1 .. Len(ord) /\ \A o \in 1 .. Len(ord) : ord[o] \in Order \cup {Blank}
  BY LenProperties
<1>2. \A r \in Order \cup {Blank} : r.quantity \in 0 .. QtyMod - 1
  BY ConstantsAssumption DEF Order, Blank
<1> QED BY <1>1, <1>2 DEF Quantities

\* What the volumes' lemmas ask for, of the state before a step.
LEMMA VolumeFacts ==
  ASSUME IInv, Volumes, NEW s \in Side
  PROVE  /\ Len(order) \in Nat
         /\ Quantities(order) \in [1 .. Len(order) -> 0 .. QtyMod - 1]
         /\ \A o \in 1 .. Len(order) : Quantities(order)[o] = order[o].quantity
         /\ DOMAIN book = Side
         /\ SideOK(book[s], Len(order)) /\ VolumeOK(book[s], Quantities(order))
         /\ \A r : Linked(book[s], r) # {} => r \in Price
<1>1. order \in Seq(Order \cup {Blank}) /\ BookOK(book, Len(order))
  BY DEF IInv, Typed, Sides
<1>2. Len(order) \in Nat /\ DOMAIN order = 1 .. Len(order)
  BY <1>1, LenProperties
<1>3. \A o \in 1 .. Len(order) : Quantities(order)[o] = order[o].quantity
  BY <1>2 DEF Quantities
<1>4. \A r : Linked(book[s], r) # {} => r \in Price
  BY <1>1 DEF BookOK, SideOK, Linked
<1> QED BY <1>1, <1>2, <1>3, <1>4, QuantitiesType DEF BookOK, Volumes

\* One side changes; on the other, all linked orders keep their quantity.
LEMMA OneSideChanges ==
  ASSUME IInv, Volumes, NEW s \in Side, NEW new, VolumeOK(new, Quantities(order')),
         book' = [book EXCEPT ![s] = new],
         \A t \in Side \ {s}, r \in Price : \A o \in Linked(book[t], r) :
            Quantities(order')[o] = Quantities(order)[o]
  PROVE  Volumes'
<1>1. DOMAIN book = Side
  BY VolumeFacts
<1>2. ASSUME NEW t \in Side, t # s PROVE VolumeOK(book[t], Quantities(order'))
  <2>1. /\ SideOK(book[t], Len(order)) /\ VolumeOK(book[t], Quantities(order))
        /\ Len(order) \in Nat
    BY VolumeFacts
  <2>2. \A r \in DOMAIN book[t] : \A o \in Linked(book[t], r) :
           Quantities(order)[o] = Quantities(order')[o]
    BY <1>2, <2>1 DEF SideOK
  <2> QED BY <2>1, <2>2, VolumeAgrees
<1>3. \A t \in Side : VolumeOK(book'[t], Quantities(order'))
  BY <1>1, <1>2
<1>4. Quantities(order)' = Quantities(order')
  BY DEF Quantities
<1> QED BY <1>3, <1>4 DEF Volumes

\* The book stays, and so does the quantity of every linked order.
LEMMA BookStays ==
  ASSUME IInv, Volumes, book' = book,
         \A t \in Side, r \in Price : \A o \in Linked(book[t], r) :
            Quantities(order')[o] = Quantities(order)[o]
  PROVE  Volumes'
<1>1. ASSUME NEW t \in Side PROVE VolumeOK(book[t], Quantities(order'))
  <2>1. /\ SideOK(book[t], Len(order)) /\ VolumeOK(book[t], Quantities(order))
        /\ Len(order) \in Nat
    BY VolumeFacts
  <2>2. \A r \in DOMAIN book[t] : \A o \in Linked(book[t], r) :
           Quantities(order)[o] = Quantities(order')[o]
    BY <2>1 DEF SideOK
  <2> QED BY <2>1, <2>2, VolumeAgrees
<1>2. Quantities(order)' = Quantities(order')
  BY DEF Quantities
<1> QED BY <1>1, <1>2 DEF Volumes

\* An order acquired from the pool is linked nowhere.
LEMMA SubmitVolumes ==
  ASSUME IInv, Volumes, NEW i, NEW p, NEW q, NEW s, NEW m, Submit(i, p, q, s, m)
  PROVE  Volumes'
<1> DEFINE n == Len(order)
           new == [id |-> i, price |-> p, quantity |-> q, side |-> s, isMarket |-> m]
<1>1. Acquire(new) /\ book' = book
  BY DEF Submit
<1>2. /\ n \in Nat /\ DOMAIN order = 1 .. n /\ order \in Seq(Order \cup {Blank})
      /\ freeList \in Seq(1 .. n) /\ IsInjective(freeList)
  BY LenProperties DEF IInv, Typed
<1> HIDE DEF new
<1>3. ASSUME NEW o \in 1 .. n, o \notin Free
      PROVE  o \in DOMAIN order' /\ order'[o] = order[o]
  <2>1. CASE freeList = <<>>
    <3>1. order' = Append(order, new)
      BY <1>1, <2>1 DEF Acquire
    <3> QED BY <1>2, <3>1
  <2>2. CASE freeList # <<>>
    <3>1. order' = [order EXCEPT ![Last(freeList)] = new]
      BY <1>1, <2>2 DEF Acquire
    <3>2. Last(freeList) \in Free
      BY <1>2, <2>2, FrontRange DEF Free
    <3> QED BY <1>2, <1>3, <3>1, <3>2
  <2> QED BY <2>1, <2>2
<1>4. ASSUME NEW t \in Side, NEW r \in Price, NEW o \in Linked(book[t], r)
      PROVE  Quantities(order')[o] = Quantities(order)[o]
  <2>1. o \in 1 .. n /\ o \notin Free
    BY LinkedFacts
  <2> QED BY <1>2, <1>3, <2>1 DEF Quantities
<1> QED BY <1>1, <1>4, BookStays

\* A trade: the level loses what the maker loses.
LEMMA TradeVolumes ==
  ASSUME IInv, Volumes, Marketable, NEW f \in [1 .. Len(order) -> 0 .. QtyMod - 1],
         NEW qty \in 0 .. QtyMod - 1,
         f[Maker] = order[Maker].quantity - qty,
         \A o \in 1 .. Len(order) : o # Maker => f[o] = order[o].quantity
  PROVE  VolumeOK(ReduceVolume(book[MakerSide], MakerPrice, qty), f)
<1> DEFINE n == Len(order)
           S == MakerSide
           P == MakerPrice
           M == Maker
<1>1. /\ S \in Side /\ P \in Price /\ P \in DOMAIN book[S] /\ M \in Linked(book[S], P)
  BY MakerFacts
<1> HIDE DEF S, P, M
<1>2. /\ n \in Nat /\ Quantities(order) \in [1 .. n -> 0 .. QtyMod - 1]
      /\ \A o \in 1 .. n : Quantities(order)[o] = order[o].quantity
      /\ SideOK(book[S], n) /\ VolumeOK(book[S], Quantities(order))
      /\ \A r : Linked(book[S], r) # {} => r \in Price
  BY <1>1, VolumeFacts
<1>3. M \in 1 .. n /\ \A r : r # P => M \notin Linked(book[S], r)
  <2>1. /\ M \in 1 .. n
        /\ \A t \in Side, r \in Price : M \in Linked(book[t], r) => t = S /\ r = P
    BY <1>1, LinkedFacts
  <2>2. ASSUME NEW r, M \in Linked(book[S], r) PROVE r = P
    <3>1. r \in Price
      BY <1>2, <2>2
    <3> QED BY <1>1, <2>1, <2>2, <3>1
  <2> QED BY <2>1, <2>2
<1>4. f[M] = Quantities(order)[M] - qty
  BY <1>2, <1>3 DEF M
<1>5. \A x \in 1 .. n : x # M => f[x] = Quantities(order)[x]
  BY <1>2 DEF M
<1>6. VolumeOK(ReduceVolume(book[S], P, qty), f)
  BY <1>1, <1>2, <1>3, <1>4, <1>5, ReducedVolume
<1> QED BY <1>6 DEF S, P

\* A maker that is filled leaves its level, with its volume.
LEMMA FillMakerVolumes == ASSUME IInv, Volumes, FillMaker PROVE Volumes'
<1> DEFINE n == Len(order)
           S == MakerSide
           P == MakerPrice
           M == Maker
           qty == order[M].quantity
           f == [Quantities(order) EXCEPT ![M] = 0]
           v == ReduceVolume(book[S], P, qty)
           w == RemoveOrder(v, P, M, 0)
<1>1. /\ Marketable /\ taker # null
      /\ order' = [order EXCEPT ![taker].quantity = @ - qty, ![M] = Blank]
      /\ book' = [book EXCEPT ![S] = w]
  BY DEF FillMaker, Marketable
<1>2. /\ S \in Side /\ P \in Price /\ P \in DOMAIN book[S] /\ M \in Linked(book[S], P)
  BY <1>1, MakerFacts
<1>3. /\ n \in Nat /\ Quantities(order) \in [1 .. n -> 0 .. QtyMod - 1]
      /\ \A o \in 1 .. n : Quantities(order)[o] = order[o].quantity
      /\ SideOK(book[S], n)
      /\ DOMAIN order = 1 .. n
  BY <1>2, VolumeFacts, LenProperties DEF IInv, Typed
<1>4. /\ M \in 1 .. n /\ M # taker
      /\ \A t \in Side, r \in Price : M \in Linked(book[t], r) => t = S /\ r = P
  BY <1>2, LinkedFacts
<1>5. qty \in 0 .. QtyMod - 1 /\ 0 \in 0 .. QtyMod - 1 /\ qty - qty = 0
  <2>1. qty \in 0 .. QtyMod - 1
    BY <1>3, <1>4
  <2> QED BY <2>1, ConstantsAssumption
<1>6. /\ f \in [1 .. n -> 0 .. QtyMod - 1] /\ f[M] = 0
      /\ \A o \in 1 .. n : o # M => f[o] = order[o].quantity
  BY <1>3, <1>4, <1>5
<1>7. VolumeOK(v, f)
  BY <1>1, <1>5, <1>6, TradeVolumes
<1> HIDE DEF M, S, P, qty, f
<1>8. /\ SideOK(v, n) /\ P \in DOMAIN v
      /\ \A r : Linked(v, r) = Linked(book[S], r)
  BY <1>2, <1>3, <1>5, ReduceVolumeLinks
<1> HIDE DEF v
<1>9. M \in Linked(v, P)
  BY <1>2, <1>8
<1>10. /\ SideOK(w, n)
       /\ Linked(w, P) = Linked(v, P) \ {M}
       /\ \A r : r # P => Linked(w, r) = Linked(v, r)
  BY <1>3, <1>5, <1>8, <1>9, RemoveOrderUnlinks
<1>11. VolumeOK(w, f)
  <2>1. VolumeOK(RemoveOrder(v, P, M, f[M]), f)
    BY <1>3, <1>6, <1>7, <1>8, <1>9, RemoveVolume
  <2> QED BY <1>6, <2>1
<1> HIDE DEF w
<1>12. ASSUME NEW o \in 1 .. n, o # M, o # taker
       PROVE  o \in DOMAIN order' /\ order'[o] = order[o]
  BY <1>1, <1>3, <1>12
<1>13. ASSUME NEW r \in DOMAIN w, NEW o \in Linked(w, r)
       PROVE  f[o] = Quantities(order')[o]
  <2>1. r \in Price /\ o \in Linked(book[S], r)
    BY <1>8, <1>10 DEF SideOK
  <2>2. o \in 1 .. n /\ o # taker
    BY <1>2, <2>1, LinkedFacts
  <2>3. o # M
    BY <1>2, <1>4, <1>10, <2>1
  <2> QED BY <1>6, <1>12, <2>2, <2>3 DEF Quantities
<1>14. VolumeOK(w, Quantities(order'))
  BY <1>3, <1>10, <1>11, <1>13, VolumeAgrees
<1>15. ASSUME NEW t \in Side \ {S}, NEW r \in Price, NEW o \in Linked(book[t], r)
       PROVE  Quantities(order')[o] = Quantities(order)[o]
  <2>1. o \in 1 .. n /\ o # taker
    BY LinkedFacts
  <2>2. o # M
    BY <1>4
  <2> QED BY <1>3, <1>12, <2>1, <2>2 DEF Quantities
<1> QED BY <1>1, <1>2, <1>14, <1>15, OneSideChanges

\* A taker that is filled leaves the maker a rest, and its level that much less.
LEMMA FillTakerVolumes == ASSUME IInv, Volumes, FillTaker PROVE Volumes'
<1> DEFINE n == Len(order)
           S == MakerSide
           P == MakerPrice
           M == Maker
           qty == order[taker].quantity
           rest == order[M].quantity - qty
           f == [Quantities(order) EXCEPT ![M] = rest]
           w == ReduceVolume(book[S], P, qty)
<1>1. /\ Marketable /\ taker # null /\ order[M].quantity > qty
      /\ order' = [order EXCEPT ![taker].quantity = 0, ![M].quantity = @ - qty]
      /\ book' = [book EXCEPT ![S] = w]
  BY DEF FillTaker, Marketable
<1>2. /\ S \in Side /\ P \in Price /\ P \in DOMAIN book[S] /\ M \in Linked(book[S], P)
  BY <1>1, MakerFacts
<1>3. /\ n \in Nat /\ Quantities(order) \in [1 .. n -> 0 .. QtyMod - 1]
      /\ \A o \in 1 .. n : Quantities(order)[o] = order[o].quantity
      /\ SideOK(book[S], n)
      /\ DOMAIN order = 1 .. n
  BY <1>2, VolumeFacts, LenProperties DEF IInv, Typed
<1>4. /\ M \in 1 .. n /\ M # taker /\ order[M] \in Order
      /\ taker \in 1 .. n /\ order[taker] \in Order
  BY <1>1, <1>2, LinkedFacts, TakerFacts
<1>5. qty \in 0 .. QtyMod - 1 /\ rest \in 0 .. QtyMod - 1
  <2>1. qty \in 0 .. QtyMod - 1 /\ order[M].quantity \in 0 .. QtyMod - 1
    BY <1>4 DEF Order
  <2> QED BY <1>1, <2>1, ConstantsAssumption
<1>6. /\ f \in [1 .. n -> 0 .. QtyMod - 1] /\ f[M] = rest
      /\ \A o \in 1 .. n : o # M => f[o] = order[o].quantity
  BY <1>3, <1>4, <1>5
<1>7. VolumeOK(w, f)
  <2> HIDE DEF f
  <2> QED BY <1>1, <1>5, <1>6, TradeVolumes
<1> HIDE DEF M, S, P, qty, f
<1>8. SideOK(w, n) /\ \A r : Linked(w, r) = Linked(book[S], r)
  BY <1>2, <1>3, <1>5, ReduceVolumeLinks
<1> HIDE DEF w
<1>9. /\ M \in DOMAIN order' /\ order'[M].quantity = rest
      /\ \A o \in 1 .. n : o # M /\ o # taker =>
            o \in DOMAIN order' /\ order'[o] = order[o]
  <2> DEFINE left == [order[taker] EXCEPT !.quantity = 0]
             kept == [order[M] EXCEPT !.quantity = rest]
  <2>1. kept.quantity = rest
    BY <1>4 DEF Order
  <2>2. order' = [[order EXCEPT ![taker] = left] EXCEPT ![M] = kept]
    BY <1>1, <1>4
  <2> HIDE DEF left, kept
  <2> QED BY <1>3, <1>4, <2>1, <2>2
<1>10. ASSUME NEW r \in DOMAIN w, NEW o \in Linked(w, r)
       PROVE  f[o] = Quantities(order')[o]
  <2>1. r \in Price /\ o \in Linked(book[S], r)
    BY <1>8 DEF SideOK
  <2>2. o \in 1 .. n /\ o # taker
    BY <1>2, <2>1, LinkedFacts
  <2>3. CASE o = M
    BY <1>6, <1>9, <2>3 DEF Quantities
  <2>4. CASE o # M
    BY <1>6, <1>9, <2>2, <2>4 DEF Quantities
  <2> QED BY <2>3, <2>4
<1>11. VolumeOK(w, Quantities(order'))
  BY <1>3, <1>7, <1>8, <1>10, VolumeAgrees
<1>12. ASSUME NEW t \in Side \ {S}, NEW r \in Price, NEW o \in Linked(book[t], r)
       PROVE  Quantities(order')[o] = Quantities(order)[o]
  <2>1. o \in 1 .. n /\ o # taker
    BY LinkedFacts
  <2>2. o # M
    BY <1>2, LinkedFacts
  <2> QED BY <1>3, <1>9, <2>1, <2>2 DEF Quantities
<1> QED BY <1>1, <1>2, <1>11, <1>12, OneSideChanges

\* What is left of a limit order joins its level; anything else is not linked.
LEMMA FinishVolumes == ASSUME IInv, Volumes, Finish PROVE Volumes'
<1> DEFINE n == Len(order)
           s == order[taker].side
           p == order[taker].price
           new == AppendOrder(book[s], p, taker, order[taker].quantity)
<1>1. taker # null /\ (Rest \/ Discard)
  BY DEF Finish
<1>2. /\ taker \in 1 .. n /\ order[taker] \in Order /\ ~LinkedIn(book, taker)
  BY <1>1, TakerFacts
<1>3. s \in Side /\ p \in Price
  BY <1>2 DEF Order
<1>4. n \in Nat /\ DOMAIN order = 1 .. n
  BY LenProperties DEF IInv, Typed
<1> HIDE DEF s, p
<1>5. CASE Rest
  <2>1. order' = order /\ book' = [book EXCEPT ![s] = new]
    BY <1>5 DEF Rest, s, p
  <2>2. taker \notin Linked(book[s], p)
    BY <1>2, <1>3 DEF LinkedIn
  <2>3. /\ Quantities(order) \in [1 .. n -> 0 .. QtyMod - 1]
        /\ Quantities(order)[taker] = order[taker].quantity
        /\ SideOK(book[s], n) /\ VolumeOK(book[s], Quantities(order))
    BY <1>2, <1>3, VolumeFacts
  <2>4. VolumeOK(AppendOrder(book[s], p, taker, Quantities(order)[taker]), Quantities(order))
    BY <1>2, <1>3, <1>4, <2>2, <2>3, AppendVolume
  <2>5. VolumeOK(new, Quantities(order'))
    BY <2>1, <2>3, <2>4
  <2> HIDE DEF new
  <2> QED BY <1>3, <2>1, <2>5, OneSideChanges
<1>6. CASE Discard
  <2>1. order' = [order EXCEPT ![taker] = Blank] /\ book' = book
    BY <1>6 DEF Discard
  <2>2. ASSUME NEW t \in Side, NEW r \in Price, NEW o \in Linked(book[t], r)
        PROVE  Quantities(order')[o] = Quantities(order)[o]
    <3>1. o \in 1 .. n /\ o # taker
      BY LinkedFacts
    <3> QED BY <1>4, <2>1, <3>1 DEF Quantities
  <2> QED BY <2>1, <2>2, BookStays
<1> QED BY <1>1, <1>5, <1>6

\* A cancelled order leaves its level.
LEMMA CancelVolumes == ASSUME IInv, Volumes, NEW i, CancelOrder(i) PROVE Volumes'
<1> DEFINE n == Len(order)
           O == orderMap[i]
           S == order[O].side
           P == order[O].price
           w == RemoveOrder(book[S], P, O, order[O].quantity)
<1>1. /\ i \in DOMAIN orderMap
      /\ book' = [book EXCEPT ![S] = w]
      /\ order' = [order EXCEPT ![O] = Blank]
  BY DEF CancelOrder
<1>2. /\ O \in 1 .. n /\ order[O] \in Order
      /\ O \in Linked(book[S], P) /\ OnlyAt(book, O, S, P)
  BY <1>1, IndexFacts
<1>3. S \in Side /\ P \in Price
  BY <1>2 DEF Order
<1> HIDE DEF O, S, P
<1>4. /\ n \in Nat /\ DOMAIN order = 1 .. n
      /\ Quantities(order) \in [1 .. n -> 0 .. QtyMod - 1]
      /\ Quantities(order)[O] = order[O].quantity
      /\ SideOK(book[S], n) /\ VolumeOK(book[S], Quantities(order))
      /\ P \in DOMAIN book[S]
  BY <1>2, <1>3, VolumeFacts, LenProperties DEF IInv, Typed, Linked
<1>5. VolumeOK(w, Quantities(order))
  <2>1. VolumeOK(RemoveOrder(book[S], P, O, Quantities(order)[O]), Quantities(order))
    BY <1>2, <1>4, RemoveVolume
  <2> QED BY <1>4, <2>1
<1>6. SideOK(w, n) /\ SideWithout(w, book[S], P, O)
  <2>1. order[O].quantity \in 0 .. QtyMod - 1
    BY <1>2 DEF Order
  <2> QED BY <1>2, <1>4, <2>1, RemoveOrderUnlinks DEF SideWithout
<1> HIDE DEF w
<1>7. ASSUME NEW t \in Side, NEW r \in Price, NEW o \in Linked(book[t], r), o # O
      PROVE  Quantities(order')[o] = Quantities(order)[o]
  <2>1. o \in 1 .. n
    BY LinkedFacts
  <2> QED BY <1>1, <1>4, <1>7, <2>1 DEF Quantities
<1>8. ASSUME NEW r \in DOMAIN w, NEW o \in Linked(w, r)
      PROVE  Quantities(order)[o] = Quantities(order')[o]
  <2>1. r \in Price /\ o \in Linked(book[S], r) /\ o # O
    BY <1>2, <1>3, <1>6 DEF SideOK, SideWithout, OnlyAt
  <2> QED BY <1>3, <1>7, <2>1
<1>9. VolumeOK(w, Quantities(order'))
  BY <1>4, <1>5, <1>6, <1>8, VolumeAgrees
<1>10. ASSUME NEW t \in Side \ {S}, NEW r \in Price, NEW o \in Linked(book[t], r)
       PROVE  Quantities(order')[o] = Quantities(order)[o]
  <2>1. o # O
    BY <1>2 DEF OnlyAt
  <2> QED BY <1>7, <2>1
<1> QED BY <1>1, <1>3, <1>9, <1>10, OneSideChanges

\* A reduced order takes from its level's volume what it loses itself.
LEMMA ReduceVolumes ==
  ASSUME IInv, Volumes, NEW i, NEW new, NEW p, NEW q \in Quantity, ReduceOrder(i, new, p, q)
  PROVE  Volumes'
<1> DEFINE n == Len(order)
           O == orderMap[i]
           S == order[O].side
           cut == order[O].quantity - q
           w == ReduceVolume(book[S], p, cut)
           rec == [order[O] EXCEPT !.quantity = q, !.id = new]
<1>1. /\ i \in DOMAIN orderMap /\ p = order[O].price /\ q < order[O].quantity
      /\ book' = [book EXCEPT ![S] = w]
      /\ order' = [order EXCEPT ![O].quantity = q, ![O].id = new]
  BY DEF ReduceOrder
<1>2. /\ O \in 1 .. n /\ order[O] \in Order
      /\ O \in Linked(book[S], p) /\ OnlyAt(book, O, S, p)
  BY <1>1, IndexFacts
<1>3. S \in Side /\ p \in Price /\ order[O].quantity \in 0 .. QtyMod - 1
  BY <1>1, <1>2 DEF Order
<1> HIDE DEF O
<1>4. /\ n \in Nat /\ DOMAIN order = 1 .. n
      /\ Quantities(order) \in [1 .. n -> 0 .. QtyMod - 1]
      /\ Quantities(order)[O] = order[O].quantity
      /\ SideOK(book[S], n) /\ VolumeOK(book[S], Quantities(order))
      /\ p \in DOMAIN book[S]
      /\ \A r : Linked(book[S], r) # {} => r \in Price
  BY <1>2, <1>3, VolumeFacts, LenProperties DEF IInv, Typed, Linked
<1>5. q \in 0 .. QtyMod - 1 /\ cut \in 0 .. QtyMod - 1 /\ q = order[O].quantity - cut
  <2>1. q \in 0 .. QtyMod - 1 /\ QtyMod \in Nat
    BY ConstantsAssumption
  <2> QED BY <1>1, <1>3, <2>1
<1>6. /\ DOMAIN order' = 1 .. n /\ order'[O].quantity = q
      /\ \A o \in 1 .. n : o # O => order'[o] = order[o]
  <2>1. rec.quantity = q
    BY <1>2 DEF Order
  <2>2. order' = [order EXCEPT ![O] = rec]
    BY <1>1, <1>2, <1>4
  <2> HIDE DEF rec
  <2> QED BY <1>2, <1>4, <2>1, <2>2
<1> HIDE DEF S, cut
<1>7. /\ Quantities(order') \in [1 .. n -> 0 .. QtyMod - 1]
      /\ Quantities(order')[O] = Quantities(order)[O] - cut
      /\ \A o \in 1 .. n : o # O => Quantities(order')[o] = Quantities(order)[o]
  <2>1. ASSUME NEW o \in 1 .. n, o # O
        PROVE  Quantities(order')[o] = Quantities(order)[o]
    BY <1>4, <1>6, <2>1 DEF Quantities
  <2>2. Quantities(order')[O] = q
    BY <1>2, <1>6 DEF Quantities
  <2>3. \A o \in 1 .. n : Quantities(order')[o] \in 0 .. QtyMod - 1
    BY <1>4, <1>5, <2>1, <2>2
  <2>4. Quantities(order') = [o \in 1 .. n |-> Quantities(order')[o]]
    BY <1>6 DEF Quantities
  <2> QED BY <1>4, <1>5, <2>1, <2>2, <2>3, <2>4
<1>8. ASSUME NEW r, O \in Linked(book[S], r) PROVE r = p
  <2>1. r \in Price
    BY <1>4, <1>8
  <2> QED BY <1>2, <1>3, <1>8, <2>1 DEF OnlyAt
<1>9. VolumeOK(w, Quantities(order'))
  <2>1. PICK f : f = Quantities(order)
    OBVIOUS
  <2>2. PICK g : g = Quantities(order')
    OBVIOUS
  <2>3. /\ f \in [1 .. n -> 0 .. QtyMod - 1] /\ VolumeOK(book[S], f)
        /\ g \in [1 .. n -> 0 .. QtyMod - 1] /\ g[O] = f[O] - cut
        /\ \A o \in 1 .. n : o # O => g[o] = f[o]
    BY <1>4, <1>7, <2>1, <2>2
  <2>4. \A r : r # p => O \notin Linked(book[S], r)
    BY <1>8
  <2>5. SideOK(book[S], n) /\ n \in Nat /\ p \in DOMAIN book[S]
    BY <1>4
  <2>6. VolumeOK(w, g)
    BY ZenonT(40), <1>2, <1>5, <2>3, <2>4, <2>5, ReducedVolume
  <2> QED BY <2>2, <2>6
<1> HIDE DEF w
<1>10. ASSUME NEW t \in Side \ {S}, NEW r \in Price, NEW o \in Linked(book[t], r)
       PROVE  Quantities(order')[o] = Quantities(order)[o]
  <2>1. o \in 1 .. n
    BY LinkedFacts
  <2>2. o # O
    BY <1>2 DEF OnlyAt
  <2> QED BY <1>7, <2>1, <2>2
<1> QED BY <1>1, <1>3, <1>9, <1>10, OneSideChanges

\* A replacement leaves one level and joins another, or the same, with its new
\* quantity.
LEMMA ReplaceVolumes ==
  ASSUME IInv, Volumes, NEW i, NEW new, NEW p \in Price, NEW q \in Quantity,
         ReplaceOrder(i, new, p, q)
  PROVE  Volumes'
<1> DEFINE n == Len(order)
           O == orderMap[i]
           S == order[O].side
           P == order[O].price
           w == RemoveOrder(book[S], P, O, order[O].quantity)
           x == AppendOrder(w, p, O, q)
           rec == [order[O] EXCEPT !.quantity = q, !.id = new, !.price = p]
<1>1. /\ i \in DOMAIN orderMap
      /\ book' = [book EXCEPT ![S] = x]
      /\ order' = [order EXCEPT ![O].quantity = q, ![O].id = new, ![O].price = p]
  BY DEF ReplaceOrder
<1>2. /\ O \in 1 .. n /\ order[O] \in Order
      /\ O \in Linked(book[S], P) /\ OnlyAt(book, O, S, P)
  BY <1>1, IndexFacts
<1>3. S \in Side /\ P \in Price /\ order[O].quantity \in 0 .. QtyMod - 1
  BY <1>2 DEF Order
<1> HIDE DEF O
<1>4. /\ n \in Nat /\ DOMAIN order = 1 .. n
      /\ Quantities(order) \in [1 .. n -> 0 .. QtyMod - 1]
      /\ Quantities(order)[O] = order[O].quantity
      /\ SideOK(book[S], n) /\ VolumeOK(book[S], Quantities(order))
      /\ P \in DOMAIN book[S]
  BY <1>2, <1>3, VolumeFacts, LenProperties DEF IInv, Typed, Linked
<1>5. q \in 0 .. QtyMod - 1
  BY ConstantsAssumption
<1>6. /\ DOMAIN order' = 1 .. n /\ order'[O].quantity = q
      /\ \A o \in 1 .. n : o # O => order'[o] = order[o]
  <2>1. rec.quantity = q
    BY <1>2 DEF Order
  <2>2. order' = [order EXCEPT ![O] = rec]
    BY <1>1, <1>2, <1>4
  <2> HIDE DEF rec
  <2> QED BY <1>2, <1>4, <2>1, <2>2
<1> HIDE DEF S, P
<1>7. /\ Quantities(order') \in [1 .. n -> 0 .. QtyMod - 1]
      /\ Quantities(order')[O] = q
      /\ \A o \in 1 .. n : o # O => Quantities(order')[o] = Quantities(order)[o]
  <2>1. ASSUME NEW o \in 1 .. n, o # O
        PROVE  Quantities(order')[o] = Quantities(order)[o]
    BY <1>4, <1>6, <2>1 DEF Quantities
  <2>2. Quantities(order')[O] = q
    BY <1>2, <1>6 DEF Quantities
  <2>3. \A o \in 1 .. n : Quantities(order')[o] \in 0 .. QtyMod - 1
    BY <1>4, <1>5, <2>1, <2>2
  <2>4. Quantities(order') = [o \in 1 .. n |-> Quantities(order')[o]]
    BY <1>6 DEF Quantities
  <2> QED BY <2>1, <2>2, <2>3, <2>4
<1>8. VolumeOK(w, Quantities(order))
  <2>1. VolumeOK(RemoveOrder(book[S], P, O, Quantities(order)[O]), Quantities(order))
    BY <1>2, <1>4, RemoveVolume
  <2> QED BY <1>4, <2>1
<1>9. SideOK(w, n) /\ SideWithout(w, book[S], P, O)
  BY <1>2, <1>3, <1>4, RemoveOrderUnlinks DEF SideWithout
<1> HIDE DEF w
<1>10. ASSUME NEW r \in Price PROVE O \notin Linked(w, r)
  <2>1. CASE r = P
    BY <1>9, <2>1 DEF SideWithout
  <2>2. CASE r # P
    BY <1>2, <1>3, <1>9, <2>2 DEF SideWithout, OnlyAt
  <2> QED BY <2>1, <2>2
<1>11. ASSUME NEW r \in DOMAIN w, NEW o \in Linked(w, r)
       PROVE  Quantities(order)[o] = Quantities(order')[o]
  <2>1. r \in Price /\ o \in Linked(book[S], r) /\ o # O
    BY <1>9, <1>10 DEF SideOK, SideWithout
  <2>2. o \in 1 .. n
    BY <1>3, <2>1, LinkedFacts
  <2> QED BY <1>7, <2>1, <2>2
<1>12. VolumeOK(w, Quantities(order'))
  BY <1>4, <1>8, <1>9, <1>11, VolumeAgrees
<1>13. VolumeOK(x, Quantities(order'))
  <2>1. O \notin Linked(w, p)
    BY <1>10
  <2>2. VolumeOK(AppendOrder(w, p, O, Quantities(order')[O]), Quantities(order'))
    BY <1>2, <1>4, <1>7, <1>9, <1>12, <2>1, AppendVolume
  <2> QED BY <1>7, <2>2
<1> HIDE DEF x
<1>14. ASSUME NEW t \in Side \ {S}, NEW r \in Price, NEW o \in Linked(book[t], r)
       PROVE  Quantities(order')[o] = Quantities(order)[o]
  <2>1. o \in 1 .. n
    BY LinkedFacts
  <2>2. o # O
    BY <1>2 DEF OnlyAt
  <2> QED BY <1>7, <2>1, <2>2
<1> QED BY <1>1, <1>3, <1>13, <1>14, OneSideChanges

\* An empty book has no volumes.
LEMMA InitVolumes == Init => Volumes
<1> SUFFICES ASSUME Init, NEW s \in Side PROVE VolumeOK(book[s], Quantities(order))
  BY DEF Volumes
<1>1. DOMAIN book[s] = {}
  BY DEF Init
<1> QED BY <1>1 DEF VolumeOK

\* Every step preserves them.
LEMMA NextVolumes == IInv /\ Volumes /\ [Next]_vars => Volumes'
<1> SUFFICES ASSUME IInv, Volumes, [Next]_vars PROVE Volumes'
  OBVIOUS
<1>1. ASSUME NEW i \in OrderId, NEW p \in Price, NEW q \in Quantity, NEW s \in Side,
             NEW m \in BOOLEAN, Submit(i, p, q, s, m)
      PROVE  Volumes'
  BY <1>1, SubmitVolumes
<1>2. CASE FillMaker
  BY <1>2, FillMakerVolumes
<1>3. CASE FillTaker
  BY <1>3, FillTakerVolumes
<1>4. CASE Finish
  BY <1>4, FinishVolumes
<1>5. ASSUME NEW i \in OrderId, CancelOrder(i) PROVE Volumes'
  BY <1>5, CancelVolumes
<1>6. ASSUME NEW i \in OrderId, NEW new \in OrderId, NEW p \in Price, NEW q \in Quantity,
             ReduceOrder(i, new, p, q)
      PROVE  Volumes'
  BY <1>6, ReduceVolumes
<1>7. ASSUME NEW i \in OrderId, NEW new \in OrderId, NEW p \in Price, NEW q \in Quantity,
             ReplaceOrder(i, new, p, q)
      PROVE  Volumes'
  BY <1>7, ReplaceVolumes
<1>8. CASE UNCHANGED vars
  BY <1>8 DEF vars, Volumes
<1> QED BY <1>1, <1>2, <1>3, <1>4, <1>5, <1>6, <1>7, <1>8 DEF Next

\* They are what the property says, its sum being a total.
LEMMA VolumesImply == IInv /\ Volumes => VolumeMatches
<1> SUFFICES ASSUME IInv, Volumes, NEW s \in Side, NEW p \in DOMAIN book[s]
             PROVE  book[s][p].totalVolume =
                      MapThenSumSet(LAMBDA o : order[o].quantity, Range(book[s][p].queue))
                        % QtyMod
  BY DEF VolumeMatches
<1>1. /\ Len(order) \in Nat /\ DOMAIN order = 1 .. Len(order)
      /\ SideOK(book[s], Len(order)) /\ VolumeOK(book[s], Quantities(order))
  BY VolumeFacts, LenProperties DEF IInv, Typed
<1>2. Range(book[s][p].queue) = Linked(book[s], p)
  BY DEF Linked
<1>3. /\ IsFiniteSet(Range(book[s][p].queue))
      /\ Range(book[s][p].queue) \subseteq DOMAIN order
  BY <1>1, <1>2, LinkedFinite
<1>4. MapThenSumSet(LAMBDA o : order[o].quantity, Range(book[s][p].queue))
        = Total(Quantities(order), Range(book[s][p].queue))
  BY <1>3, VolumeIsTotal
<1>5. book[s][p].totalVolume = Total(Quantities(order), Range(book[s][p].queue)) % QtyMod
  BY <1>1, <1>2 DEF VolumeOK
<1> QED BY <1>4, <1>5

\* The volume of a level, decremented at every trade and again at every
\* unlinking, is at all times the sum of its orders' quantities, modulo the
\* width of the counter (property VolumeMatches).
THEOREM VolumesStayExact == Spec => []VolumeMatches
BY InitIInv, NextIInv, InitVolumes, NextVolumes, VolumesImply, PTL DEF Spec
=============================================================================
