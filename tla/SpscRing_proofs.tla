--------------------------- MODULE SpscRing_proofs ---------------------------
(***************************************************************************)
(* The rings are first-in, first-out queues for every size, every length   *)
(* of item, and however late the two threads see each other's stores.      *)
(***************************************************************************)
EXTENDS SpscRing, SequenceTheorems, TLAPS

-----------------------------------------------------------------------------
(* Indices in a ring.                                                      *)

LEMMA SuccIs ==
  ASSUME NEW i \in Index
  PROVE  Succ(i) \in Index /\ Succ(i) = IF i = Size - 1 THEN 0 ELSE i + 1
<1> USE ConstantsAssumption DEF Index
<1>1. CASE i = Size - 1
  <2>1. i + 1 = Size
    BY <1>1
  <2>2. Size % Size = 0
    OBVIOUS
  <2> QED BY <1>1, <2>1, <2>2 DEF Succ
<1>2. CASE i # Size - 1
  BY <1>2 DEF Succ
<1> QED BY <1>1, <1>2

LEMMA DistanceIs ==
  ASSUME NEW i \in Index, NEW j \in Index
  PROVE  /\ Distance(i, j) \in Index
         /\ Distance(i, j) = IF i <= j THEN j - i ELSE j - i + Size
<1> USE ConstantsAssumption DEF Index
<1>1. ASSUME NEW x \in -Size .. -1 PROVE x % Size = x + Size
  OBVIOUS
<1>2. CASE i <= j
  BY <1>2 DEF Distance
<1>3. CASE ~(i <= j)
  <2>1. j - i \in -Size .. -1
    BY <1>3
  <2>2. (j - i) % Size = j - i + Size
    BY <1>1, <2>1
  <2> QED BY <1>3, <2>2 DEF Distance
<1> QED BY <1>2, <1>3

\* The index d places after i.
LEMMA AfterIs ==
  ASSUME NEW i \in Index, NEW d \in Index
  PROVE  /\ (i + d) % Size \in Index
         /\ (i + d) % Size = IF i + d < Size THEN i + d ELSE i + d - Size
         /\ Distance(i, (i + d) % Size) = d
<1> USE ConstantsAssumption DEF Index
<1>1. ASSUME NEW x \in Size .. 2 * Size - 1 PROVE x % Size = x - Size
  OBVIOUS
<1>2. /\ (i + d) % Size \in Index
      /\ (i + d) % Size = IF i + d < Size THEN i + d ELSE i + d - Size
  <2>1. CASE i + d < Size
    BY <2>1
  <2>2. CASE ~(i + d < Size)
    <3>1. i + d \in Size .. 2 * Size - 1
      BY <2>2
    <3>2. (i + d) % Size = i + d - Size
      BY <1>1, <3>1
    <3> QED BY <2>2, <3>1, <3>2
  <2> QED BY <2>1, <2>2
<1>3. PICK k \in Index : k = (i + d) % Size
  BY <1>2
<1>4. Distance(i, k) = IF i <= k THEN k - i ELSE k - i + Size
  BY DistanceIs
<1>5. Distance(i, k) = d
  BY <1>2, <1>3, <1>4
<1> QED BY <1>2, <1>3, <1>5

\* Going round from i, k comes no later than j.
Between(i, k, j) == Distance(i, k) <= Distance(i, j)

\* A load returns an index the other thread had on its way.
LEMMA VisibleIs ==
  ASSUME NEW i \in Index, NEW j \in Index, NEW v \in Visible(i, j)
  PROVE  v \in Index /\ Between(i, v, j)
<1>1. Distance(i, j) \in Index
  BY DistanceIs
<1>2. PICK d \in 0 .. Distance(i, j) : v = (i + d) % Size
  BY DEF Visible
<1>3. d \in Index /\ d <= Distance(i, j)
  BY <1>1, <1>2, ConstantsAssumption DEF Index
<1> QED BY <1>2, <1>3, AfterIs DEF Between

-----------------------------------------------------------------------------
(* The invariant.                                                          *)

\* Round the ring come, in this order: the tail the producer knows, the tail,
\* the head the consumer knows, and the head.
Ordered ==
  /\ Between(pTail, tail, head)
  /\ Between(tail, cHead, head)

\* What a thread has found out stays true while it acts on it.
Checked ==
  /\ pPc = "write" => Succ(head) # pTail
  /\ cPc = "read" => tail # cHead

Sending ==
  /\ pPc = "idle" <=> item = NoItem
  /\ pPc = "write" => \A w \in 1 .. written : buffer[head][w] = item

\* The slots from tail up to head hold whole items.
Held(i) == Distance(tail, i) < Distance(tail, head)
Filled == \A i \in Index : Held(i) => \E x \in Item : buffer[i] = Whole(x)

Copied ==
  /\ cPc = "load" => copy = <<>>
  /\ \A w \in 1 .. Len(copy) : copy[w] = buffer[tail][w]

IInv == TypeOK /\ Ordered /\ Checked /\ Sending /\ Filled /\ Copied

LEMMA InitIInv == Init => IInv
<1> SUFFICES ASSUME Init PROVE IInv
  OBVIOUS
<1> USE ConstantsAssumption
<1>1. 0 \in Index
  BY DEF Index
<1>2. Distance(0, 0) = 0
  BY <1>1, DistanceIs
<1>3. Whole(NoItem) \in [1 .. Words -> Item \cup {NoItem}]
  BY DEF Whole
<1>4. TypeOK
  BY <1>1, <1>3 DEF Init, TypeOK
<1>5. Ordered
  BY <1>2 DEF Init, Ordered, Between
<1>6. Checked /\ Sending /\ Copied
  BY DEF Init, Checked, Sending, Copied
<1>7. Filled
  <2>1. ASSUME NEW i \in Index PROVE ~Held(i)
    <3>1. Distance(0, i) \in Index
      BY <1>1, DistanceIs
    <3> QED BY <1>2, <3>1 DEF Init, Held, Index
  <2> QED BY <2>1 DEF Filled
<1> QED BY <1>4, <1>5, <1>6, <1>7 DEF IInv

\* Distances along the ring add up.
LEMMA OneFurther ==
  ASSUME NEW i \in Index, NEW j \in Index, Succ(j) # i
  PROVE  Distance(i, Succ(j)) = Distance(i, j) + 1
<1>1. Succ(j) \in Index /\ Succ(j) = IF j = Size - 1 THEN 0 ELSE j + 1
  BY SuccIs
<1>2. /\ Distance(i, j) = IF i <= j THEN j - i ELSE j - i + Size
      /\ Distance(i, Succ(j)) = IF i <= Succ(j) THEN Succ(j) - i ELSE Succ(j) - i + Size
  BY <1>1, DistanceIs
<1> QED BY <1>1, <1>2, ConstantsAssumption DEF Index

LEMMA OneLess ==
  ASSUME NEW i \in Index, NEW j \in Index, i # j
  PROVE  Distance(Succ(i), j) = Distance(i, j) - 1
<1>1. Succ(i) \in Index /\ Succ(i) = IF i = Size - 1 THEN 0 ELSE i + 1
  BY SuccIs
<1>2. /\ Distance(i, j) = IF i <= j THEN j - i ELSE j - i + Size
      /\ Distance(Succ(i), j) = IF Succ(i) <= j THEN j - Succ(i) ELSE j - Succ(i) + Size
  BY <1>1, DistanceIs
<1> QED BY <1>1, <1>2, ConstantsAssumption DEF Index

LEMMA SameIndex ==
  ASSUME NEW i \in Index, NEW j \in Index, NEW k \in Index, Distance(i, j) = Distance(i, k)
  PROVE  j = k
<1>1. /\ Distance(i, j) = IF i <= j THEN j - i ELSE j - i + Size
      /\ Distance(i, k) = IF i <= k THEN k - i ELSE k - i + Size
  BY DistanceIs
<1>2. (IF i <= j THEN j - i ELSE j - i + Size) = (IF i <= k THEN k - i ELSE k - i + Size)
  BY <1>1
<1> QED BY <1>2, ConstantsAssumption DEF Index

\* In the order i, j, k, l of four indices, what holds of the outer ones holds
\* of the inner ones.
LEMMA BetweenFacts ==
  ASSUME NEW i \in Index, NEW j \in Index, NEW k \in Index, Between(i, j, k)
  PROVE  /\ Distance(i, k) = Distance(i, j) + Distance(j, k)
         /\ i = k => j = k
         /\ \A v \in Index : Between(i, v, j) => Between(v, j, k)
<1>1. \A a, b \in Index : Distance(a, b) = IF a <= b THEN b - a ELSE b - a + Size
  BY DistanceIs
<1>2. Distance(i, k) = Distance(i, j) + Distance(j, k)
  BY <1>1, ConstantsAssumption DEF Between, Index
<1>3. i = k => j = k
  BY <1>1, ConstantsAssumption DEF Between, Index
<1>4. ASSUME NEW v \in Index, Between(i, v, j) PROVE Between(v, j, k)
  BY <1>1, <1>4, ConstantsAssumption DEF Between, Index
<1> QED BY <1>2, <1>3, <1>4

-----------------------------------------------------------------------------
(* One lemma per action.                                                   *)

\* The items in the ring, and what has been copied, depend on no local index.
LEMMA SlotsKept ==
  ASSUME IInv, buffer' = buffer, head' = head, tail' = tail
  PROVE  Filled'
BY DEF IInv, Filled, Held

LEMMA PushStep ==
  ASSUME IInv, NEW x \in Item, Push(x)
  PROVE  IInv'
<1> USE DEF IInv, Push, consumer
<1>1. TypeOK'
  BY DEF TypeOK
<1>2. Ordered' /\ Checked' /\ Copied'
  BY DEF Ordered, Between, Checked, Copied
<1>3. Sending'
  BY ConstantsAssumption DEF Sending
<1> QED BY <1>1, <1>2, <1>3, SlotsKept

LEMMA LoadTailStep ==
  ASSUME IInv, NEW t \in Index, LoadTail(t)
  PROVE  IInv'
<1>1. /\ pPc = "load" /\ t \in Visible(pTail, tail) /\ pTail' = t
      /\ pPc' = IF Room(t) THEN "write" ELSE "full"
      /\ written' = 0
      /\ UNCHANGED <<buffer, head, tail, item, cPc, cHead, copy, got>>
  BY DEF LoadTail, consumer
<1>2. TypeOK /\ head \in Index /\ tail \in Index /\ pTail \in Index
  BY DEF IInv, TypeOK
<1>3. Between(t, tail, head)
  <2>1. Between(pTail, t, tail)
    BY <1>1, <1>2, VisibleIs
  <2>2. Between(pTail, tail, head)
    BY DEF IInv, Ordered
  <2> QED BY <1>2, <2>1, <2>2, BetweenFacts
<1>4. TypeOK'
  BY <1>1, <1>2, ConstantsAssumption DEF TypeOK
<1>5. Ordered'
  BY <1>1, <1>3 DEF IInv, Ordered, Between
<1>6. Checked'
  BY <1>1 DEF IInv, Checked, Room
<1>7. Sending' /\ Copied'
  BY <1>1 DEF IInv, Sending, Copied
<1> QED BY <1>1, <1>4, <1>5, <1>6, <1>7, SlotsKept DEF IInv

LEMMA FullStep ==
  ASSUME IInv, Full
  PROVE  IInv'
<1>1. /\ pPc = "full"
      /\ IF Spins THEN pPc' = "load" /\ item' = item ELSE pPc' = "idle" /\ item' = NoItem
      /\ UNCHANGED <<buffer, head, tail, pTail, written, cPc, cHead, copy, got>>
  BY DEF Full, consumer
<1>2. TypeOK'
  BY <1>1 DEF IInv, TypeOK
<1>3. Ordered' /\ Checked' /\ Copied'
  BY <1>1 DEF IInv, Ordered, Between, Checked, Copied
<1>4. Sending'
  BY <1>1 DEF IInv, Sending
<1> QED BY <1>1, <1>2, <1>3, <1>4, SlotsKept DEF IInv

\* The slot a producer writes is neither filled nor being copied.
LEMMA HeadIsFree ==
  ASSUME IInv
  PROVE  /\ ~Held(head)
         /\ cPc = "read" => tail # head
         /\ cPc = "read" => Held(tail)
         /\ pPc = "write" => Succ(head) # tail
<1>1. head \in Index /\ tail \in Index /\ pTail \in Index /\ cHead \in Index
  BY DEF IInv, TypeOK
<1>2. ~Held(head)
  <2>1. Distance(tail, head) \in Index
    BY <1>1, DistanceIs
  <2> QED BY <2>1 DEF Held, Index
<1>3. cPc = "read" => tail # head
  <2>1. Between(tail, cHead, head)
    BY DEF IInv, Ordered
  <2>2. tail = head => cHead = head
    BY <1>1, <2>1, BetweenFacts
  <2> QED BY <2>2 DEF IInv, Checked
<1>4. cPc = "read" => Held(tail)
  <2>1. /\ Distance(tail, tail) = 0
        /\ Distance(tail, head) = IF tail <= head THEN head - tail ELSE head - tail + Size
    BY <1>1, DistanceIs, ConstantsAssumption DEF Index
  <2> QED BY <1>1, <1>3, <2>1, ConstantsAssumption DEF Held, Index
<1>5. pPc = "write" => Succ(head) # tail
  <2>1. ASSUME pPc = "write", Succ(head) = tail PROVE FALSE
    <3>1. Between(pTail, tail, head)
      BY DEF IInv, Ordered
    <3>2. Succ(head) # pTail
      BY <2>1 DEF IInv, Checked
    <3>3. Distance(pTail, tail) = Distance(pTail, head) + 1
      BY <1>1, <2>1, <3>2, OneFurther
    <3>4. Distance(pTail, head) \in Index /\ Distance(pTail, tail) \in Index
      BY <1>1, DistanceIs
    <3> QED BY <3>1, <3>3, <3>4 DEF Between, Index
  <2> QED BY <2>1
<1> QED BY <1>2, <1>3, <1>4, <1>5

LEMMA WriteWordStep ==
  ASSUME IInv, WriteWord
  PROVE  IInv'
<1> DEFINE slot == [buffer[head] EXCEPT ![written + 1] = item]
<1>1. /\ pPc = "write" /\ written < Words
      /\ buffer' = [buffer EXCEPT ![head] = slot]
      /\ written' = written + 1
      /\ UNCHANGED <<head, tail, pPc, item, pTail, cPc, cHead, copy, got>>
  BY DEF WriteWord, consumer
<1>2. TypeOK /\ head \in Index /\ tail \in Index
  BY DEF IInv, TypeOK
<1>3. written \in 0 .. Words - 1 /\ written + 1 \in 1 .. Words
  BY <1>1, <1>2, ConstantsAssumption DEF TypeOK
<1>4. /\ slot \in [1 .. Words -> Item \cup {NoItem}]
      /\ slot[written + 1] = item
      /\ \A w \in 1 .. written : slot[w] = buffer[head][w]
  BY <1>2, <1>3, ConstantsAssumption DEF TypeOK
<1> HIDE DEF slot
<1>5. buffer'[head] = slot /\ \A i \in Index : i # head => buffer'[i] = buffer[i]
  BY <1>1, <1>2 DEF TypeOK
<1>6. TypeOK'
  BY <1>1, <1>2, <1>3, <1>4 DEF TypeOK
<1>7. Ordered' /\ Checked'
  BY <1>1 DEF IInv, Ordered, Between, Checked
<1>8. Sending'
  <2>1. \A w \in 1 .. written + 1 : slot[w] = item
    BY <1>1, <1>3, <1>4 DEF IInv, Sending
  <2> QED BY <1>1, <1>5, <2>1 DEF IInv, Sending
<1>9. Filled'
  <2>1. ASSUME NEW i \in Index, Held(i)' PROVE \E x \in Item : buffer'[i] = Whole(x)
    <3>1. Held(i)
      BY <1>1, <2>1 DEF Held
    <3>2. i # head
      BY <3>1, HeadIsFree
    <3> QED BY <1>5, <3>1, <3>2 DEF IInv, Filled
  <2> QED BY <2>1 DEF Filled
<1>10. Copied'
  <2>1. CASE cPc = "load"
    BY <1>1, <2>1 DEF IInv, Copied
  <2>2. CASE cPc = "read"
    <3>1. tail # head
      BY <2>2, HeadIsFree
    <3> QED BY <1>1, <1>2, <1>5, <2>2, <3>1 DEF IInv, Copied
  <2> QED BY <1>2, <2>1, <2>2 DEF TypeOK
<1> QED BY <1>6, <1>7, <1>8, <1>9, <1>10 DEF IInv

\* A completed slot holds the item.
LEMMA SlotIsWhole ==
  ASSUME IInv, pPc = "write", Released
  PROVE  buffer[head] = Whole(item) /\ item \in Item
<1>1. buffer[head] \in [1 .. Words -> Item \cup {NoItem}] /\ item \in Item \cup {NoItem}
  BY DEF IInv, TypeOK
<1>2. \A w \in 1 .. Words : buffer[head][w] = item
  BY DEF IInv, Sending, Released
<1>3. item # NoItem
  BY DEF IInv, Sending
<1> QED BY <1>1, <1>2, <1>3 DEF Whole

LEMMA StoreHeadStep ==
  ASSUME IInv, StoreHead
  PROVE  IInv'
<1>1. /\ pPc = "write" /\ Released
      /\ head' = Succ(head) /\ pPc' = "idle" /\ item' = NoItem
      /\ UNCHANGED <<buffer, tail, pTail, written, cPc, cHead, copy, got>>
  BY DEF StoreHead, consumer
<1>2. TypeOK /\ head \in Index /\ tail \in Index /\ pTail \in Index /\ cHead \in Index
  BY DEF IInv, TypeOK
<1>3. Succ(head) # pTail /\ Succ(head) # tail
  BY <1>1, HeadIsFree DEF IInv, Checked
<1>4. /\ Distance(pTail, head') = Distance(pTail, head) + 1
      /\ Distance(tail, head') = Distance(tail, head) + 1
  BY <1>1, <1>2, <1>3, OneFurther
<1>5. /\ Distance(pTail, head) \in Int /\ Distance(tail, head) \in Int
      /\ Distance(pTail, tail) \in Int /\ Distance(tail, cHead) \in Int
  BY <1>2, DistanceIs DEF Index
<1>6. TypeOK'
  BY <1>1, <1>2, SuccIs DEF TypeOK
<1>7. Ordered'
  BY <1>1, <1>4, <1>5 DEF IInv, Ordered, Between
<1>8. Checked' /\ Sending' /\ Copied'
  BY <1>1 DEF IInv, Checked, Sending, Copied
<1>9. Filled'
  <2>1. ASSUME NEW i \in Index, Held(i)' PROVE \E x \in Item : buffer'[i] = Whole(x)
    <3>1. Distance(tail, i) < Distance(tail, head) + 1 /\ Distance(tail, i) \in Int
      BY <1>1, <1>2, <1>4, <2>1, DistanceIs DEF Held, Index
    <3>2. CASE Held(i)
      BY <1>1, <3>2 DEF IInv, Filled
    <3>3. CASE ~Held(i)
      <4>1. Distance(tail, i) = Distance(tail, head)
        BY <1>5, <3>1, <3>3 DEF Held
      <4>2. i = head
        BY <1>2, <4>1, SameIndex
      <4> QED BY <1>1, <4>2, SlotIsWhole
    <3> QED BY <3>2, <3>3
  <2> QED BY <2>1 DEF Filled
<1> QED BY <1>6, <1>7, <1>8, <1>9 DEF IInv

LEMMA LoadHeadStep ==
  ASSUME IInv, NEW h \in Index, LoadHead(h)
  PROVE  IInv'
<1>1. /\ cPc = "load" /\ h \in Visible(cHead, head) /\ cHead' = h
      /\ cPc' = IF NonEmpty(h) THEN "read" ELSE "load"
      /\ UNCHANGED <<buffer, head, tail, pPc, item, pTail, written, copy, got>>
  BY DEF LoadHead, producer
<1>2. TypeOK /\ head \in Index /\ tail \in Index /\ cHead \in Index
  BY DEF IInv, TypeOK
<1>3. Between(tail, h, head)
  <2>1. Between(cHead, h, head)
    BY <1>1, <1>2, VisibleIs
  <2>2. Between(tail, cHead, head)
    BY DEF IInv, Ordered
  <2>3. \A a, b \in Index : Distance(a, b) = IF a <= b THEN b - a ELSE b - a + Size
    BY DistanceIs
  <2> QED BY <1>2, <2>1, <2>2, <2>3, ConstantsAssumption DEF Between, Index
<1>4. TypeOK'
  BY <1>1, <1>2 DEF TypeOK
<1>5. Ordered'
  BY <1>1, <1>3 DEF IInv, Ordered, Between
<1>6. Checked'
  BY <1>1 DEF IInv, Checked, NonEmpty
<1>7. Sending'
  BY <1>1 DEF IInv, Sending
<1>8. Copied'
  BY <1>1 DEF IInv, Copied
<1> QED BY <1>1, <1>4, <1>5, <1>6, <1>7, <1>8, SlotsKept DEF IInv

LEMMA ReadWordStep ==
  ASSUME IInv, ReadWord
  PROVE  IInv'
<1> DEFINE n == Len(copy)
           word == buffer[tail][n + 1]
<1>1. /\ cPc = "read" /\ n < Words /\ copy' = Append(copy, word)
      /\ UNCHANGED <<buffer, head, tail, pPc, item, pTail, written, cPc, cHead, got>>
  BY DEF ReadWord, producer
<1>2. TypeOK /\ copy \in Seq(Item \cup {NoItem}) /\ n \in Nat
  BY LenProperties DEF IInv, TypeOK
<1>3. n + 1 \in 1 .. Words
  BY <1>1, <1>2, ConstantsAssumption
<1>4. word \in Item \cup {NoItem}
  BY <1>2, <1>3 DEF TypeOK
<1>5. /\ copy' \in Seq(Item \cup {NoItem}) /\ Len(copy') = n + 1
      /\ \A w \in 1 .. n : copy'[w] = copy[w]
      /\ copy'[n + 1] = word
  BY <1>1, <1>2, <1>4, AppendProperties
<1>6. TypeOK'
  <2>1. Len(copy') <= Words
    BY <1>1, <1>2, <1>5, ConstantsAssumption
  <2> QED BY <1>1, <1>2, <1>5, <2>1 DEF TypeOK
<1>7. Ordered' /\ Checked' /\ Sending'
  BY <1>1 DEF IInv, Ordered, Between, Checked, Sending
<1>8. Copied'
  <2>1. \A w \in 1 .. n + 1 : copy'[w] = buffer[tail][w]
    <3>1. \A w \in 1 .. n : copy'[w] = buffer[tail][w]
      BY <1>5 DEF IInv, Copied
    <3> QED BY <1>2, <1>5, <3>1
  <2> QED BY <1>1, <1>5, <2>1 DEF Copied
<1> QED BY <1>1, <1>6, <1>7, <1>8, SlotsKept DEF IInv

LEMMA StoreTailStep ==
  ASSUME IInv, StoreTail
  PROVE  /\ IInv'
         /\ got' = buffer[tail]
<1>1. /\ cPc = "read" /\ Len(copy) = Words
      /\ tail' = Succ(tail) /\ cPc' = "load" /\ got' = copy /\ copy' = <<>>
      /\ UNCHANGED <<buffer, head, pPc, item, pTail, written, cHead>>
  BY DEF StoreTail, producer
<1>2. TypeOK /\ head \in Index /\ tail \in Index /\ pTail \in Index /\ cHead \in Index
  BY DEF IInv, TypeOK
<1>3. tail # cHead /\ tail # head
  BY <1>1, HeadIsFree DEF IInv, Checked
<1>4. /\ Distance(tail', cHead) = Distance(tail, cHead) - 1
      /\ Distance(tail', head) = Distance(tail, head) - 1
      /\ tail' \in Index
  BY <1>1, <1>2, <1>3, OneLess, SuccIs
<1>5. copy \in [1 .. Words -> Item \cup {NoItem}]
  <2>1. copy \in Seq(Item \cup {NoItem})
    BY <1>2 DEF TypeOK
  <2> QED BY <1>1, <2>1, LenProperties
<1>6. copy = buffer[tail]
  <2>1. buffer[tail] \in [1 .. Words -> Item \cup {NoItem}]
    BY <1>2 DEF TypeOK
  <2>2. \A w \in 1 .. Words : copy[w] = buffer[tail][w]
    BY <1>1 DEF IInv, Copied
  <2>3. PICK slot \in [1 .. Words -> Item \cup {NoItem}] : slot = buffer[tail]
    BY <2>1
  <2>4. PICK c \in [1 .. Words -> Item \cup {NoItem}] : c = copy
    BY <1>5
  <2>5. c = [w \in 1 .. Words |-> c[w]] /\ slot = [w \in 1 .. Words |-> slot[w]]
    OBVIOUS
  <2>6. \A w \in 1 .. Words : c[w] = slot[w]
    BY <2>2, <2>3, <2>4
  <2>7. c = slot
    BY <2>5, <2>6
  <2> QED BY <2>3, <2>4, <2>7
<1>7. TypeOK'
  BY <1>1, <1>2, <1>4, <1>5, ConstantsAssumption DEF TypeOK
<1>8. Ordered'
  <2>1. Distance(tail, head) \in Int /\ Distance(tail, cHead) \in Int
    BY <1>2, DistanceIs DEF Index
  <2>2. Between(tail', cHead, head)
    BY <1>4, <2>1 DEF IInv, Ordered, Between
  <2>3. Between(pTail, tail', head)
    <3>1. Between(pTail, tail, head)
      BY DEF IInv, Ordered
    <3>2. Distance(pTail, head) = Distance(pTail, tail) + Distance(tail, head)
      BY <1>2, <3>1, BetweenFacts
    <3>3. /\ Distance(pTail, tail) \in Int /\ Distance(tail', head) \in Nat
          /\ Distance(pTail, head) \in Nat
      BY <1>2, <1>4, DistanceIs DEF Index
    <3>4. CASE tail' # pTail
      <4>1. Distance(pTail, tail') = Distance(pTail, tail) + 1
        BY <1>1, <1>2, <3>4, OneFurther
      <4> QED BY <1>4, <2>1, <3>2, <3>3, <4>1 DEF Between
    <3>5. CASE tail' = pTail
      <4>1. Distance(pTail, tail') = 0
        BY <1>2, <3>5, DistanceIs, ConstantsAssumption DEF Index
      <4> QED BY <3>3, <4>1 DEF Between
    <3> QED BY <3>4, <3>5
  <2> QED BY <1>1, <2>2, <2>3 DEF Ordered, Between
<1>9. Checked' /\ Sending' /\ Copied'
  BY <1>1 DEF IInv, Checked, Sending, Copied
<1>10. Filled'
  <2>1. ASSUME NEW i \in Index, Held(i)' PROVE Held(i)
    <3>1. \A a, b \in Index : Distance(a, b) = IF a <= b THEN b - a ELSE b - a + Size
      BY DistanceIs
    <3>2. Distance(tail', i) < Distance(tail', head)
      BY <1>1, <2>1 DEF Held
    <3>3. tail' = IF tail = Size - 1 THEN 0 ELSE tail + 1
      BY <1>1, <1>2, SuccIs
    <3> QED BY <1>2, <1>3, <1>4, <3>1, <3>2, <3>3, ConstantsAssumption DEF Held, Index
  <2> QED BY <1>1, <2>1 DEF IInv, Filled
<1> QED BY <1>1, <1>6, <1>7, <1>8, <1>9, <1>10 DEF IInv

LEMMA NextIInv == IInv /\ [Next]_vars => IInv'
<1> SUFFICES ASSUME IInv, [Next]_vars PROVE IInv'
  OBVIOUS
<1>1. CASE UNCHANGED vars
  BY <1>1 DEF vars, producer, consumer, IInv, TypeOK, Ordered, Between, Checked, Sending,
              Filled, Held, Copied
<1> QED BY <1>1, PushStep, LoadTailStep, FullStep, WriteWordStep, StoreHeadStep, LoadHeadStep,
          ReadWordStep, StoreTailStep DEF Next, InPush, InPop

\* Every reachable state satisfies the invariant.
THEOREM Invariance == Spec => []IInv
BY InitIInv, NextIInv, PTL DEF Spec

\* The variables of the ring keep their types (property TypeOK).
THEOREM TypeCorrect == Spec => []TypeOK
BY Invariance, PTL DEF IInv

\* The producer and the consumer never access the same slot at once, whatever
\* the size of the ring (property NoSharedSlot).
THEOREM NoDataRace == Spec => []NoSharedSlot
<1>1. IInv => NoSharedSlot
  BY HeadIsFree DEF NoSharedSlot
<1> QED BY <1>1, Invariance, PTL

-----------------------------------------------------------------------------
(* The ring implements the queue.                                          *)

Wholes == {Whole(x) : x \in Item}
Slot(i) == (tail + i - 1) % Size

\* The items of the queue are the slots from the tail on.
LEMMA ContentsAre ==
  ASSUME IInv
  PROVE  /\ Distance(tail, head) \in Index
         /\ Contents \in Seq(Wholes)
         /\ Len(Contents) = Distance(tail, head)
         /\ \A i \in 1 .. Distance(tail, head) :
               /\ Slot(i) \in Index /\ Held(Slot(i)) /\ Slot(i) # head
               /\ Contents[i] = buffer[Slot(i)]
<1>1. head \in Index /\ tail \in Index
  BY DEF IInv, TypeOK
<1>2. Distance(tail, head) \in Index /\ Distance(tail, head) \in Nat
  BY <1>1, DistanceIs, ConstantsAssumption DEF Index
<1>3. ASSUME NEW i \in 1 .. Distance(tail, head)
      PROVE  Slot(i) \in Index /\ Held(Slot(i)) /\ Slot(i) # head /\ buffer[Slot(i)] \in Wholes
  <2>1. PICK d \in Index : d = i - 1 /\ d < Distance(tail, head)
    BY <1>2, ConstantsAssumption DEF Index
  <2>2. (tail + d) % Size \in Index /\ Distance(tail, (tail + d) % Size) = d
    BY <1>1, AfterIs
  <2>3. Slot(i) = (tail + d) % Size
    <3>1. tail + i - 1 = tail + d
      BY <1>1, <2>1 DEF Index
    <3> QED BY <3>1 DEF Slot
  <2>4. Slot(i) \in Index /\ Held(Slot(i))
    BY <2>1, <2>2, <2>3 DEF Held
  <2>5. Slot(i) # head
    BY <2>4, HeadIsFree
  <2>6. \E x \in Item : buffer[Slot(i)] = Whole(x)
    BY <2>4 DEF IInv, Filled
  <2> QED BY <2>4, <2>5, <2>6 DEF Wholes
<1>4. \A i \in 1 .. Distance(tail, head) : Contents[i] = buffer[Slot(i)]
  BY DEF Contents, Slot
<1>5. Contents \in [1 .. Distance(tail, head) -> Wholes]
  BY <1>3 DEF Contents, Slot
<1>6. Contents \in Seq(Wholes) /\ Len(Contents) = Distance(tail, head)
  BY <1>2, <1>5, LenProperties
<1> QED BY <1>2, <1>3, <1>4, <1>6

\* The same, to be used of the next state.
ContentsFacts ==
  /\ Distance(tail, head) \in Index
  /\ Contents \in Seq(Wholes)
  /\ Len(Contents) = Distance(tail, head)
  /\ \A i \in 1 .. Distance(tail, head) : Contents[i] = buffer[Slot(i)]

LEMMA ContentsFactsHold == IInv => ContentsFacts
BY ContentsAre DEF ContentsFacts

LEMMA ContentsKept ==
  ASSUME IInv, head' = head, tail' = tail, \A i \in Index : i # head => buffer'[i] = buffer[i]
  PROVE  Contents' = Contents
<1>1. \A i \in 1 .. Distance(tail, head) : Slot(i) \in Index /\ Slot(i) # head
  BY ContentsAre
<1>2. \A i \in 1 .. Distance(tail, head) : buffer'[Slot(i)] = buffer[Slot(i)]
  BY <1>1
<1> QED BY <1>2 DEF Contents, Slot

\* A stored head appends the producer's item.
LEMMA StoreHeadAccepts ==
  ASSUME IInv, IInv', StoreHead
  PROVE  /\ Len(Contents) < Size - 1
         /\ Contents' = Append(Contents, Whole(item))
<1> DEFINE n == Distance(tail, head)
           q == Contents
           r == Contents'
           v == Whole(item)
<1>1. /\ pPc = "write" /\ Released /\ head' = Succ(head) /\ tail' = tail /\ buffer' = buffer
  BY DEF StoreHead
<1>2. head \in Index /\ tail \in Index
  BY DEF IInv, TypeOK
<1>3. Distance(tail, head') = n + 1
  BY <1>1, <1>2, HeadIsFree, OneFurther
<1>4. /\ n \in Index /\ q \in Seq(Wholes) /\ Len(q) = n
      /\ \A i \in 1 .. n : q[i] = buffer[Slot(i)]
  BY ContentsAre
<1>5. ContentsFacts'
  BY ContentsFactsHold, PTL
<1>6. /\ n + 1 \in Index /\ r \in Seq(Wholes) /\ Len(r) = n + 1
      /\ \A i \in 1 .. n + 1 : r[i] = buffer[Slot(i)]
  BY <1>1, <1>3, <1>5 DEF ContentsFacts, Slot
<1>7. n < Size - 1
  BY <1>4, <1>6, ConstantsAssumption DEF Index
<1>8. v \in Wholes
  BY <1>1, SlotIsWhole DEF Wholes
<1>9. buffer[Slot(n + 1)] = v
  <2>1. Slot(n + 1) = (tail + n) % Size
    <3>1. tail + (n + 1) - 1 = tail + n
      BY <1>2, <1>4 DEF Index
    <3> QED BY <3>1 DEF Slot
  <2>2. (tail + n) % Size \in Index /\ Distance(tail, (tail + n) % Size) = n
    BY <1>2, <1>4, AfterIs
  <2>3. (tail + n) % Size = head
    BY <1>2, <2>2, SameIndex
  <2> QED BY <1>1, <2>1, <2>3, SlotIsWhole
<1> HIDE DEF q, r, v, n
<1>10. /\ Append(q, v) \in Seq(Wholes) /\ Len(Append(q, v)) = n + 1
       /\ \A i \in 1 .. n : Append(q, v)[i] = q[i]
       /\ Append(q, v)[n + 1] = v
  BY <1>4, <1>8, AppendProperties
<1>11. ASSUME NEW i \in 1 .. n + 1 PROVE r[i] = Append(q, v)[i]
  <2>1. n \in Nat
    BY <1>4, ConstantsAssumption DEF Index
  <2> QED BY <1>4, <1>6, <1>9, <1>10, <2>1
<1>12. r = Append(q, v)
  BY <1>6, <1>10, <1>11, SeqEqual
<1> QED BY <1>4, <1>7, <1>12 DEF q, r, v

\* A stored tail takes the first item off, and pop returns it.
LEMMA StoreTailTakes ==
  ASSUME IInv, IInv', StoreTail
  PROVE  /\ Contents # <<>>
         /\ got' = Head(Contents)
         /\ Contents' = Tail(Contents)
<1> DEFINE n == Distance(tail, head)
           q == Contents
           r == Contents'
<1>1. /\ cPc = "read" /\ tail' = Succ(tail) /\ head' = head /\ buffer' = buffer
      /\ got' = buffer[tail]
  BY StoreTailStep DEF StoreTail
<1>2. head \in Index /\ tail \in Index
  BY DEF IInv, TypeOK
<1>3. Distance(tail', head) = n - 1
  BY <1>1, <1>2, HeadIsFree, OneLess
<1>4. /\ n \in Index /\ q \in Seq(Wholes) /\ Len(q) = n
      /\ \A i \in 1 .. n : q[i] = buffer[Slot(i)]
  BY ContentsAre
<1>5. ContentsFacts'
  BY ContentsFactsHold, PTL
<1>6. /\ n - 1 \in Index /\ r \in Seq(Wholes) /\ Len(r) = n - 1
      /\ \A i \in 1 .. n - 1 : r[i] = buffer[(tail' + i - 1) % Size]
  BY <1>1, <1>3, <1>5 DEF ContentsFacts, Slot
<1>7. n \in Nat \ {0} /\ 1 \in 1 .. n
  BY <1>4, <1>6, ConstantsAssumption DEF Index
<1>8. ASSUME NEW i \in 1 .. n - 1 PROVE (tail' + i - 1) % Size = Slot(i + 1)
  <2>1. i \in Index /\ i - 1 \in Index /\ tail + (i + 1) - 1 = tail + i
    BY <1>2, <1>4, <1>7, ConstantsAssumption DEF Index
  <2>2. PICK j \in Index : j = i - 1
    BY <2>1
  <2>3. tail' \in Index /\ tail' = IF tail = Size - 1 THEN 0 ELSE tail + 1
    BY <1>1, <1>2, SuccIs
  <2>4. (tail' + j) % Size = IF tail' + j < Size THEN tail' + j ELSE tail' + j - Size
    BY <2>3, AfterIs
  <2>5. (tail + i) % Size = IF tail + i < Size THEN tail + i ELSE tail + i - Size
    BY <1>2, <2>1, AfterIs
  <2>6. tail' + i - 1 = tail' + j
    BY <2>2, <2>3 DEF Index
  <2>7. (tail' + j) % Size = (tail + i) % Size
    BY <1>2, <2>1, <2>2, <2>3, <2>4, <2>5, ConstantsAssumption DEF Index
  <2> QED BY <2>1, <2>6, <2>7 DEF Slot
<1>9. Slot(1) = tail
  <2>1. tail + 1 - 1 = tail + 0 /\ 0 \in Index /\ tail + 0 = tail /\ tail < Size
    BY <1>2, ConstantsAssumption DEF Index
  <2>2. (tail + 0) % Size = IF tail + 0 < Size THEN tail + 0 ELSE tail + 0 - Size
    BY <1>2, <2>1, AfterIs
  <2> QED BY <2>1, <2>2 DEF Slot
<1> HIDE DEF q, r, n
<1>10. q # <<>>
  BY <1>4, <1>7, EmptySeq
<1>11. /\ Head(q) = q[1] /\ Tail(q) \in Seq(Wholes) /\ Len(Tail(q)) = n - 1
       /\ \A i \in 1 .. n - 1 : Tail(q)[i] = q[i + 1]
  BY <1>4, <1>10, HeadTailProperties
<1>12. ASSUME NEW i \in 1 .. n - 1 PROVE r[i] = Tail(q)[i]
  <2>1. i + 1 \in 1 .. n
    BY <1>7
  <2>2. r[i] = buffer[Slot(i + 1)]
    BY <1>6, <1>8
  <2> QED BY <1>4, <1>11, <2>1, <2>2
<1>13. r = Tail(q)
  BY <1>6, <1>11, <1>12, SeqEqual
<1>14. got' = Head(q)
  BY <1>1, <1>4, <1>7, <1>9, <1>11
<1> QED BY <1>10, <1>13, <1>14 DEF q, r

LEMMA WholeDiffers == ASSUME NEW x \in Item PROVE Whole(x) # Whole(NoItem)
<1>1. 1 \in 1 .. Words /\ x # NoItem
  BY ConstantsAssumption
<1>2. Whole(x)[1] = x /\ Whole(NoItem)[1] = NoItem
  BY <1>1 DEF Whole
<1> QED BY <1>1, <1>2

\* The producer's item is offered from the call of push to its return.
LEMMA SendingItem ==
  ASSUME IInv
  PROVE  /\ pPc = "idle" <=> Whole(item) = Whole(NoItem)
         /\ pPc # "idle" => item \in Item
BY WholeDiffers DEF IInv, TypeOK, Sending

LEMMA FifoStep == IInv /\ IInv' /\ [Next]_vars => [Fifo!Next]_(Fifo!vars)
<1> SUFFICES ASSUME IInv, IInv', [Next]_vars PROVE [Fifo!Next]_(Fifo!vars)
  OBVIOUS
<1>1. ASSUME Contents' = Contents, item' = item, got' = got PROVE [Fifo!Next]_(Fifo!vars)
  BY <1>1 DEF Fifo!vars
<1>2. ASSUME NEW x \in Item, Push(x) PROVE [Fifo!Next]_(Fifo!vars)
  <2>1. /\ pPc = "idle" /\ item' = x /\ got' = got
        /\ head' = head /\ tail' = tail /\ buffer' = buffer
    BY <1>2 DEF Push, consumer
  <2>2. Contents' = Contents
    BY <2>1, ContentsKept
  <2>3. Whole(item) = Whole(NoItem) /\ Whole(item)' = Whole(x)
    BY <2>1, SendingItem
  <2>4. Fifo!Offer(Whole(x))
    BY <2>1, <2>2, <2>3 DEF Fifo!Offer
  <2> QED BY <2>4 DEF Fifo!Next
<1>3. ASSUME NEW t \in Index, LoadTail(t) PROVE [Fifo!Next]_(Fifo!vars)
  BY <1>1, <1>3, ContentsKept DEF LoadTail, consumer
<1>4. CASE Full
  <2>1. /\ pPc = "full" /\ got' = got
        /\ head' = head /\ tail' = tail /\ buffer' = buffer
        /\ IF Spins THEN item' = item ELSE item' = NoItem
    BY <1>4 DEF Full, consumer
  <2>2. Contents' = Contents
    BY <2>1, ContentsKept
  <2>3. CASE Spins
    BY <1>1, <2>1, <2>2, <2>3
  <2>4. CASE ~Spins
    <3>1. Whole(item) # Whole(NoItem) /\ Whole(item)' = Whole(NoItem)
      BY <2>1, <2>4, SendingItem
    <3>2. Fifo!GiveUp
      BY <2>1, <2>2, <2>4, <3>1 DEF Fifo!GiveUp
    <3> QED BY <3>2 DEF Fifo!Next
  <2> QED BY <2>3, <2>4
<1>5. CASE WriteWord
  <2>1. /\ head' = head /\ tail' = tail /\ item' = item /\ got' = got
        /\ buffer' = [buffer EXCEPT ![head][written + 1] = item]
    BY <1>5 DEF WriteWord, consumer
  <2>2. \A i \in Index : i # head => buffer'[i] = buffer[i]
    BY <2>1 DEF IInv, TypeOK
  <2> QED BY <1>1, <2>1, <2>2, ContentsKept
<1>6. CASE StoreHead
  <2>1. /\ pPc = "write" /\ item' = NoItem /\ got' = got
    BY <1>6 DEF StoreHead, consumer
  <2>2. Whole(item) # Whole(NoItem) /\ Whole(item)' = Whole(NoItem)
    BY <2>1, SendingItem
  <2>3. Len(Contents) < Size - 1 /\ Contents' = Append(Contents, Whole(item))
    BY <1>6, StoreHeadAccepts
  <2>4. Fifo!Accept
    BY <2>1, <2>2, <2>3 DEF Fifo!Accept
  <2> QED BY <2>4 DEF Fifo!Next
<1>7. ASSUME NEW h \in Index, LoadHead(h) PROVE [Fifo!Next]_(Fifo!vars)
  BY <1>1, <1>7, ContentsKept DEF LoadHead, producer
<1>8. CASE ReadWord
  BY <1>1, <1>8, ContentsKept DEF ReadWord, producer
<1>9. CASE StoreTail
  <2>1. item' = item
    BY <1>9 DEF StoreTail, producer
  <2>2. Contents # <<>> /\ got' = Head(Contents) /\ Contents' = Tail(Contents)
    BY <1>9, StoreTailTakes
  <2>3. Fifo!Take
    BY <2>1, <2>2 DEF Fifo!Take
  <2> QED BY <2>3 DEF Fifo!Next
<1>10. CASE UNCHANGED vars
  BY <1>1, <1>10, ContentsKept DEF vars, producer, consumer
<1> QED BY <1>2, <1>3, <1>4, <1>5, <1>6, <1>7, <1>8, <1>9, <1>10 DEF Next, InPush, InPop

LEMMA FifoInit == Init => Fifo!Init
<1> SUFFICES ASSUME Init PROVE Fifo!Init
  OBVIOUS
<1>1. Contents = <<>>
  <2>1. ContentsFacts
    BY InitIInv, ContentsFactsHold
  <2>2. 0 \in Index
    BY ConstantsAssumption DEF Index
  <2>3. Distance(tail, head) = 0
    BY <2>2, DistanceIs DEF Init
  <2> QED BY <2>1, <2>3, EmptySeq DEF ContentsFacts
<1> QED BY <1>1 DEF Init, Fifo!Init

\* Either ring is a bounded first-in, first-out queue (property
\* ImplementsFifo): no item is lost once accepted, none is received twice, out
\* of order or in pieces, for every size and every staleness of the loads.
THEOREM RingImplementsFifo == Spec => ImplementsFifo
BY FifoInit, FifoStep, Invariance, PTL DEF Spec, ImplementsFifo, Fifo!Spec
=============================================================================
