------------------------------- MODULE SpscRing -------------------------------
(***************************************************************************)
(* The lock-free rings of src/core/RingBuffer.h and                        *)
(* src/marketdata/RingBufferBBO.h, each between one producer thread and    *)
(* one consumer thread, with the loops of apps/main.cpp and publishBBO     *)
(* around them.                                                            *)
(*                                                                         *)
(* One action per access to shared memory.  An item is copied word by      *)
(* word, as the struct assignment is.  A load of the other thread's index  *)
(* may return any value that index has had since this thread last loaded   *)
(* it: coherence forbids older ones, and nothing promises the newest.      *)
(***************************************************************************)
EXTENDS Integers, Sequences

CONSTANTS
  Size,     \* the slots of the ring
  Words,    \* the words of an item
  Item,     \* what is sent
  NoItem,   \* what a slot holds before it is first written
  Spins     \* orderQueue's producer retries a failed push; the matching
            \* thread ignores that its push to the BBO ring failed

ASSUME ConstantsAssumption ==
  /\ Size \in Nat \ {0}
  /\ Words \in Nat \ {0}
  /\ NoItem \notin Item
  /\ Spins \in BOOLEAN

Index == 0 .. Size - 1

VARIABLES
  buffer,    \* the slots, each a sequence of words
  head,      \* where the producer writes next; stored by the producer
  tail,      \* where the consumer reads next; stored by the consumer
  \* the producer thread
  pPc,       \* "idle", or in push: "load", "full", "write"
  item,      \* the argument of push
  pTail,     \* current_tail: the tail it loaded last
  written,   \* how many words of buffer[head] it has assigned
  \* the consumer thread
  cPc,       \* in pop: "load", "read"
  cHead,     \* current_head: the head it loaded last
  copy,      \* the words of buffer[tail] it has copied
  got        \* the item pop returned last, or none yet

producer == <<pPc, item, pTail, written>>
consumer == <<cPc, cHead, copy, got>>
vars == <<buffer, head, tail, producer, consumer>>

\* An index is stored without the modulo.
BugUnbounded(i) == i + 1

Succ(i) == (i + 1) % Size
Distance(i, j) == (j - i) % Size

\* What a load of an index may return: it was `seen` before and is `now`.
Visible(seen, now) == {(seen + d) % Size : d \in 0 .. Distance(seen, now)}

Whole(x) == [w \in 1 .. Words |-> x]

-----------------------------------------------------------------------------
Init ==
  /\ buffer = [i \in Index |-> Whole(NoItem)]
  /\ head = 0 /\ tail = 0
  /\ pPc = "idle" /\ item = NoItem /\ pTail = 0 /\ written = 0
  /\ cPc = "load" /\ cHead = 0 /\ copy = <<>> /\ got = Whole(NoItem)

\* The producer thread has something to send.
Push(x) ==
  /\ pPc = "idle"
  /\ pPc' = "load"
  /\ item' = x
  /\ UNCHANGED <<buffer, head, tail, pTail, written, consumer>>

\* The index after head is computed without the modulo.
BugNoWrap(t) == head + 1 # t

\* The test for a full ring.
Room(t) == Succ(head) # t

LoadTail(t) ==
  /\ pPc = "load"
  /\ t \in Visible(pTail, tail)
  /\ pTail' = t
  /\ pPc' = IF Room(t) THEN "write" ELSE "full"
  /\ written' = 0
  /\ UNCHANGED <<buffer, head, tail, item, consumer>>

\* The retry does not load the tail again.
BugTailCached ==
  /\ pPc = "full" /\ Spins
  /\ pPc' = "full"
  /\ UNCHANGED <<buffer, head, tail, item, pTail, written, consumer>>

\* The matching thread, too, waits for room.
BugWaits ==
  /\ pPc = "full"
  /\ pPc' = "load"
  /\ UNCHANGED <<buffer, head, tail, item, pTail, written, consumer>>

\* push returned false.
Full ==
  /\ pPc = "full"
  /\ IF Spins THEN pPc' = "load" /\ UNCHANGED item
     ELSE pPc' = "idle" /\ item' = NoItem
  /\ UNCHANGED <<buffer, head, tail, pTail, written, consumer>>

WriteWord ==
  /\ pPc = "write" /\ written < Words
  /\ buffer' = [buffer EXCEPT ![head][written + 1] = item]
  /\ written' = written + 1
  /\ UNCHANGED <<head, tail, pPc, item, pTail, consumer>>

\* The store of head is not a release: the last word is not visible yet.
BugRelaxed == written >= Words - 1

Released == written = Words

StoreHead ==
  /\ pPc = "write" /\ Released
  /\ head' = Succ(head)
  /\ pPc' = "idle"
  /\ item' = NoItem
  /\ UNCHANGED <<buffer, tail, pTail, written, consumer>>

-----------------------------------------------------------------------------
\* The consumer does not test for an empty ring, or leaves the last item.
BugNotTested(h) == TRUE
BugLastLeft(h) == h # tail /\ h # Succ(tail)

\* The test for an empty ring.
NonEmpty(h) == h # tail

LoadHead(h) ==
  /\ cPc = "load"
  /\ h \in Visible(cHead, head)
  /\ cHead' = h
  /\ cPc' = IF NonEmpty(h) THEN "read" ELSE "load"
  /\ UNCHANGED <<buffer, head, tail, producer, copy, got>>

ReadWord ==
  /\ cPc = "read" /\ Len(copy) < Words
  /\ copy' = Append(copy, buffer[tail][Len(copy) + 1])
  /\ UNCHANGED <<buffer, head, tail, producer, cPc, cHead, got>>

StoreTail ==
  /\ cPc = "read" /\ Len(copy) = Words
  /\ tail' = Succ(tail)
  /\ cPc' = "load"
  /\ got' = copy
  /\ copy' = <<>>
  /\ UNCHANGED <<buffer, head, producer, cHead>>

-----------------------------------------------------------------------------
InPush == (\E t \in Index : LoadTail(t)) \/ Full \/ WriteWord \/ StoreHead
InPop == (\E h \in Index : LoadHead(h)) \/ ReadWord \/ StoreTail

Next == (\E x \in Item : Push(x)) \/ InPush \/ InPop

Spec == Init /\ [][Next]_vars

\* Both threads busy-wait, so neither ever stops taking steps, and a store
\* becomes visible to the other thread in finite time.
ProducerRuns == WF_vars(InPush)
ConsumerRuns == WF_vars(InPop)
StoresArrive == SF_vars(LoadTail(tail)) /\ SF_vars(LoadHead(head))

FairSpec == Spec /\ ProducerRuns /\ ConsumerRuns /\ StoresArrive

\* The same with a consumer that may stop at any point.
ProducerFairSpec == Spec /\ ProducerRuns

-----------------------------------------------------------------------------
\* Every variable has its type.
TypeOK ==
  /\ buffer \in [Index -> [1 .. Words -> Item \cup {NoItem}]]
  /\ head \in Index /\ tail \in Index
  /\ pPc \in {"idle", "load", "full", "write"}
  /\ item \in Item \cup {NoItem}
  /\ pTail \in Index
  /\ written \in 0 .. Words
  /\ cPc \in {"load", "read"}
  /\ cHead \in Index
  /\ copy \in Seq(Item \cup {NoItem}) /\ Len(copy) <= Words
  /\ got \in [1 .. Words -> Item \cup {NoItem}]

\* The two threads never work on the same slot: the struct assignments, which
\* are not atomic, do not race, however stale the indices they are based on.
NoSharedSlot == pPc = "write" /\ cPc = "read" => head # tail

\* What has been accepted, oldest first.
Contents == [i \in 1 .. Distance(tail, head) |-> buffer[(tail + i - 1) % Size]]

Fifo == INSTANCE BoundedFifo WITH
  Item <- {Whole(x) : x \in Item}, NoItem <- Whole(NoItem),
  Capacity <- Size - 1, Lossy <- ~Spins,
  sending <- Whole(item), queue <- Contents

\* The ring is a queue of Size - 1 items: what push accepted, and nothing
\* else, is popped once, in order and in one piece.
ImplementsFifo == Fifo!Spec

\* push returns: a spinning producer gets its message in, because it loads the
\* tail anew each time; the matching thread's push returns even if the publisher
\* has stopped.
PushReturns == (pPc # "idle") ~> (pPc = "idle")

\* The consumer gets whatever is in the ring, the last item too, though it may
\* have loaded the head too early.
AllReceived == \A i \in Index : (tail = i /\ head # i) ~> (tail # i)
=============================================================================
