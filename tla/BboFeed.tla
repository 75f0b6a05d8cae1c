------------------------------- MODULE BboFeed -------------------------------
(***************************************************************************)
(* How the top of the book reaches a subscriber: publishBBO of             *)
(* src/core/OrderBook.cpp takes a snapshot, the BBO ring carries it to the *)
(* publisher thread (DisplayBBO of apps/main.cpp), which sends it as one   *)
(* UDP datagram.  A full ring refuses a snapshot, the network may lose     *)
(* one, and neither is noticed.  That the ring is a bounded queue with     *)
(* loss is shown in module SpscRing.  A message is its two prices; the     *)
(* quantities next to them, and its timestamp, are left out.               *)
(*                                                                         *)
(* ASSUMED of the network: datagrams arrive in order and at most once.  A  *)
(* subscriber who takes each as it comes, which is all that seen stands    *)
(* for, would be misled by others; one who compares timestamps would not.  *)
(***************************************************************************)
EXTENDS OrderBook

CONSTANT Slots    \* SIZE - 1, what the ring holds

ASSUME SlotsAssumption == Slots \in Nat \ {0}

VARIABLES
  bboQueue,   \* the ring: a sequence of tops of the book
  unseen,     \* how far behind the tail that the engine sees may be
  seen,       \* the prices a subscriber was told last
  lost        \* GHOST: will the newest snapshot never arrive?

queueVars == <<bboQueue, unseen, seen, lost>>
feedVars == <<vars, queueVars>>

FeedInit ==
  /\ Init
  /\ bboQueue = <<>> /\ unseen = 0
  /\ seen = TopOfBook(book)
  /\ lost = FALSE

\* buffer.push(msg), whose result nobody looks at.  It refuses the message when the
\* ring looks full: to the engine, that may not see the last slots that were freed.
Published(msg) ==
  \E missed \in 0 .. unseen :
    /\ unseen' = missed
    /\ \/ /\ Len(bboQueue) + missed < Slots
          /\ bboQueue' = Append(bboQueue, msg)
          /\ lost' = FALSE
       \/ /\ Len(bboQueue) + missed >= Slots
          /\ lost' = TRUE
          /\ UNCHANGED bboQueue
Unpublished == UNCHANGED <<bboQueue, unseen, lost>>

\* A move of the best ask alone is not published.
BugPublish(moved) ==
  IF moved /\ TopOfBook(book').bid # TopOfBook(book).bid THEN Published(TopOfBook(book'))
  ELSE Unpublished

\* publishBBO, if the top moved.
Publish(moved) == IF moved THEN Published(TopOfBook(book')) ELSE Unpublished

\* The steps of the engine, each with the publication it ends in.
NewOrder(i, p, q, s, m) == Submit(i, p, q, s, m) /\ UNCHANGED queueVars

ProcessOrder ==
  /\ Sweep
  /\ Publish(taker' = null /\ TopOfBook(book') # before)
  /\ UNCHANGED seen

\* A cancel publishes whether or not the top moved.
Cancel(i) ==
  /\ CancelOrder(i)
  /\ Publish(TRUE)
  /\ UNCHANGED seen

Modify(i, new, p, q) ==
  /\ ReduceOrder(i, new, p, q) \/ ReplaceOrder(i, new, p, q)
  /\ Publish(TopOfBook(book') # TopOfBook(book))
  /\ UNCHANGED seen

\* The publisher starts with the newest message.
BugDeliver ==
  /\ bboQueue # <<>>
  /\ seen' = Last(bboQueue)
  /\ bboQueue' = Front(bboQueue) /\ unseen' = unseen + 1
  /\ UNCHANGED <<vars, lost>>

\* DisplayBBO pops a message and sends it, and it arrives
Deliver ==
  /\ bboQueue # <<>>
  /\ seen' = Head(bboQueue)
  /\ bboQueue' = Tail(bboQueue) /\ unseen' = unseen + 1
  /\ UNCHANGED <<vars, lost>>

\* or not.
Lose ==
  /\ bboQueue # <<>>
  /\ bboQueue' = Tail(bboQueue) /\ unseen' = unseen + 1
  /\ lost' = (lost \/ bboQueue' = <<>>)
  /\ UNCHANGED <<vars, seen>>

FeedNext ==
  \/ \E i \in OrderId, p \in Price, q \in Quantity, s \in Side, m \in BOOLEAN :
        NewOrder(i, p, q, s, m)
  \/ ProcessOrder
  \/ \E i \in OrderId : Cancel(i)
  \/ \E i, new \in OrderId, p \in Price, q \in Quantity : Modify(i, new, p, q)
  \/ Deliver
  \/ Lose

FeedSpec == FeedInit /\ [][FeedNext]_feedVars

\* Neither thread blocks: processOrder goes on, the publisher polls the ring
\* and sendto returns.  The network does not lose every datagram for ever: as
\* long as snapshots keep coming some arrive, and the publisher never stops.
FeedFairSpec ==
  /\ FeedSpec
  /\ WF_feedVars(ProcessOrder)
  /\ SF_feedVars(Deliver)

-----------------------------------------------------------------------------
\* A subscriber that nothing is on the way to, and that the newest snapshot
\* reached, holds the best prices of the book, however many earlier snapshots
\* the ring or the network dropped.
CaughtUp ==
  taker = null /\ bboQueue = <<>> /\ ~lost => seen = TopOfBook(book)

\* When the top of the book has moved for the last time, subscribers are told in
\* the end, once snapshots are not lost any more.
LastTopArrives ==
  <>[][TopOfBook(book') = TopOfBook(book)]_book /\ <>[](~lost)
    => <>[](seen = TopOfBook(book))
=============================================================================
