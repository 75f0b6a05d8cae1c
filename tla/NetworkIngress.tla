---------------------------- MODULE NetworkIngress ----------------------------
(***************************************************************************)
(* How a client's bytes become messages in the matching thread: the loop   *)
(* of runTCPServer in apps/main.cpp, orderQueue and runMatchingEngine.     *)
(*                                                                         *)
(* TCP delivers the stream in chunks of any size.  The network thread      *)
(* appends them to `accumulator`, cuts messages off its front, parses them *)
(* in place and queues them.  The ids of a queued message are string_views *)
(* into the accumulator, which the matching thread reads later.            *)
(*                                                                         *)
(* Chunks are cut between cells: a piece of a tag or value decides nothing *)
(* before its end has come.  A cell takes one address, and all are within  *)
(* the 65536 bytes reserved, so that the accumulator is never reallocated  *)
(* while a client is connected.  That orderQueue is a bounded queue is     *)
(* shown in module SpscRing.                                               *)
(***************************************************************************)
EXTENDS FixParser

CONSTANTS
  Message,    \* what clients send: sequences of cells
  Slots,      \* what orderQueue holds
  Garbage,    \* ids that may be read from memory which holds no value
  MaxCells    \* BOUND: how much is sent

End == [kind |-> "end"]       \* the client disconnects
Lost == [kind |-> "lost"]     \* memory that holds no whole cell
Cell == TagCell \cup TextCell

\* Clients send whole fields, or hang up anywhere.
ASSUME MessageAssumption ==
  \A m \in Message :
    /\ m \in Seq(Cell \cup {End}) /\ m # <<>> /\ Last(m) \notin TagCell
    /\ \A k \in DOMAIN m : \/ m[k] = End /\ k = Len(m)
                           \/ m[k] \in (IF k % 2 = 1 THEN TagCell ELSE TextCell)

VARIABLES
  wire,         \* what was sent and not yet read
  memory, size, \* of accumulator; erased bytes stay in memory
  pc,           \* the network thread: "read", "frame", "push" or "erase"
  parsedMsg,
  orderQueue,
  msg,          \* the matching thread's message, or none
  handled,      \* GHOST: what onParsedMessage was called with and the ids it read
  sent,         \* GHOST: everything sent
  hasty         \* GHOST: did a client send on before its call was handled?

network == <<memory, size, pc, parsedMsg>>
ghosts == <<sent, hasty>>
ingressVars == <<wire, network, orderQueue, msg, handled, ghosts>>

-----------------------------------------------------------------------------
IngressInit ==
  /\ wire = <<>>
  /\ memory = <<>> /\ size = 0
  /\ pc = "read"
  /\ parsedMsg = Reset
  /\ orderQueue = <<>> /\ msg = <<>> /\ handled = <<>>
  /\ sent = <<>> /\ hasty = FALSE

\* Does the text 10= occur in a tag with its '=', or in a value?
HasTen(cell) ==
  LET bytes == IF cell.kind = "tag" THEN Append(cell.text, Equals) ELSE cell.text
  IN \E k \in 1 .. Len(bytes) - 2 : SubSeq(bytes, k, k + 2) = <<1, 0, Equals>>

\* msgLen: the first 10= wherever it is, then the first SOH; 0 if not there yet.
MsgLen ==
  LET tens == {k \in 1 .. size : HasTen(memory[k])}
      ends == {k \in Min(tens) .. size : memory[k].kind = "text"}
  IN IF tens = {} THEN 0 ELSE IF ends = {} THEN 0 ELSE Min(ends)

\* A string's bytes, its terminating NUL, and what was in memory behind it.
Holding(bytes) ==
  [a \in 1 .. Max({Len(bytes), Len(memory)}) |->
     IF a <= Len(bytes) THEN bytes[a]
     ELSE IF a = Len(bytes) + 1 THEN Lost ELSE memory[a]]

Content == SubSeq(memory, 1, size)

\* The stream as the messages that its client means, were it read at once: those
\* that are complete, each ended by its field with tag 10, and the cells after
\* them.  calls: how many fields there are in which the text 10= occurs.  Each of
\* them makes the server call the engine, the one that ends a message is its call.
Received(s, cell) ==
  LET rest == Append(s.rest, cell)
      field == {k \in DOMAIN rest : k >= Len(rest) - 1}
      calls == s.calls + (IF \E k \in field : HasTen(rest[k]) THEN 1 ELSE 0)
  IN IF cell = End THEN [s EXCEPT !.rest = <<>>]
     ELSE IF cell.kind = "tag" THEN [s EXCEPT !.rest = rest]
     ELSE IF rest[Len(rest) - 1] = Tag(Numeral(10))
     THEN [done |-> Append(s.done, [cells |-> rest, call |-> calls]),
           rest |-> <<>>, calls |-> calls]
     ELSE [s EXCEPT !.rest = rest, !.calls = calls]
Messages(stream) ==
  LET after[k \in 0 .. Len(stream)] ==
        IF k = 0 THEN [done |-> <<>>, rest |-> <<>>, calls |-> 0]
        ELSE Received(after[k - 1], stream[k])
  IN after[Len(stream)]

\* A client sends, or hangs up.  The server serves one client after the other.
Send(cells) ==
  /\ Len(sent) + Len(cells) <= MaxCells
  /\ wire' = wire \o cells
  /\ sent' = sent \o cells
  /\ LET old == Messages(sent).calls
         new == Messages(sent')
     IN hasty' = (\/ hasty
                  \/ Len(handled) < old
                  \/ new.calls > old + 1
                  \/ new.calls > old /\ (new.rest # <<>> \/ Last(cells) = End))
  /\ UNCHANGED <<network, orderQueue, msg, handled>>

\* read and append
Read(n) ==
  /\ pc = "read"
  /\ n \in 1 .. Len(wire)
  /\ \A k \in 1 .. n : wire[k] # End
  /\ memory' = Holding(Content \o SubSeq(wire, 1, n))
  /\ size' = size + n
  /\ wire' = SubSeq(wire, n + 1, Len(wire))
  /\ pc' = "frame"
  /\ UNCHANGED <<parsedMsg, orderQueue, msg, handled, ghosts>>

\* read returns 0; the accumulator is destroyed with what is left in it.
Disconnect ==
  /\ pc = "read"
  /\ wire # <<>> /\ Head(wire) = End
  /\ wire' = Tail(wire)
  /\ memory' = [a \in DOMAIN memory |-> Lost]
  /\ size' = 0
  /\ parsedMsg' = Reset
  /\ UNCHANGED <<pc, orderQueue, msg, handled, ghosts>>

\* find; parseFixMessage never returns false, as a frame ends with a field.
Frame ==
  /\ pc = "frame"
  /\ UNCHANGED <<wire, memory, size, orderQueue, msg, handled, ghosts>>
  /\ \E n \in {MsgLen} :
       IF n = 0 THEN pc' = "read" /\ UNCHANGED parsedMsg
       ELSE /\ pc' = "push"
            /\ parsedMsg' = ParseFixMessage(parsedMsg, SubSeq(memory, 1, n))

\* orderQueue.push, which spins while the ring is full.
Push ==
  /\ pc = "push"
  /\ Len(orderQueue) < Slots
  /\ orderQueue' = Append(orderQueue, parsedMsg)
  /\ pc' = "erase"
  /\ UNCHANGED <<wire, memory, size, parsedMsg, msg, handled, ghosts>>

\* accumulator = accumulator.substr(msgLen), which is in new memory.
BugErased(n) ==
  [a \in DOMAIN memory |-> IF a <= size - n THEN memory[a + n] ELSE Lost]

\* erase(0, n) moves the rest to the front, in place.
Erased(n) == Holding(SubSeq(memory, n + 1, size))

\* An if in place of the inner while.
BugErase ==
  /\ pc = "erase"
  /\ \E n \in {MsgLen} : memory' = Erased(n) /\ size' = size - n
  /\ pc' = "read"
  /\ UNCHANGED <<wire, parsedMsg, orderQueue, msg, handled, ghosts>>

Erase ==
  /\ pc = "erase"
  /\ pc' = "frame"
  /\ UNCHANGED <<wire, parsedMsg, orderQueue, msg, handled, ghosts>>
  /\ \E n \in {MsgLen} : memory' = Erased(n) /\ size' = size - n

\* The matching thread.
Pop ==
  /\ msg = <<>> /\ orderQueue # <<>>
  /\ msg' = <<Head(orderQueue)>>
  /\ orderQueue' = Tail(orderQueue)
  /\ UNCHANGED <<wire, network, handled, ghosts>>

\* What parseFastInt makes of the bytes a view points to by now.
Ids(view) ==
  IF view = 0 THEN {0}
  ELSE IF memory[view].kind = "text" THEN {ParseFastInt(memory[view].text)}
  ELSE Garbage

\* onParsedMessage
Handle ==
  /\ msg # <<>>
  /\ LET m == msg[1]
     IN \E clOrdID \in Ids(m.view[11]), origClOrdID \in Ids(m.view[41]) :
          handled' = Append(handled,
            [terms |-> [char |-> m.char, qty |-> m.qty, price |-> m.price],
             ids |-> [t \in IdTags |-> IF t = 11 THEN clOrdID ELSE origClOrdID]])
  /\ msg' = <<>>
  /\ UNCHANGED <<wire, network, orderQueue, ghosts>>

IngressNext ==
  \/ \E cells \in Message \cup {<<End>>} : Send(cells)
  \/ \E n \in 1 .. Len(wire) : Read(n)
  \/ Disconnect
  \/ Frame
  \/ Push
  \/ Erase
  \/ Pop
  \/ Handle

IngressSpec == IngressInit /\ [][IngressNext]_ingressVars

\* Neither thread blocks, but for a read of a silent client.
IngressFairSpec ==
  /\ IngressSpec
  /\ WF_ingressVars(Disconnect \/ Frame \/ Push \/ Erase \/ \E n \in 1 .. Len(wire) : Read(n))
  /\ WF_ingressVars(Pop \/ Handle)

-----------------------------------------------------------------------------
Arrived == Messages(sent).done

\* Nothing in a message is taken for what it is not: the text 10= occurs in no
\* field but its last, and no tag is taken for another.
OneEnd(cells) == \A k \in DOMAIN cells : HasTen(cells[k]) => k = Len(cells) - 1
Plain(cells) == OneEnd(cells) /\ Unmistaken(cells)

\* However TCP cuts the stream, however far the threads run apart and wherever a
\* client breaks off, the engine is called with the messages of the stream, in
\* their order, each with the quantity, the price to its implied decimals and the
\* codes of its own fields.  A message that is not plain is excepted: it is called
\* in pieces, as in 110=5, or with values of other tags.  It is the only one that
\* suffers: each field with a 10= too many is one call more, and all other messages
\* are called as they were sent.
TermsAsSent ==
  /\ Len(handled) <= Messages(sent).calls
  /\ \A k \in DOMAIN Arrived :
       LET m == Arrived[k]
       IN Plain(m.cells) /\ m.call <= Len(handled) =>
            handled[m.call].terms = MeantTerms(m.cells)

\* Clients that send nothing more, and stay, until a call is handled can rely on
\* the ids under which a plain message is handled.  All others read the
\* accumulator's later contents.
IdsAsSent ==
  hasty \/ \A k \in DOMAIN Arrived :
             LET m == Arrived[k]
             IN Plain(m.cells) /\ m.call <= Len(handled) =>
                  handled[m.call].ids = MeantIds(m.cells)

\* The engine catches up with the clients, who stop at MaxCells: every message
\* that was sent completely is handled, though no further chunk may come to set
\* off a read and the queue may be full.
AllHandled == <>[](Len(handled) = Messages(sent).calls)
===============================================================================
