------------------------------ MODULE FixParser ------------------------------
(***************************************************************************)
(* The FIX parser of src/gateway/FixParser.{h,cpp}.  A message is a        *)
(* sequence of cells: the text of a tag up to its '=', then the text of    *)
(* the value up to its SOH, and so on.  A text is a sequence of characters, *)
(* each written as its distance from '0', which is what the parser computes *)
(* with.                                                                   *)
(***************************************************************************)
EXTENDS Integers, Sequences, SequencesExt, FiniteSetsExt

CONSTANTS
  impliedDecimals,   \* 4
  HalfWord,          \* 2^63: int64_t arithmetic wraps
  HalfInt            \* 2^31: what int keeps of an int64_t

\* The tags that are looked for fit into both.
ASSUME ParserAssumption ==
  impliedDecimals \in Nat \ {0} /\ HalfWord \in Nat /\ HalfWord > 99 /\ HalfInt \in Nat /\ HalfInt > 99

Dot == -2
Equals == 13
Soh == -47
NoChar == -48    \* '\0'

Tag(s) == [kind |-> "tag", text |-> s]
Text(s) == [kind |-> "text", text |-> s]
TagCell == [kind : {"tag"}, text : Seq(Int \ {Equals})]
TextCell == [kind : {"text"}, text : Seq(Int \ {Soh})]

CharTags == {35, 54, 40}   \* MsgType, Side, OrdType
IdTags == {11, 41}         \* ClOrdID, OrigClOrdID
KnownTags == CharTags \cup IdTags \cup {38, 44}   \* and OrderQty, Price

PowerOfTen[n \in Nat] == IF n = 0 THEN 1 ELSE 10 * PowerOfTen[n - 1]
Int64(n) == ((n + HalfWord) % (2 * HalfWord)) - HalfWord
Int32(n) == ((n + HalfInt) % (2 * HalfInt)) - HalfInt

-----------------------------------------------------------------------------
ParseFastInt(text) ==
  LET val[k \in 0 .. Len(text)] == IF k = 0 THEN 0 ELSE Int64(10 * val[k - 1] + text[k])
  IN val[Len(text)]

\* int tag: what is left of the number that a tag's text is read as.
TagOf(text) == Int32(ParseFastInt(text))

\* A digit or a dot is read; digits after impliedDecimals are cut,
DecimalRead(s, c) ==
  IF s.decimalCount = impliedDecimals THEN s
  ELSE IF c = Dot THEN [s EXCEPT !.seenDot = TRUE]
  ELSE [s EXCEPT !.val = Int64(10 * s.val + c),
                 !.decimalCount = s.decimalCount + (IF s.seenDot THEN 1 ELSE 0)]

\* missing ones filled up with zeros.
ParseFastDecimal(text) ==
  LET start == [val |-> 0, decimalCount |-> 0, seenDot |-> FALSE]
      read[k \in 0 .. Len(text)] ==
        IF k = 0 THEN start ELSE DecimalRead(read[k - 1], text[k])
      last == read[Len(text)]
  IN Int64(last.val * PowerOfTen[impliedDecimals - last.decimalCount])

\* reset; a view is the address of a value in the buffer, 0 if there is none.
Reset == [char |-> [t \in CharTags |-> NoChar], qty |-> 0, price |-> 0,
          view |-> [t \in IdTags |-> 0]]

\* What one field leaves in the message.
Parsed(msg, tag, value, address) ==
  IF tag \in CharTags
  THEN IF value = <<>> THEN msg ELSE [msg EXCEPT !.char[tag] = Head(value)]
  ELSE IF tag \in IdTags THEN [msg EXCEPT !.view[tag] = address]
  ELSE IF tag = 38 THEN [msg EXCEPT !.qty = ParseFastInt(value)]
  ELSE IF tag = 44 THEN [msg EXCEPT !.price = ParseFastDecimal(value)]
  ELSE msg

\* Each field in turn, at first into msg.
ParsedFrom(msg, frame) ==
  LET after[k \in 0 .. Len(frame) \div 2] ==
        IF k = 0 THEN msg
        ELSE Parsed(after[k - 1], TagOf(frame[2*k - 1].text), frame[2*k].text, 2*k)
  IN after[Len(frame) \div 2]

\* The message that is reused is not reset.
BugParseFixMessage(outMsg, frame) == ParsedFrom(outMsg, frame)

\* parseFixMessage of the cells at the start of the buffer, into outMsg.
ParseFixMessage(outMsg, frame) == ParsedFrom(Reset, frame)

-----------------------------------------------------------------------------
(* What a message says, without reading it from left to right.            *)

\* The number with the digits of text at places ks, the one at k worth 10^rank[k].
Sum10(text, ks, rank) ==
  Int64(MapThenSumSet(LAMBDA k : text[k] * PowerOfTen[rank[k]], ks))

IntValue(text) == Sum10(text, DOMAIN text, [k \in DOMAIN text |-> Len(text) - k])

\* A decimal number in units of its last implied place; what is beyond is cut.
FirstDot(text) ==
  LET dots == {k \in DOMAIN text : text[k] = Dot}
  IN IF dots = {} THEN Len(text) + 1 ELSE Min(dots)
Decimals(text, k) == {j \in DOMAIN text : text[j] # Dot /\ FirstDot(text) < j /\ j <= k}
Rank(text) ==
  [k \in DOMAIN text |->
     IF k < FirstDot(text) THEN impliedDecimals + FirstDot(text) - 1 - k
     ELSE impliedDecimals - Cardinality(Decimals(text, k))]
DecimalValue(text) ==
  Sum10(text, {k \in DOMAIN text : text[k] # Dot /\ Rank(text)[k] >= 0}, Rank(text))

\* The text of a tag of two digits.
Numeral(t) == <<t \div 10, t % 10>>

\* No other text is taken for a tag that is looked for, as 4294967334 is for 38.
Unmistaken(frame) ==
  \A k \in DOMAIN frame : \A t \in KnownTags :
    k % 2 = 1 /\ TagOf(frame[k].text) = t => frame[k].text = Numeral(t)

\* The value of the last field with tag t that counts, or none.
ValueOf(frame, t) ==
  LET at == {k \in DOMAIN frame : /\ k % 2 = 0 /\ frame[k - 1].text = Numeral(t)
                                  /\ t \in CharTags => frame[k].text # <<>>}
  IN IF at = {} THEN <<>> ELSE frame[Max(at)].text

MeantTerms(frame) ==
  [char |-> [t \in CharTags |-> LET v == ValueOf(frame, t)
                                IN IF v = <<>> THEN NoChar ELSE Head(v)],
   qty |-> IntValue(ValueOf(frame, 38)),
   price |-> DecimalValue(ValueOf(frame, 44))]

MeantIds(frame) == [t \in IdTags |-> IntValue(ValueOf(frame, t))]
=============================================================================
